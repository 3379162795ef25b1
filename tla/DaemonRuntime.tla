---------------------------- MODULE DaemonRuntime -----------------------------
(***************************************************************************)
(* The daemon's event loop: RuntimeController and the loop in main() that  *)
(* feeds it.                                                               *)
(*                                                                         *)
(* The loop takes one event, on_event moves the controller's state and     *)
(* returns a list of actions, and the loop runs them one after another     *)
(* before it takes the next event.  perform_sync and the IPC handlers are  *)
(* tasks of their own: they run between any two of those actions.          *)
(*                                                                         *)
(* Abstractions.  A timer is "off", "running" or "over".  A host status    *)
(* is in the pad's ordered queue as soon as its event is handled; `told`   *)
(* is the last one.  The tap rate of an attempt is its number.  A sync     *)
(* only ends here; CounterSync has its inside.  The daemon does not crash  *)
(* here: all but `saved` and `dbPeriod` is memory, and a restart is        *)
(* another Init.                                                           *)
(***************************************************************************)
EXTENDS Naturals, Sequences, SequencesExt, FiniteSets

CONSTANTS
    None,         \* no period, no request
    Periods,      \* history periods, in days
    DefaultDays,  \* DEFAULT_HISTORY_DAYS
    StartOpen,    \* whether SQLite may open, or fail to, at the start
    Cap,          \* MAX_UNSAVED_ATTEMPTS
    MaxAttempts,  \* bound: attempts played
    Budgets       \* bounds: attempts (at most MaxAttempts), periodic syncs,
                  \* faults (failed saves, disconnects, tosu losses) and
                  \* period changes that a behaviour may have

ASSUME CapAssumption == Cap \in Nat \ {0} /\ StartOpen \subseteq BOOLEAN
ASSUME BoundsAssumption ==
    /\ MaxAttempts \in Nat
    /\ Budgets \subseteq [attempts : 0..MaxAttempts, syncs : Nat, faults : Nat, sets : Nat]
ASSUME PeriodsAssumption == IsFiniteSet(Periods) /\ None \notin Periods /\ DefaultDays \in Periods

VARIABLES
    mode,           \* RuntimeMode
    cooldown,       \* cooldown_deadline
    backup,         \* backup_deadline
    armBackup,      \* backup_after_sync
    connected,      \* DaemonState.device_connected
    guarded,        \* pad_guard(): a prompt is open, or the pad is foreign
    told,           \* the pad was last told that a map is on
    db,             \* storage: open, and its write guard
    dbError,        \* DaemonState.storage_error is set
    todo,           \* the actions of the event being handled
    attempt,        \* the attempt being played, 0 for none
    unsaved,        \* tap_unsaved
    saved,          \* rows of tap_attempts, in order
    period,         \* tap.snapshot.period_days
    history,        \* the period tap.snapshot.history was read for
    periodUnsaved,  \* tap.period_unsaved
    dbPeriod,       \* the stored period
    setting,        \* the SetTapHistoryPeriod between its two locks
    waiting,        \* perform_sync tasks not yet finished
    done,           \* sync results not yet handled
    bounds,         \* attempts, syncs, faults and sets left
    lateOpen,       \* history: SQLite was opened in this map or cooldown
    session,        \* history: play sessions that settled
    backups         \* history: automatic backups written

play   == <<attempt, unsaved, saved>>
tap    == <<period, history, periodUnsaved, dbPeriod>>
timers == <<cooldown, backup, armBackup>>
pad    == <<connected, guarded, told>>
vars   == <<mode, timers, pad, db, dbError, todo, play, tap, setting, waiting,
            done, bounds, lateOpen, session, backups>>

InMap == mode \in {"playing", "cooldown"}

\* The loop is between two events
Ready == todo = <<>>

Writes(on) == [do |-> "writes", on |-> on]
TriggerSync == [do |-> "sync"]
Refresh == [do |-> "refresh"]
WriteBackup == [do |-> "backup"]

Count(what) == bounds[what] > 0 /\ bounds' = [bounds EXCEPT ![what] = @ - 1]

\* check_writes_allowed
CanWrite == db.open /\ db.writes

Init ==
    /\ mode = "idle"
    /\ cooldown = "off" /\ backup = "off" /\ armBackup = FALSE
    /\ connected = FALSE /\ guarded = FALSE /\ told = FALSE
    /\ \E open \in StartOpen :
           db = [open |-> open, writes |-> open] /\ dbError = ~open
    /\ todo = <<>>
    /\ attempt = 0 /\ unsaved = <<>> /\ saved = <<>>
    /\ period = DefaultDays
    /\ dbPeriod \in IF db.open THEN {period} ELSE Periods
    /\ history = (IF db.open THEN period ELSE None)
    /\ periodUnsaved = FALSE /\ setting = None
    /\ waiting = 0 /\ done = 0
    /\ bounds \in Budgets
    /\ lateOpen = FALSE /\ session = 0 /\ backups = 0

-----------------------------------------------------------------------------
(* Attempts *)

\* Mutant: one more may wait
CappedLate(s) == IF Len(s) > Cap + 1 THEN SubSeq(s, Len(s) - Cap + 1, Len(s)) ELSE s

\* cap_unsaved: the oldest go
Capped(s) == IF Len(s) > Cap THEN SubSeq(s, Len(s) - Cap + 1, Len(s)) ELSE s

\* finish_tap_attempt: queued if it has enough presses
Finish(recordable) ==
    unsaved' = IF attempt # 0 /\ recordable THEN Capped(Append(unsaved, attempt)) ELSE unsaved

\* start_tap_attempt
Start(recordable) ==
    /\ Count("attempts")
    /\ Finish(recordable)
    /\ attempt' = MaxAttempts - bounds.attempts + 1

-----------------------------------------------------------------------------
(* Events: on_event *)

\* A frame of a map: its first one, or one that went back 2 s, starts an attempt
Playing(recordable) ==
    /\ Ready
    /\ Start(recordable)
    /\ mode' = "playing"
    /\ IF mode = "playing"
          THEN UNCHANGED <<cooldown, backup, armBackup, todo>>
          ELSE /\ cooldown' = "off" /\ backup' = "off" /\ armBackup' = FALSE
               /\ todo' = <<Writes(FALSE)>>
    /\ told' = IF connected THEN TRUE ELSE told
    /\ UNCHANGED <<connected, guarded, db, dbError, saved, tap, setting, waiting,
                   done, lateOpen, session, backups>>

\* osu! says the map is failed: the attempt ends, the map goes on
Failed(recordable) ==
    /\ Ready /\ mode = "playing" /\ attempt # 0
    /\ Finish(recordable)
    /\ attempt' = 0
    /\ UNCHANGED <<mode, timers, pad, db, dbError, todo, saved, tap, setting,
                   waiting, done, bounds, lateOpen, session, backups>>

\* A frame outside a map, after one
NotPlaying(recordable) ==
    /\ Ready /\ mode = "playing"
    /\ Finish(recordable)
    /\ attempt' = 0
    /\ mode' = "cooldown" /\ cooldown' = "running"
    /\ todo' = <<Writes(FALSE)>>
    /\ told' = IF connected THEN FALSE ELSE told
    /\ UNCHANGED <<backup, armBackup, connected, guarded, db, dbError, saved,
                   tap, setting, waiting, done, bounds, lateOpen, session, backups>>

\* The watch channel has the latest value only: a loss and a reconnect in one
\* look are one change to TRUE.  Either way the pad is told that no map is on.
TosuConnectionChanged(up, recordable) ==
    /\ Ready
    /\ Count("faults")
    /\ IF up
          THEN UNCHANGED <<mode, cooldown, todo, attempt, unsaved>>
          ELSE /\ Finish(recordable) /\ attempt' = 0
               /\ IF mode = "playing"
                     THEN /\ mode' = "cooldown" /\ cooldown' = "running"
                          /\ todo' = <<Writes(FALSE)>>
                     ELSE UNCHANGED <<mode, cooldown, todo>>
    /\ told' = IF connected THEN FALSE ELSE told
    /\ UNCHANGED <<backup, armBackup, connected, guarded, db, dbError, saved, tap,
                   setting, waiting, done, lateOpen, session, backups>>

\* The sync a connected pad is asked for: only in IDLE, with a database, and
\* only from a pad we may touch
DeviceConnected(prompt) ==
    /\ Ready /\ ~connected
    /\ connected' = TRUE /\ guarded' = (guarded \/ prompt)
    /\ told' = (mode = "playing")
    /\ todo' = IF mode = "idle" /\ ~dbError /\ ~guarded' THEN <<TriggerSync>> ELSE <<>>
    /\ UNCHANGED <<bounds, mode, timers, db, dbError, play, tap, setting, waiting, done,
                   lateOpen, session, backups>>

\* A takeover prompt goes with the pad, a replacement prompt stays
DeviceDisconnected(replacement) ==
    /\ Ready /\ connected
    /\ Count("faults")
    /\ connected' = FALSE /\ guarded' = (guarded /\ replacement)
    /\ UNCHANGED <<mode, timers, told, db, dbError, todo, play, tap, setting, waiting,
                   done, lateOpen, session, backups>>

\* IPC: the user answered the prompt
PromptAnswered ==
    /\ guarded
    /\ guarded' = FALSE
    /\ UNCHANGED <<mode, timers, connected, told, db, dbError, todo, play, tap, setting,
                   waiting, done, bounds, lateOpen, session, backups>>

\* Mutant: the cooldown ends in SYNC and nobody is asked to sync
CooldownOverSilent ==
    IF cooldown # "over" \/ mode # "cooldown"
       THEN [mode |-> mode, acts |-> <<>>]
       ELSE IF guarded THEN [mode |-> "idle", acts |-> <<Writes(TRUE)>>]
       ELSE [mode |-> "sync", acts |-> <<Writes(TRUE)>>]

\* Mutant: while a prompt is open COOLDOWN does not end
CooldownOverStuck ==
    IF cooldown # "over" \/ mode # "cooldown" \/ guarded
       THEN [mode |-> mode, acts |-> <<>>]
       ELSE [mode |-> "sync", acts |-> <<Writes(TRUE), TriggerSync>>]

\* Tick 1: COOLDOWN ends in SYNC, or in IDLE when the pad is left alone
CooldownOver ==
    IF cooldown # "over" \/ mode # "cooldown"
       THEN [mode |-> mode, acts |-> <<>>]
       ELSE IF guarded THEN [mode |-> "idle", acts |-> <<Writes(TRUE)>>]
       ELSE [mode |-> "sync", acts |-> <<Writes(TRUE), TriggerSync>>]

\* Tick 5: a sync every 300 s, if the counts moved
PeriodicSync(now) == now /\ connected /\ mode' = "idle" /\ ~dbError /\ ~guarded

\* Tick 5b: tap statistics, in IDLE only
SaveDue == mode' = "idle" /\ ~dbError /\ (unsaved # <<>> \/ periodUnsaved)

Save == [do |-> "save", attempts |-> unsaved,
         period |-> IF periodUnsaved THEN period ELSE None]

\* Tick 6: the IDLE check is repeated when the delay is over
BackupDue == backup = "over" /\ mode' = "idle"

\* mem::take(&mut self.tap_unsaved)
TakeUnsaved == unsaved' = IF SaveDue THEN <<>> ELSE unsaved

\* Mutant: the heartbeat says what the last status said
HeartbeatStale(due) == told

\* Tick 3: what the heartbeat, due every second, tells the pad
Heartbeat(due) == IF connected /\ due THEN mode' = "playing" ELSE told

Tick(periodic, due) ==
    /\ Ready
    /\ LET over == CooldownOver
       IN  /\ mode' = over.mode
           /\ cooldown' = IF over.acts # <<>> THEN "off" ELSE cooldown
           /\ armBackup' = IF over.mode = "sync" /\ mode = "cooldown" THEN TRUE ELSE armBackup
           /\ session' = session + (IF over.acts # <<>> THEN 1 ELSE 0)
           /\ lateOpen' = (lateOpen /\ over.acts = <<>>)
           /\ todo' = over.acts
                      \o (IF PeriodicSync(periodic) THEN <<TriggerSync>> ELSE <<>>)
                      \o (IF SaveDue THEN <<Save, Refresh>> ELSE <<>>)
                      \o (IF BackupDue THEN <<WriteBackup>> ELSE <<>>)
    /\ IF periodic
          THEN PeriodicSync(periodic) /\ Count("syncs")
          ELSE UNCHANGED bounds
    /\ told' = Heartbeat(due)
    /\ TakeUnsaved
    /\ periodUnsaved' = (periodUnsaved /\ ~SaveDue)
    /\ backup' = IF backup = "over" \/ mode' # "idle" THEN "off" ELSE backup
    /\ UNCHANGED <<connected, guarded, db, dbError, attempt, saved, period,
                   history, dbPeriod, setting, waiting, done, backups>>

\* Mutant: backup_after_sync is read, not taken
SyncArmsAlways ==
    /\ armBackup' = armBackup
    /\ backup' = IF armBackup /\ mode' = "idle" THEN "running" ELSE backup

\* mem::take(&mut self.backup_after_sync): whichever sync ends first takes it
SyncArms ==
    /\ armBackup' = FALSE
    /\ backup' = IF armBackup /\ mode' = "idle" THEN "running" ELSE backup

\* Mutant: a sync that ends re-enables writes whatever the mode is
SyncAllowsAlways == todo' = <<Writes(TRUE)>>

\* A map may have started meanwhile: writes come back in IDLE only
SyncAllows == todo' = IF mode' = "idle" THEN <<Writes(TRUE)>> ELSE <<>>

SyncCompleted ==
    /\ Ready /\ done > 0
    /\ done' = done - 1
    /\ mode' = IF mode = "sync" THEN "idle" ELSE mode
    /\ SyncAllows /\ SyncArms
    /\ UNCHANGED <<cooldown, pad, db, dbError, play, tap, setting, waiting,
                   bounds, lateOpen, session, backups>>

\* Tick, every 60 s without a database.  The new connection starts with its
\* guard open, whatever the mode is, and the actions of SqliteReconnected and
\* SqliteError are dropped.
ReopenDatabase(ok) ==
    /\ Ready /\ ~db.open
    /\ IF ok
          THEN /\ db' = [open |-> TRUE, writes |-> TRUE]
               /\ dbError' = FALSE /\ lateOpen' = InMap
          ELSE dbError' = TRUE /\ UNCHANGED <<db, lateOpen>>
    /\ UNCHANGED <<mode, timers, pad, todo, play, tap, setting, waiting, done,
                   bounds, session, backups>>

-----------------------------------------------------------------------------
(* The loop runs the actions in order *)

Doing(what) == todo # <<>> /\ Head(todo).do = what

SetStorageWritesAllowed ==
    /\ Doing("writes")
    /\ db' = IF db.open THEN [db EXCEPT !.writes = Head(todo).on] ELSE db
    /\ lateOpen' = FALSE
    /\ todo' = Tail(todo)
    /\ UNCHANGED <<mode, timers, pad, dbError, play, tap, setting, waiting, done,
                   bounds, session, backups>>

\* perform_sync in a task of its own; SYNC_LOCK makes them run one by one
StartSync ==
    /\ Doing("sync")
    /\ waiting' = waiting + 1
    /\ todo' = Tail(todo)
    /\ UNCHANGED <<mode, timers, pad, db, dbError, play, tap, setting, done, bounds,
                   lateOpen, session, backups>>

\* Mutant: what could not be saved is forgotten
RequeueForgets(s) == UNCHANGED unsaved

\* requeue_tap_attempts: ahead of anything that ended since
Requeue(s) == unsaved' = Capped(s \o unsaved)

\* One transaction for the attempts, then the period on its own
SaveTapStats(ok, okPeriod) ==
    /\ Doing("save")
    /\ ok => CanWrite
    /\ okPeriod => CanWrite
    /\ IF (ok /\ okPeriod) \/ ~CanWrite
          THEN UNCHANGED bounds
          ELSE Count("faults")
    /\ LET act == Head(todo)
       IN  /\ IF ok
                 THEN saved' = saved \o act.attempts /\ UNCHANGED unsaved
                 ELSE Requeue(act.attempts) /\ UNCHANGED saved
           /\ dbPeriod' = IF okPeriod /\ act.period # None THEN act.period ELSE dbPeriod
           /\ periodUnsaved' = (periodUnsaved \/ (~okPeriod /\ act.period # None))
    /\ todo' = Tail(todo)
    /\ UNCHANGED <<mode, timers, pad, db, dbError, attempt, period, history, setting,
                   waiting, done, lateOpen, session, backups>>

\* refresh_history: the period is read, and then the storage
RefreshRead ==
    /\ Doing("refresh")
    /\ todo' = (IF db.open THEN <<[do |-> "publish", days |-> period]>> ELSE <<>>)
               \o Tail(todo)
    /\ UNCHANGED <<mode, timers, pad, db, dbError, play, tap, setting, waiting, done,
                   bounds, lateOpen, session, backups>>

\* Only if the period is still the one that was read
Published(days) == IF period = days THEN days ELSE history

RefreshPublish ==
    /\ Doing("publish")
    /\ history' = Published(Head(todo).days)
    /\ todo' = Tail(todo)
    /\ UNCHANGED <<mode, timers, pad, db, dbError, play, period, periodUnsaved, dbPeriod,
                   setting, waiting, done, bounds, lateOpen, session, backups>>

WriteAutoBackup ==
    /\ Doing("backup")
    /\ backups' = backups + 1
    /\ todo' = Tail(todo)
    /\ UNCHANGED <<mode, timers, pad, db, dbError, play, tap, setting, waiting, done,
                   bounds, lateOpen, session>>

-----------------------------------------------------------------------------
(* Other tasks, and time *)

\* The perform_sync that has the lock ends, well or not
SyncEnds ==
    /\ waiting > 0
    /\ waiting' = waiting - 1
    /\ done' = done + 1
    /\ UNCHANGED <<mode, timers, pad, db, dbError, todo, play, tap, setting, bounds,
                   lateOpen, session, backups>>

\* SetTapHistoryPeriod, under the storage's lock
SetPeriodStore(days) ==
    /\ setting = None
    /\ Count("sets")
    /\ dbPeriod' = IF CanWrite THEN days ELSE dbPeriod
    /\ setting' = [days |-> days, saved |-> CanWrite, read |-> db.open]
    /\ UNCHANGED <<mode, timers, pad, db, dbError, todo, play, period, history,
                   periodUnsaved, waiting, done, lateOpen, session, backups>>

\* ... and then under the state's
SetPeriodPublish ==
    /\ setting # None
    /\ period' = setting.days /\ periodUnsaved' = ~setting.saved
    /\ history' = IF setting.read THEN setting.days ELSE None
    /\ setting' = None
    /\ UNCHANGED <<mode, timers, pad, db, dbError, todo, play, dbPeriod, waiting, done,
                   bounds, lateOpen, session, backups>>

CooldownTime ==
    /\ cooldown = "running"
    /\ cooldown' = "over"
    /\ UNCHANGED <<mode, backup, armBackup, pad, db, dbError, todo, play, tap,
                   setting, waiting, done, bounds, lateOpen, session, backups>>

BackupTime ==
    /\ backup = "running"
    /\ backup' = "over"
    /\ UNCHANGED <<mode, cooldown, armBackup, pad, db, dbError, todo, play, tap,
                   setting, waiting, done, bounds, lateOpen, session, backups>>

Action ==
    \/ SetStorageWritesAllowed
    \/ StartSync
    \/ \E ok, okPeriod \in BOOLEAN : SaveTapStats(ok, okPeriod)
    \/ RefreshRead
    \/ RefreshPublish
    \/ WriteAutoBackup

Next ==
    \/ \E r \in BOOLEAN : Playing(r)
    \/ \E r \in BOOLEAN : Failed(r)
    \/ \E r \in BOOLEAN : NotPlaying(r)
    \/ \E up, r \in BOOLEAN : TosuConnectionChanged(up, r)
    \/ \E prompt \in BOOLEAN : DeviceConnected(prompt)
    \/ \E replacement \in BOOLEAN : DeviceDisconnected(replacement)
    \/ PromptAnswered
    \/ \E periodic, due \in BOOLEAN : Tick(periodic, due)
    \/ SyncCompleted
    \/ \E ok \in BOOLEAN : ReopenDatabase(ok)
    \/ Action
    \/ SyncEnds
    \/ \E days \in Periods : SetPeriodStore(days)
    \/ SetPeriodPublish
    \/ CooldownTime
    \/ BackupTime

\* Time passes, the loop takes its 50 ms tick among its other events and runs
\* its actions, and a perform_sync ends: every wait in it has a timeout.
Fairness ==
    /\ WF_vars(CooldownTime)
    /\ WF_vars(Action)
    /\ SF_vars(Tick(FALSE, TRUE))
    /\ WF_vars(SyncEnds)
    /\ SF_vars(SyncCompleted)

Spec == Init /\ [][Next]_vars /\ Fairness

-----------------------------------------------------------------------------
(* Properties *)

Actions ==
    [do : {"writes"}, on : BOOLEAN]
    \cup [do : {"sync", "refresh", "backup"}]
    \cup [do : {"publish"}, days : Periods]
    \cup [do : {"save"}, attempts : Seq(Nat), period : Periods \cup {None}]

\* Every variable stays in its range.
TypeOK ==
    /\ mode \in {"idle", "playing", "cooldown", "sync"}
    /\ cooldown \in {"off", "running", "over"} /\ backup \in {"off", "running", "over"}
    /\ armBackup \in BOOLEAN /\ connected \in BOOLEAN /\ guarded \in BOOLEAN /\ told \in BOOLEAN
    /\ db \in [open : BOOLEAN, writes : BOOLEAN] /\ dbError \in BOOLEAN
    /\ todo \in Seq(Actions)
    /\ attempt \in Nat /\ unsaved \in Seq(Nat) /\ Len(unsaved) <= Cap /\ saved \in Seq(Nat)
    /\ period \in Periods /\ history \in Periods \cup {None}
    /\ periodUnsaved \in BOOLEAN /\ dbPeriod \in Periods
    /\ setting \in {None} \cup [days : Periods, saved : BOOLEAN, read : BOOLEAN]
    /\ waiting \in Nat /\ done \in Nat
    /\ bounds \in [attempts : 0..MaxAttempts, syncs : Nat, faults : Nat, sets : Nat]
    /\ lateOpen \in BOOLEAN /\ session \in Nat /\ backups \in Nat

\* Once an event is handled, SQLite refuses writes exactly in PLAYING and
\* COOLDOWN, however maps, syncs that end late and a database that comes back
\* interleave.  The exception is a database opened in a map: its guard is open
\* until the mode next changes.
GuardFollowsMode ==
    Ready /\ db.open /\ ~lateOpen => (db.writes <=> ~InMap)

\* SYNC mode is never without a sync to end it: one is about to be started, is
\* running or has a result to be handled.
SyncModeHasSync ==
    mode = "sync" => TriggerSync \in ToSet(todo) \/ waiting > 0 \/ done > 0

\* An automatic backup is written in IDLE, at most one for each play session
\* that settled, and never for a periodic sync.
BackupsFollowPlays ==
    /\ backups <= session
    /\ Doing("backup") => mode = "idle" /\ backups < session

\* The attempts on their way to SQLite
AttemptsIn(acts) ==
    LET saves == {i \in DOMAIN acts : acts[i].do = "save"}
    IN  IF saves = {} THEN <<>> ELSE acts[CHOOSE i \in saves : TRUE].attempts
InFlight == AttemptsIn(todo)

\* The queue, its action and its requeueing are the log AttemptLog specifies.
Log == INSTANCE AttemptLog WITH Attempts <- 1..MaxAttempts, kept <- InFlight \o unsaved, durable <- saved
LogSpec == Log!Spec

\* COOLDOWN and SYNC end, whatever becomes of the pad and of the sync.
ModesEnd ==
    /\ mode = "cooldown" ~> mode # "cooldown"
    /\ mode = "sync" ~> mode # "sync"

\* A connected pad is told that a map is on, though a tosu reconnect tells it
\* otherwise.
PadToldOfMap == mode = "playing" /\ connected ~> told \/ mode # "playing" \/ ~connected
===============================================================================
