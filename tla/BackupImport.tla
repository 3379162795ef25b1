------------------------------ MODULE BackupImport -----------------------------
(***************************************************************************)
(* Counter backups: the automatic ones the daemon writes and prunes, the   *)
(* export on request, and the window's import - pick a file, preview it    *)
(* against the daemon's counters, confirm, apply.                          *)
(*                                                                         *)
(* A backup is the second it was taken in, its presses and its generation. *)
(* Its file is named by the second, so one of the same second replaces it. *)
(* Not modelled: the device id and the settings a backup also carries, and *)
(* what the pad does with the forced sync (CounterSync).                   *)
(***************************************************************************)
EXTENDS Naturals, FiniteSets, FiniteSetsExt

CONSTANTS
    None,
    KeepBackups,   \* KEEP: the automatic backups that stay
    BackupBudgets  \* bounds: ticks, backs (of the clock), presses, writes, dies, imports

\* prune always leaves a backup
BackupConstants == KeepBackups \in Nat \ {0}

VARIABLES
    clock,
    dir,       \* the backups directory
    writer,    \* the automatic backup being written
    count,     \* the daemon's counters
    busy,      \* a map is played, or cooling down
    dialog,    \* ImportModalState
    asks,      \* calls of the window under way
    newest,    \* history: the last backup written whole
    wound,     \* history: the clock was set back
    bbounds

bvars == <<clock, dir, writer, count, busy, dialog, asks, newest, wound, bbounds>>

TakesOne(what) == bbounds[what] > 0 /\ bbounds' = [bbounds EXCEPT ![what] = @ - 1]

BackupInit ==
    /\ clock = 1 /\ dir = {} /\ writer = None /\ busy = FALSE
    /\ count = [n |-> 1, gen |-> 1]
    /\ dialog = None /\ asks = {} /\ newest = None /\ wound = FALSE
    /\ bbounds \in BackupBudgets

-----------------------------------------------------------------------------
(* The world *)

ClockMoves ==
    /\ \/ clock' = clock + 1 /\ TakesOne("ticks") /\ UNCHANGED wound
       \/ clock > 1 /\ clock' = clock - 1 /\ TakesOne("backs") /\ wound' = TRUE
    /\ UNCHANGED <<dir, writer, count, busy, dialog, asks, newest>>

\* A press the daemon hears of
Counted ==
    /\ TakesOne("presses") /\ count' = [count EXCEPT !.n = @ + 1]
    /\ UNCHANGED <<clock, dir, writer, busy, dialog, asks, newest, wound>>

ModeChanges ==
    /\ busy' = ~busy
    /\ UNCHANGED <<clock, dir, writer, count, dialog, asks, newest, wound, bbounds>>

-----------------------------------------------------------------------------
(* The automatic backup *)

\* backup::current
Current == [at |-> clock, n |-> count.n, gen |-> count.gen]

AutoBackup ==
    /\ writer = None /\ ~busy /\ TakesOne("writes")
    /\ writer' = [st |-> "temporary", backup |-> Current]
    /\ UNCHANGED <<clock, dir, count, busy, dialog, asks, newest, wound>>

\* write_atomic: the temporary file becomes the backup
Renamed ==
    /\ writer # None /\ writer.st = "temporary"
    /\ dir' = {b \in dir : b.at # writer.backup.at} \cup {writer.backup}
    /\ newest' = writer.backup /\ writer' = [writer EXCEPT !.st = "prune"]
    /\ UNCHANGED <<clock, count, busy, dialog, asks, wound, bbounds>>

Youngest == {b \in dir : Cardinality({c \in dir : c.at < b.at}) < KeepBackups}
\* prune: the names sort by time, all but the KeepBackups last go
Spared == {b \in dir : Cardinality({c \in dir : c.at > b.at}) < KeepBackups}

Pruned ==
    /\ writer # None /\ writer.st = "prune" /\ writer' = None /\ dir' = Spared
    /\ UNCHANGED <<clock, count, busy, dialog, asks, newest, wound, bbounds>>

\* Killed at any point, it leaves whole files only
DaemonDies ==
    /\ writer # None /\ TakesOne("dies") /\ writer' = None
    /\ asks' = {a \in asks : a.st # "sent"}
    /\ UNCHANGED <<clock, dir, count, busy, dialog, newest, wound>>

-----------------------------------------------------------------------------
(* The window and its requests *)

\* StartImportBackup and the file picked
PickBackup(b) ==
    /\ ~busy /\ TakesOne("imports")
    /\ asks' = asks \cup {[kind |-> "preview", st |-> "sent", backup |-> b,
                           seen |-> 0, rollback |-> FALSE, agreed |-> FALSE]}
    /\ UNCHANGED <<clock, dir, writer, count, busy, dialog, newest, wound>>

PreviewImport(a) ==
    /\ a.kind = "preview" /\ a.st = "sent"
    /\ asks' = (asks \ {a}) \cup {[a EXCEPT !.st = "ok", !.seen = count.n,
                                            !.rollback = (a.backup.n < count.n)]}
    /\ UNCHANGED <<clock, dir, writer, count, busy, dialog, newest, wound, bbounds>>

AgreedBefore == dialog # None /\ dialog.agreed
NotAgreedYet == FALSE

\* Also over the dialog of an earlier file, whose answer counts for nothing
ImportPreviewReady(a) ==
    /\ a.kind = "preview" /\ a.st = "ok" /\ asks' = asks \ {a}
    /\ dialog' = [backup |-> a.backup, seen |-> a.seen, rollback |-> a.rollback,
                  agreed |-> NotAgreedYet]
    /\ UNCHANGED <<clock, dir, writer, count, busy, newest, wound, bbounds>>

ToggleRollback ==
    /\ dialog # None /\ dialog.rollback
    /\ dialog' = [dialog EXCEPT !.agreed = ~@]
    /\ UNCHANGED <<clock, dir, writer, count, busy, asks, newest, wound, bbounds>>

CanApply == dialog # None /\ (dialog.rollback => dialog.agreed)

CloseImport ==
    /\ dialog # None /\ dialog' = None
    /\ \/ UNCHANGED asks
       \/ /\ CanApply
          /\ asks' = asks \cup {[kind |-> "import", st |-> "sent", backup |-> dialog.backup,
                                 seen |-> dialog.seen, rollback |-> dialog.rollback,
                                 agreed |-> dialog.agreed]}
    /\ UNCHANGED <<clock, dir, writer, count, busy, newest, wound, bbounds>>

\* ImportBackup: never in a map; the generation goes above both
Import(a) ==
    /\ a.kind = "import" /\ a.st = "sent" /\ asks' = asks \ {a}
    /\ count' = IF busy THEN count
                ELSE [n |-> a.backup.n, gen |-> Max({count.gen, a.backup.gen}) + 1]
    /\ UNCHANGED <<clock, dir, writer, busy, dialog, newest, wound, bbounds>>

BackupNext ==
    \/ ClockMoves \/ Counted \/ ModeChanges \/ AutoBackup \/ Renamed \/ Pruned \/ DaemonDies
    \/ ToggleRollback \/ CloseImport
    \/ \E b \in dir : PickBackup(b)
    \/ \E a \in asks : PreviewImport(a) \/ ImportPreviewReady(a) \/ Import(a)

BackupSpec == BackupInit /\ [][BackupNext]_bvars

-----------------------------------------------------------------------------
(* Properties *)

BackupTypeOK ==
    /\ dir \subseteq [at : Nat, n : Nat, gen : Nat]
    /\ \A a, b \in dir : a.at = b.at => a = b
    /\ count \in [n : Nat, gen : Nat]

\* A backup written whole stays until KeepBackups newer ones are there, whatever was
\* killed half-way; unless the clock was set back, when prune takes it for old.
NewestBackupKept == newest = None \/ wound \/ newest \in dir

\* Counters are lowered, as far as the preview could tell, only by an answer
\* given for that very file: agreeing to one rollback agrees to no other.
RollbackIsAgreed ==
    \A a \in asks : a.kind = "import" => a.backup.n >= a.seen \/ a.agreed

\* The same of a dialog whose box is ticked: it is that file's rollback.
AgreedWhereAsked == dialog # None /\ dialog.agreed => dialog.rollback

BackupsHold == NewestBackupKept /\ RollbackIsAgreed /\ AgreedWhereAsked
===============================================================================
