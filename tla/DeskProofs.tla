----------------------------- MODULE DeskProofs -----------------------------
(***************************************************************************)
(* Proofs about the parts of MCDesk, for every value of the constants:     *)
(* whose counts a pad gets and which pads are left alone, the backups, the *)
(* window with its tray icon, its designer and its dialogs, updates, the   *)
(* presses of a play, configurations, layouts and the board test.          *)
(*                                                                         *)
(* Each part has an inductive invariant of its own, that of the ownership  *)
(* part PadOwnershipProofs'; DeskInv says that the part that moves keeps   *)
(* its one.                                                                *)
(***************************************************************************)
EXTENDS MCDesk, PadOwnershipProofs, FiniteSetTheorems

-----------------------------------------------------------------------------
(* Backups *)

Backups == [at : Nat, n : Nat, gen : Nat]
Writings == [st : {"temporary", "prune"}, backup : Backups]
ImportCalls ==
    [kind : {"preview", "import"}, st : {"sent", "ok"}, backup : Backups, seen : Nat,
     rollback : BOOLEAN, agreed : BOOLEAN]
ImportDialogs == [backup : Backups, seen : Nat, rollback : BOOLEAN, agreed : BOOLEAN]

Filed ==
    /\ bakClock \in Nat /\ count \in [n : Nat, gen : Nat]
    /\ dir \subseteq Backups /\ asks \subseteq ImportCalls
    /\ writer # None => writer \in Writings
    /\ dialog # None => dialog \in ImportDialogs
    /\ \A a, b \in dir : a.at = b.at => a = b

\* While the clock only goes forward no file is younger than now, the one being
\* written is the youngest, and so was the last one written.
InOrder ==
    ~wound => /\ \A b \in dir : b.at <= bakClock
              /\ writer # None =>
                    /\ writer.backup.at <= bakClock
                    /\ \A b \in dir : b.at <= writer.backup.at
              /\ newest # None => newest \in dir /\ \A b \in dir : b.at <= newest.at

\* A preview and a dialog say "rollback" of what is one, and a ticked box went
\* along with the import that needed it.
AnsweredRight(a) ==
    /\ a.kind = "preview" /\ a.st = "ok" => (a.rollback <=> a.backup.n < a.seen)
    /\ a.kind = "import" => (a.backup.n < a.seen => a.agreed)

AskedRight ==
    dialog # None => /\ dialog.rollback <=> dialog.backup.n < dialog.seen
                     /\ dialog.agreed => dialog.rollback

BakIInv == Filed /\ InOrder /\ (\A a \in asks : AnsweredRight(a)) /\ AskedRight

LEMMA BakInitial ==
    ASSUME Bak!BackupInit
    PROVE  BakIInv
BY DEF Bak!BackupInit, BakIInv, Filed, InOrder, AnsweredRight, AskedRight

LEMMA MaxOfTwo ==
    ASSUME NEW m \in Nat, NEW n \in Nat
    PROVE  Bak!Max({m, n}) \in Nat
<1>1. \E x \in {m, n} : \A y \in {m, n} : x >= y
    OBVIOUS
<1>. QED BY <1>1 DEF Bak!Max

LEMMA NoneCounted == Bak!Cardinality({}) = 0
<1>1. Bak!Cardinality({}) = Cardinality({})
    BY DEF Bak!Cardinality, Cardinality
<1>. QED BY <1>1, FS_EmptySet

\* Calls that an answer replaces
LEMMA PreviewOk ==
    ASSUME NEW a \in ImportCalls, NEW n \in Nat, a.kind = "preview"
    PROVE  LET b == [a EXCEPT !.st = "ok", !.seen = n, !.rollback = (a.backup.n < n)]
           IN  b \in ImportCalls /\ AnsweredRight(b)
<1>1. (a.backup.n < n) \in BOOLEAN
    BY DEF ImportCalls, Backups
<1>. QED BY <1>1 DEF ImportCalls, AnsweredRight

LEMMA BakFilesStep ==
    ASSUME BakIInv, Bak!ClockMoves \/ Bak!Counted \/ Bak!ModeChanges \/ Bak!AutoBackup
                    \/ Bak!Renamed \/ Bak!Pruned \/ Bak!DaemonDies
    PROVE  BakIInv'
<1>0. Filed /\ InOrder /\ (\A a \in asks : AnsweredRight(a)) /\ AskedRight
    BY DEF BakIInv
<1>1. CASE Bak!ClockMoves
    <2>1. Filed'
        BY <1>0, <1>1 DEF Bak!ClockMoves, Filed
    <2>2. InOrder'
        <3>1. wound' \/ (wound' = wound /\ bakClock' = bakClock + 1)
            BY <1>1 DEF Bak!ClockMoves
        <3>2. \A b \in Backups : b.at \in Nat
            BY DEF Backups
        <3>3. writer # None => writer.backup \in Backups
            BY <1>0 DEF Filed, Writings
        <3>. QED BY <1>0, <1>1, <3>1, <3>2, <3>3 DEF Bak!ClockMoves, Filed, InOrder
    <2>3. UNCHANGED <<asks, dialog>>
        BY <1>1 DEF Bak!ClockMoves
    <2>. QED BY <1>0, <2>1, <2>2, <2>3 DEF BakIInv, AskedRight
<1>2. CASE Bak!Counted \/ Bak!ModeChanges
    <2>1. UNCHANGED <<bakClock, dir, writer, dialog, asks, newest, wound>>
        BY <1>2 DEF Bak!Counted, Bak!ModeChanges
    <2>2. count' \in [n : Nat, gen : Nat]
        BY <1>0, <1>2 DEF Bak!Counted, Bak!ModeChanges, Filed
    <2>. QED BY <1>0, <2>1, <2>2 DEF BakIInv, Filed, InOrder, AskedRight
<1>3. CASE Bak!AutoBackup
    <2>1. /\ UNCHANGED <<bakClock, dir, count, dialog, asks, newest, wound>>
          /\ writer' = [st |-> "temporary", backup |-> Bak!Current]
        BY <1>3 DEF Bak!AutoBackup
    <2>2. Bak!Current \in Backups /\ Bak!Current.at = bakClock
        BY <1>0 DEF Bak!Current, Filed, Backups
    <2>3. writer' \in Writings /\ writer'.backup.at = bakClock
        BY <2>1, <2>2 DEF Writings
    <2>4. bakClock <= bakClock
        BY <1>0 DEF Filed
    <2>5. InOrder'
        BY <1>0, <2>1, <2>3, <2>4 DEF InOrder
    <2>. QED BY <1>0, <2>1, <2>3, <2>5 DEF BakIInv, Filed, AskedRight
<1>4. CASE Bak!Renamed
    <2>1. /\ writer # None
          /\ dir' = {b \in dir : b.at # writer.backup.at} \cup {writer.backup}
          /\ newest' = writer.backup /\ writer' = [writer EXCEPT !.st = "prune"]
          /\ UNCHANGED <<bakClock, count, dialog, asks, wound>>
        BY <1>4 DEF Bak!Renamed
    <2>2. writer \in Writings /\ writer.backup \in Backups
        BY <1>0, <2>1 DEF Filed, Writings
    <2>3. writer' \in Writings /\ writer'.backup = writer.backup
        BY <2>1, <2>2 DEF Writings
    <2>4. writer.backup.at <= writer.backup.at
        BY <2>2 DEF Backups
    <2>5. Filed'
        BY <1>0, <2>1, <2>2, <2>3 DEF Filed
    <2>6. InOrder'
        BY <1>0, <2>1, <2>3, <2>4 DEF InOrder
    <2>. QED BY <1>0, <2>1, <2>5, <2>6 DEF BakIInv, AskedRight
<1>5. CASE Bak!Pruned
    <2>1. /\ writer # None /\ writer' = None /\ dir' = Bak!Spared
          /\ UNCHANGED <<bakClock, count, dialog, asks, newest, wound>>
        BY <1>5 DEF Bak!Pruned
    <2>2. dir' \subseteq dir
        BY <2>1 DEF Bak!Spared
    <2>3. ~wound /\ newest # None => newest \in dir'
        <3>. SUFFICES ASSUME ~wound, newest # None PROVE newest \in dir'
            OBVIOUS
        <3>1. newest \in dir /\ \A b \in dir : b.at <= newest.at
            BY <1>0 DEF InOrder
        <3>2. \A b \in dir : b.at \in Nat
            BY <1>0 DEF Filed, Backups
        <3>3. {c \in dir : c.at > newest.at} = {}
            BY <3>1, <3>2
        <3>4. 0 < KeepBackups
            BY BackupAssumption DEF BackupAssumption, Bak!BackupConstants
        <3>5. Bak!Cardinality({c \in dir : c.at > newest.at}) < KeepBackups
            BY <3>3, <3>4, NoneCounted
        <3>. QED BY <2>1, <3>1, <3>5 DEF Bak!Spared
    <2>4. Filed'
        BY <1>0, <2>1, <2>2 DEF Filed
    <2>5. InOrder'
        BY <1>0, <2>1, <2>2, <2>3 DEF InOrder
    <2>. QED BY <1>0, <2>1, <2>4, <2>5 DEF BakIInv, AskedRight
<1>6. CASE Bak!DaemonDies
    <2>1. /\ writer' = None /\ asks' \subseteq asks
          /\ UNCHANGED <<bakClock, dir, count, dialog, newest, wound>>
        BY <1>6 DEF Bak!DaemonDies
    <2>. QED BY <1>0, <2>1 DEF BakIInv, Filed, InOrder, AskedRight
<1>. QED BY <1>1, <1>2, <1>3, <1>4, <1>5, <1>6

LEMMA BakImportStep ==
    ASSUME BakIInv, Bak!ToggleRollback \/ Bak!CloseImport \/ (\E b \in dir : Bak!PickBackup(b))
                    \/ \E a \in asks : Bak!PreviewImport(a) \/ Bak!ImportPreviewReady(a) \/ Bak!Import(a)
    PROVE  BakIInv'
<1>0. Filed /\ InOrder /\ (\A a \in asks : AnsweredRight(a)) /\ AskedRight
    BY DEF BakIInv
<1>1. CASE Bak!ToggleRollback
    <2>1. /\ dialog # None /\ dialog.rollback
          /\ dialog' = [dialog EXCEPT !.agreed = ~dialog.agreed]
          /\ UNCHANGED <<bakClock, dir, writer, count, asks, newest, wound>>
        BY <1>1 DEF Bak!ToggleRollback
    <2>2. dialog \in ImportDialogs
        BY <1>0, <2>1 DEF Filed
    <2>3. /\ dialog' \in ImportDialogs /\ dialog'.rollback = dialog.rollback
          /\ dialog'.backup = dialog.backup /\ dialog'.seen = dialog.seen
        BY <2>1, <2>2 DEF ImportDialogs
    <2>4. AskedRight'
        BY <1>0, <2>1, <2>3 DEF AskedRight
    <2>. QED BY <1>0, <2>1, <2>3, <2>4 DEF BakIInv, Filed, InOrder
<1>2. CASE Bak!CloseImport
    <2>1. dialog # None /\ dialog \in ImportDialogs
        BY <1>0, <1>2 DEF Bak!CloseImport, Filed
    <2>2. /\ dialog' = None
          /\ UNCHANGED <<bakClock, dir, writer, count, newest, wound>>
        BY <1>2 DEF Bak!CloseImport
    <2> DEFINE call == [kind |-> "import", st |-> "sent", backup |-> dialog.backup,
                        seen |-> dialog.seen, rollback |-> dialog.rollback,
                        agreed |-> dialog.agreed]
    <2>3. asks' = asks \/ (asks' = asks \cup {call} /\ Bak!CanApply)
        BY <1>2 DEF Bak!CloseImport
    <2>4. call \in ImportCalls
        BY <2>1 DEF ImportDialogs, ImportCalls
    <2>5. Bak!CanApply => AnsweredRight(call)
        BY <1>0, <2>1 DEF Bak!CanApply, AskedRight, AnsweredRight
    <2>6. asks' \subseteq ImportCalls /\ \A a \in asks' : AnsweredRight(a)
        BY <1>0, <2>3, <2>4, <2>5 DEF Filed
    <2>7. Filed' /\ InOrder' /\ AskedRight'
        BY <1>0, <2>2, <2>6 DEF Filed, InOrder, AskedRight
    <2>. QED BY <2>6, <2>7 DEF BakIInv
<1>3. ASSUME NEW b \in dir, Bak!PickBackup(b) PROVE BakIInv'
    <2> DEFINE call == [kind |-> "preview", st |-> "sent", backup |-> b, seen |-> 0,
                        rollback |-> FALSE, agreed |-> FALSE]
    <2>1. /\ asks' = asks \cup {call}
          /\ UNCHANGED <<bakClock, dir, writer, count, dialog, newest, wound>>
        BY <1>3 DEF Bak!PickBackup
    <2>2. call \in ImportCalls /\ AnsweredRight(call)
        BY <1>0 DEF Filed, ImportCalls, AnsweredRight
    <2>3. asks' \subseteq ImportCalls /\ \A a \in asks' : AnsweredRight(a)
        BY <1>0, <2>1, <2>2 DEF Filed
    <2>. QED BY <1>0, <2>1, <2>3 DEF BakIInv, Filed, InOrder, AskedRight
<1>4. ASSUME NEW a \in asks, Bak!PreviewImport(a) PROVE BakIInv'
    <2> DEFINE answer == [a EXCEPT !.st = "ok", !.seen = count.n,
                                   !.rollback = (a.backup.n < count.n)]
    <2>1. /\ a.kind = "preview" /\ asks' = (asks \ {a}) \cup {answer}
          /\ UNCHANGED <<bakClock, dir, writer, count, dialog, newest, wound>>
        BY <1>4 DEF Bak!PreviewImport
    <2>2. answer \in ImportCalls /\ AnsweredRight(answer)
        BY <1>0, <2>1, PreviewOk DEF Filed
    <2>3. asks' \subseteq ImportCalls /\ \A c \in asks' : AnsweredRight(c)
        BY <1>0, <2>1, <2>2 DEF Filed
    <2>. QED BY <1>0, <2>1, <2>3 DEF BakIInv, Filed, InOrder, AskedRight
<1>5. ASSUME NEW a \in asks, Bak!ImportPreviewReady(a) PROVE BakIInv'
    <2>1. /\ a.kind = "preview" /\ a.st = "ok" /\ asks' \subseteq asks
          /\ dialog' = [backup |-> a.backup, seen |-> a.seen, rollback |-> a.rollback,
                        agreed |-> FALSE]
          /\ UNCHANGED <<bakClock, dir, writer, count, newest, wound>>
        BY <1>5 DEF Bak!ImportPreviewReady, Bak!NotAgreedYet
    <2>2. a \in ImportCalls /\ AnsweredRight(a)
        BY <1>0 DEF Filed
    <2>3. dialog' \in ImportDialogs
        BY <2>1, <2>2 DEF ImportCalls, ImportDialogs
    <2>4. AskedRight'
        BY <2>1, <2>2 DEF AskedRight, AnsweredRight
    <2>. QED BY <1>0, <2>1, <2>3, <2>4 DEF BakIInv, Filed, InOrder
<1>6. ASSUME NEW a \in asks, Bak!Import(a) PROVE BakIInv'
    <2>1. /\ asks' \subseteq asks
          /\ UNCHANGED <<bakClock, dir, writer, dialog, newest, wound>>
          /\ \/ count' = count
             \/ count' = [n |-> a.backup.n, gen |-> Bak!Max({count.gen, a.backup.gen}) + 1]
        BY <1>6 DEF Bak!Import
    <2>2. count.gen \in Nat /\ a.backup.gen \in Nat /\ a.backup.n \in Nat
        BY <1>0 DEF Filed, ImportCalls, Backups
    <2>3. Bak!Max({count.gen, a.backup.gen}) \in Nat
        BY <2>2, MaxOfTwo
    <2>4. count' \in [n : Nat, gen : Nat]
        BY <1>0, <2>1, <2>2, <2>3 DEF Filed
    <2>. QED BY <1>0, <2>1, <2>4 DEF BakIInv, Filed, InOrder, AskedRight
<1>. QED BY <1>1, <1>2, <1>3, <1>4, <1>5, <1>6

LEMMA BakStep ==
    ASSUME BakIInv, [Bak!BackupNext]_bvars
    PROVE  BakIInv'
<1>1. CASE UNCHANGED bvars
    BY <1>1 DEF bvars, BakIInv, Filed, InOrder, AskedRight
<1>2. CASE Bak!BackupNext
    BY <1>2, BakFilesStep, BakImportStep DEF Bak!BackupNext
<1>. QED BY <1>1, <1>2

\* What the run checks follows
LEMMA BakHolds == BakIInv => Bak!BackupsHold
<1>. SUFFICES ASSUME BakIInv PROVE Bak!BackupsHold
    OBVIOUS
<1>1. \A a \in asks : a.kind = "import" => a.backup.n >= a.seen \/ a.agreed
    BY DEF BakIInv, Filed, ImportCalls, Backups, AnsweredRight
<1>2. Bak!NewestBackupKept /\ Bak!AgreedWhereAsked
    BY DEF BakIInv, InOrder, AskedRight, Bak!NewestBackupKept, Bak!AgreedWhereAsked
<1>. QED BY <1>1, <1>2 DEF Bak!BackupsHold, Bak!RollbackIsAgreed

-----------------------------------------------------------------------------
(* The window and its tray icon *)

GUIs ==
    [at : {"off", "bind", "listen", "connect", "unlink", "up", "gone"}, retry : BOOLEAN,
     hears : BOOLEAN, calls : Nat, hidden : BOOLEAN, win : BOOLEAN,
     tray : {"unknown", "none", "up"}, exitIf : BOOLEAN, fallback : BOOLEAN,
     timer : BOOLEAN, verdict : {"due", "no", "yes"}, asked : BOOLEAN]

\* Unless a launch was refused, the file is the one launch's that bound it
ClaimedBy(p) ==
    ~refused => /\ gui[p].at \in {"listen", "up"} => gpath = p
                /\ gui[p].at = "connect" => gpath # None
                /\ gui[p].at # "unlink" /\ ~gui[p].retry

\* Before it is up, a launch has no window and knows of no tray
Fresh(g) ==
    /\ g.verdict = "due" /\ g.tray = "unknown"
    /\ ~g.exitIf /\ ~g.fallback /\ ~g.win /\ ~g.asked /\ ~g.timer /\ ~g.hears

\* What the icon is known to be follows the stream's verdict, and the timer only
\* runs while neither has spoken
TrayKnown(g) ==
    /\ g.verdict = "no" => g.tray = "none"
    /\ g.verdict = "yes" => g.tray = "up"
    /\ g.tray = "up" => g.verdict = "yes"
    /\ g.verdict = "due" /\ g.timer => g.tray = "unknown"

\* It can be reached, and its window is the user's or stands in for the tray: a
\* launch without one is in the tray, or was asked to be
Kept(g) ==
    /\ g.win \/ g.verdict = "yes" \/ (g.verdict = "due" /\ (g.timer \/ g.exitIf))
    /\ g.asked => g.win /\ ~g.fallback
    /\ g.win /\ ~g.asked => g.verdict # "yes" /\ g.fallback
    /\ ~g.win /\ g.verdict # "yes" => g.hidden \/ g.exitIf

Alive(g) == /\ g.at \in {"off", "bind", "listen", "connect", "unlink"} => Fresh(g)
            /\ g.at = "up" => Kept(g) /\ TrayKnown(g)
            /\ g.at = "gone" => ~g.win /\ ~g.hears

ShellIInv ==
    /\ gui \in [Launches -> GUIs] /\ gpath \in {None, Dead} \cup Launches
    /\ \A p \in Launches : ClaimedBy(p) /\ Alive(gui[p])

LEMMA ShellInitial ==
    ASSUME Shell!ShellInit
    PROVE  ShellIInv
<1>1. Shell!NotRunning \in GUIs /\ Alive(Shell!NotRunning)
    BY DEF Shell!NotRunning, GUIs, Alive, Fresh
<1>2. \A p \in Launches : gui[p] = Shell!NotRunning
    BY DEF Shell!ShellInit
<1>3. \A p \in Launches : ClaimedBy(p)
    BY <1>2 DEF Shell!NotRunning, ClaimedBy
<1>. QED BY <1>1, <1>2, <1>3 DEF Shell!ShellInit, ShellIInv

\* A step of one launch keeps the rest
LEMMA OneMoves ==
    ASSUME ShellIInv, NEW p \in Launches, NEW g \in GUIs,
           gui' = [gui EXCEPT ![p] = g], UNCHANGED <<gpath, refused>>,
           Alive(g), g.retry = gui[p].retry,
           g.at = gui[p].at \/ g.at \in {"bind", "gone"}
               \/ (gui[p].at \in {"listen", "up"} /\ g.at = "up")
    PROVE  ShellIInv'
<1>1. gui' \in [Launches -> GUIs] /\ gui'[p] = g /\ \A q \in Launches \ {p} : gui'[q] = gui[q]
    BY DEF ShellIInv
<1>2. \A q \in Launches : Alive(gui'[q])
    BY <1>1 DEF ShellIInv
<1>3. \A q \in Launches : ClaimedBy(q)'
    BY <1>1 DEF ShellIInv, ClaimedBy
<1>. QED BY <1>1, <1>2, <1>3 DEF ShellIInv

LEMMA LaunchStep ==
    ASSUME ShellIInv, NEW p \in Launches, NEW hidden \in BOOLEAN, Shell!Launch(p, hidden)
    PROVE  ShellIInv'
<1> DEFINE g == [gui[p] EXCEPT !.at = "bind", !.hidden = hidden]
<1>1. gui[p] \in GUIs /\ Alive(gui[p]) /\ gui[p].at = "off"
    BY DEF ShellIInv, Shell!Launch
<1>2. /\ g \in GUIs /\ g.at = "bind" /\ g.retry = gui[p].retry
    BY <1>1 DEF GUIs
<1>3. Fresh(g)
    BY <1>1 DEF GUIs, Alive, Fresh
<1>4. Alive(g)
    BY <1>2, <1>3 DEF Alive
<1>5. gui' = [gui EXCEPT ![p] = g] /\ UNCHANGED <<gpath, refused>>
    BY DEF Shell!Launch, Shell!Step
<1>. HIDE DEF g
<1>. QED BY <1>2, <1>4, <1>5, OneMoves

LEMMA BindStep ==
    ASSUME ShellIInv, NEW p \in Launches, Shell!Bind(p)
    PROVE  ShellIInv'
<1>1. gui[p] \in GUIs /\ Alive(gui[p]) /\ gui[p].at = "bind" /\ Fresh(gui[p])
    BY DEF ShellIInv, Shell!Bind, Alive
<1>2. PICK at \in {"listen", "connect"} :
          /\ gui' = [gui EXCEPT ![p].at = at] /\ UNCHANGED refused
          /\ at = "listen" => gpath = None /\ gpath' = p
          /\ at = "connect" => gpath # None /\ gpath' = gpath
    BY DEF Shell!Bind
<1>3. /\ gui' \in [Launches -> GUIs] /\ gui'[p].at = at /\ gui'[p].retry = gui[p].retry
      /\ \A q \in Launches \ {p} : gui'[q] = gui[q]
    BY <1>1, <1>2 DEF ShellIInv, GUIs
<1>4. Fresh(gui'[p])
    BY <1>1, <1>2 DEF ShellIInv, GUIs, Fresh
<1>5. \A q \in Launches : Alive(gui'[q])
    BY <1>3, <1>4 DEF ShellIInv, Alive
<1>6. \A q \in Launches : ClaimedBy(q)'
    <2>1. None \notin Launches
        BY ShellAssumption DEF ShellAssumption, Shell!ShellConstants
    <2>2. \A q \in Launches : ClaimedBy(q)
        BY DEF ShellIInv
    <2>. QED BY <1>1, <1>2, <1>3, <2>1, <2>2 DEF ClaimedBy
<1>. QED BY <1>2, <1>3, <1>5, <1>6 DEF ShellIInv

\* App::new
LEMMA RunningIs ==
    ASSUME NEW g \in GUIs, NEW hears \in BOOLEAN, Fresh(g)
    PROVE  /\ Shell!Running(g, hears) \in GUIs /\ Alive(Shell!Running(g, hears))
           /\ Shell!Running(g, hears).at = "up" /\ Shell!Running(g, hears).retry = g.retry
<1> DEFINE r == Shell!Running(g, hears)
<1>1. /\ r \in GUIs /\ r.at = "up" /\ r.retry = g.retry
    BY DEF GUIs, Shell!Running
<1>2. /\ r.verdict = "due" /\ r.tray = "unknown" /\ r.timer /\ r.hidden = g.hidden
      /\ ~r.fallback /\ ~r.exitIf
    BY DEF GUIs, Shell!Running, Fresh
<1>3. r.win = ~g.hidden /\ r.asked = ~g.hidden
    BY DEF GUIs, Shell!Running
<1>4. g.hidden \in BOOLEAN
    BY DEF GUIs
<1>5. Kept(r)
    BY <1>2, <1>3, <1>4 DEF Kept
<1>6. TrayKnown(r)
    BY <1>2 DEF TrayKnown
<1>. QED BY <1>1, <1>5, <1>6 DEF Alive

LEMMA ListenStep ==
    ASSUME ShellIInv, NEW p \in Launches, Shell!Listen(p)
    PROVE  ShellIInv'
<1>1. gui[p] \in GUIs /\ gui[p].at = "listen" /\ Fresh(gui[p])
    BY DEF ShellIInv, Shell!Listen, Alive
<1>2. gui' = [gui EXCEPT ![p] = Shell!Running(gui[p], TRUE)] /\ UNCHANGED <<gpath, refused>>
    BY DEF Shell!Listen, Shell!Step
<1>. QED BY <1>1, <1>2, RunningIs, OneMoves

\* A call changes nothing else of the launch that gets it
LEMMA CalledIs ==
    ASSUME NEW g \in GUIs, Alive(g)
    PROVE  LET c == [g EXCEPT !.calls = @ + 1]
           IN  c \in GUIs /\ Alive(c) /\ c.at = g.at /\ c.retry = g.retry
<1> DEFINE c == [g EXCEPT !.calls = @ + 1]
<1>1. c \in GUIs /\ c.at = g.at /\ c.retry = g.retry
    BY DEF GUIs
<1>2. /\ c.verdict = g.verdict /\ c.tray = g.tray /\ c.exitIf = g.exitIf
      /\ c.fallback = g.fallback /\ c.win = g.win /\ c.asked = g.asked
      /\ c.timer = g.timer /\ c.hidden = g.hidden /\ c.hears = g.hears
    BY DEF GUIs
<1>. HIDE DEF c
<1>3. Alive(c)
    BY <1>1, <1>2 DEF Alive, Fresh, Kept, TrayKnown
<1>. QED BY <1>1, <1>3 DEF c

LEMMA SocketStep ==
    ASSUME ShellIInv, NEW p \in Launches, Shell!Connect(p)
    PROVE  ShellIInv'
<1>1. gui[p] \in GUIs /\ gui[p].at = "connect" /\ Fresh(gui[p])
    BY DEF ShellIInv, Shell!Connect, Alive
<1>2. UNCHANGED gpath
    BY DEF Shell!Connect
<1>3. CASE /\ Shell!Answers(gpath) /\ UNCHANGED refused
           /\ gui' = [gui EXCEPT ![p].at = "gone", ![gpath].calls = @ + 1]
    <2>1. gpath \in Launches
        BY <1>3 DEF Shell!Answers
    <2> DEFINE left == [gui EXCEPT ![p].at = "gone"]
    <2>2. /\ left \in [Launches -> GUIs] /\ left[p].at = "gone"
          /\ ~left[p].win /\ ~left[p].hears
          /\ \A q \in Launches \ {p} : left[q] = gui[q]
        BY <1>1 DEF ShellIInv, GUIs, Fresh
    <2>3. \A q \in Launches : Alive(left[q]) /\ (left[q].at = gui[q].at \/ left[q].at = "gone")
        BY <2>2 DEF ShellIInv, Alive
    <2>4. \A q \in Launches : left[q].retry = gui[q].retry
        BY <1>1, <2>2 DEF ShellIInv, GUIs
    <2>5. gui' = [left EXCEPT ![gpath].calls = @ + 1]
        BY <1>3
    <2>. HIDE DEF left
    <2>6. gui' = [left EXCEPT ![gpath] = [left[gpath] EXCEPT !.calls = @ + 1]]
        BY <2>5
    <2> DEFINE c == [left[gpath] EXCEPT !.calls = @ + 1]
    <2>7. c \in GUIs /\ Alive(c) /\ c.at = left[gpath].at /\ c.retry = left[gpath].retry
        BY <2>1, <2>2, <2>3, CalledIs
    <2>. HIDE DEF c
    <2>8. /\ gui' \in [Launches -> GUIs] /\ gui'[gpath] = c
          /\ \A q \in Launches \ {gpath} : gui'[q] = left[q]
        BY <2>1, <2>2, <2>6, <2>7 DEF c
    <2>9. \A q \in Launches : /\ Alive(gui'[q]) /\ gui'[q].retry = gui[q].retry
                              /\ gui'[q].at = gui[q].at \/ gui'[q].at = "gone"
        BY <2>3, <2>4, <2>7, <2>8
    <2>10. ASSUME NEW q \in Launches PROVE ClaimedBy(q)'
        <3>1. ClaimedBy(q)
            BY DEF ShellIInv
        <3>2. UNCHANGED <<gpath, refused>>
            BY <1>2, <1>3
        <3>. QED BY <2>9, <3>1, <3>2 DEF ClaimedBy
    <2>. QED BY <1>2, <2>8, <2>9, <2>10 DEF ShellIInv
<1>4. CASE refused' = TRUE /\ gui' = [gui EXCEPT ![p].at = "unlink"]
    <2>1. /\ gui' \in [Launches -> GUIs] /\ \A q \in Launches \ {p} : gui'[q] = gui[q]
          /\ gui'[p].at = "unlink"
        BY <1>1, <1>4 DEF ShellIInv, GUIs
    <2>2. Fresh(gui'[p])
        BY <1>1, <1>4 DEF ShellIInv, GUIs, Fresh
    <2>3. \A q \in Launches : Alive(gui'[q])
        BY <2>1, <2>2 DEF ShellIInv, Alive
    <2>. QED BY <1>2, <1>4, <2>1, <2>3 DEF ShellIInv, ClaimedBy
<1>5. CASE /\ gpath = None \/ gui[p].retry
           /\ UNCHANGED refused /\ gui' = [gui EXCEPT ![p] = Shell!Running(@, FALSE)]
    <2> DEFINE r == Shell!Running(gui[p], FALSE)
    <2>1. r \in GUIs /\ Alive(r) /\ r.at = "up"
        BY <1>1, RunningIs
    <2>2. refused
        BY <1>1, <1>5 DEF ShellIInv, ClaimedBy
    <2>3. gui' = [gui EXCEPT ![p] = r]
        BY <1>5
    <2>. HIDE DEF r
    <2>4. gui' \in [Launches -> GUIs] /\ \A q \in Launches : Alive(gui'[q])
        BY <2>1, <2>3 DEF ShellIInv
    <2>. QED BY <1>2, <1>5, <2>2, <2>4 DEF ShellIInv, ClaimedBy
<1>. QED BY <1>3, <1>4, <1>5 DEF Shell!Connect

LEMMA RemoveFileStep ==
    ASSUME ShellIInv, NEW p \in Launches, Shell!RemoveFile(p)
    PROVE  ShellIInv'
<1>1. gui[p] \in GUIs /\ gui[p].at = "unlink" /\ Fresh(gui[p])
    BY DEF ShellIInv, Shell!RemoveFile, Alive
<1>2. refused
    BY <1>1 DEF ShellIInv, ClaimedBy
<1> DEFINE g == [gui[p] EXCEPT !.at = "bind", !.retry = TRUE]
<1>3. g \in GUIs /\ g.at = "bind"
    BY <1>1 DEF GUIs
<1>4. Fresh(g)
    BY <1>1 DEF GUIs, Fresh
<1>5. gui' = [gui EXCEPT ![p] = g] /\ UNCHANGED refused /\ gpath' = None
    BY DEF Shell!RemoveFile
<1>6. Alive(g)
    BY <1>3, <1>4 DEF Alive
<1>. HIDE DEF g
<1>7. gui' \in [Launches -> GUIs] /\ \A q \in Launches : Alive(gui'[q])
    BY <1>3, <1>5, <1>6 DEF ShellIInv
<1>. QED BY <1>2, <1>5, <1>7 DEF ShellIInv, ClaimedBy

LEMMA GoneIs ==
    ASSUME NEW g \in GUIs
    PROVE  /\ Shell!Gone(g) \in GUIs /\ Alive(Shell!Gone(g))
           /\ Shell!Gone(g).at = "gone" /\ Shell!Gone(g).retry = g.retry
BY DEF GUIs, Shell!Gone, Alive

LEMMA OpenWindowIs ==
    ASSUME NEW g \in GUIs
    PROVE  LET w == Shell!OpenWindow(g)
           IN  /\ w \in GUIs /\ w.at = g.at /\ w.retry = g.retry /\ w.hidden = g.hidden
               /\ w.win /\ ~w.exitIf /\ ~w.fallback /\ w.verdict = g.verdict
               /\ w.tray = g.tray /\ w.timer = g.timer
BY DEF GUIs, Shell!OpenWindow

\* The window of a launch that has no tray icon to live in, unless its window is open
LEMMA FallbackIs ==
    ASSUME NEW g \in GUIs, g.tray = "none", ~g.exitIf, g.verdict # "yes",
           g.asked => g.win /\ ~g.fallback, g.win /\ ~g.asked => g.fallback,
           ~g.win => g.hidden, g.verdict = "due" => ~g.timer
    PROVE  LET w == Shell!OpenFallback(g)
           IN  /\ w \in GUIs /\ Kept(w) /\ TrayKnown(w) /\ w.at = g.at /\ w.retry = g.retry
<1>1. CASE g.win
    BY <1>1 DEF Shell!OpenFallback, Kept, TrayKnown
<1>2. CASE ~g.win
    <2> DEFINE o == Shell!OpenWindow(g)
               w == [o EXCEPT !.fallback = g.hidden, !.asked = FALSE]
    <2>1. /\ o \in GUIs /\ o.at = g.at /\ o.retry = g.retry /\ o.win /\ ~o.exitIf
          /\ o.verdict = g.verdict /\ o.tray = g.tray /\ o.timer = g.timer
        BY OpenWindowIs
    <2>2. Shell!OpenFallback(g) = w
        BY <1>2 DEF Shell!OpenFallback
    <2>. HIDE DEF o
    <2>3. g.hidden \in BOOLEAN
        BY DEF GUIs
    <2>4. /\ w \in GUIs /\ w.at = g.at /\ w.retry = g.retry
          /\ w.verdict = g.verdict /\ w.tray = g.tray /\ w.timer = g.timer
        BY <2>1, <2>3 DEF GUIs
    <2>5. w.win /\ ~w.asked /\ w.fallback
        BY <1>2, <2>1 DEF GUIs
    <2>. HIDE DEF w
    <2>6. Kept(w)
        BY <2>4, <2>5 DEF Kept
    <2>7. TrayKnown(w)
        BY <2>4 DEF TrayKnown
    <2>. QED BY <2>2, <2>4, <2>6, <2>7
<1>. QED BY <1>1, <1>2

LEMMA CloseStep ==
    ASSUME ShellIInv, NEW p \in Launches, Shell!CloseRequested(p)
    PROVE  ShellIInv'
<1> DEFINE o == gui[p]
           g == [o EXCEPT !.win = FALSE, !.asked = FALSE,
                          !.exitIf = @ \/ o.tray = "unknown"]
<1>1. o \in GUIs /\ o.at = "up" /\ o.win /\ Kept(o) /\ TrayKnown(o)
    BY DEF ShellIInv, Alive, Shell!CloseRequested, Shell!Up
<1>2. /\ gui' = [gui EXCEPT ![p] = IF o.tray = "none" THEN Shell!Gone(o) ELSE g]
      /\ UNCHANGED <<gpath, refused>>
    BY DEF Shell!CloseRequested, Shell!Step
<1>3. CASE o.tray = "none"
    BY <1>1, <1>2, <1>3, GoneIs, OneMoves
<1>4. CASE o.tray # "none"
    <2>1. (o.exitIf \/ o.tray = "unknown") \in BOOLEAN
        BY <1>1 DEF GUIs
    <2>2. /\ g \in GUIs /\ g.at = "up" /\ g.retry = o.retry
          /\ g.verdict = o.verdict /\ g.tray = o.tray /\ g.timer = o.timer
          /\ g.exitIf = (o.exitIf \/ o.tray = "unknown") /\ g.win = FALSE /\ g.asked = FALSE
        BY <1>1, <2>1 DEF GUIs
    <2>3. g.tray = "unknown" \/ g.tray = "up"
        BY <1>1, <1>4, <2>2 DEF GUIs
    <2>4. gui' = [gui EXCEPT ![p] = g]
        BY <1>2, <1>4
    <2>. HIDE DEF g
    <2>5. g.verdict \in {"due", "no", "yes"}
        BY <2>2 DEF GUIs
    <2>6. Kept(g)
        BY <1>1, <2>2, <2>3, <2>5 DEF Kept, TrayKnown
    <2>7. TrayKnown(g)
        BY <1>1, <2>2 DEF TrayKnown
    <2>8. Alive(g)
        BY <2>2, <2>6, <2>7 DEF Alive
    <2>. HIDE DEF o
    <2>. QED BY <1>1, <1>2, <2>2, <2>4, <2>8, OneMoves DEF o
<1>. QED BY <1>3, <1>4

LEMMA ShowStep ==
    ASSUME ShellIInv, NEW p \in Launches, Shell!ShowRequested(p) \/ Shell!ShowWindow(p)
    PROVE  ShellIInv'
<1>1. gui[p] \in GUIs /\ gui[p].at = "up" /\ TrayKnown(gui[p])
    BY DEF ShellIInv, Alive, Shell!ShowRequested, Shell!ShowWindow, Shell!Up
<1> DEFINE w == Shell!OpenWindow(gui[p])
<1>2. PICK heard \in Nat : /\ gui' = [gui EXCEPT ![p] = [w EXCEPT !.calls = heard, !.asked = TRUE]]
                           /\ UNCHANGED <<gpath, refused>>
    <2>1. CASE Shell!ShowRequested(p)
        <3>1. gui[p].calls \in Nat /\ gui[p].calls > 0 /\ w.calls = gui[p].calls
            BY <1>1, <2>1 DEF GUIs, Shell!OpenWindow, Shell!ShowRequested
        <3>2. w.calls - 1 \in Nat
            BY <3>1
        <3>. QED BY <2>1, <3>2 DEF Shell!ShowRequested, Shell!Step
    <2>2. CASE Shell!ShowWindow(p)
        <3>1. w \in GUIs
            BY <1>1, OpenWindowIs
        <3>2. w.calls \in Nat /\ [w EXCEPT !.calls = w.calls, !.asked = TRUE] = [w EXCEPT !.asked = TRUE]
            BY <3>1 DEF GUIs
        <3>. QED BY <2>2, <3>2 DEF Shell!ShowWindow, Shell!Step
    <2>. QED BY <2>1, <2>2
<1>3. /\ w \in GUIs /\ w.at = "up" /\ w.retry = gui[p].retry /\ w.win /\ ~w.exitIf /\ ~w.fallback
      /\ w.verdict = gui[p].verdict /\ w.tray = gui[p].tray /\ w.timer = gui[p].timer
    BY <1>1, OpenWindowIs
<1>. HIDE DEF w
<1> DEFINE g == [w EXCEPT !.calls = heard, !.asked = TRUE]
<1>4. /\ g \in GUIs /\ g.at = w.at /\ g.retry = w.retry /\ g.win = w.win /\ g.asked = TRUE
      /\ g.fallback = w.fallback /\ g.exitIf = w.exitIf
      /\ g.verdict = w.verdict /\ g.tray = w.tray /\ g.timer = w.timer
    BY <1>2, <1>3 DEF GUIs
<1>5. gui' = [gui EXCEPT ![p] = g]
    BY <1>2
<1>. HIDE DEF g
<1>6. Kept(g)
    BY <1>3, <1>4 DEF Kept
<1>7. TrayKnown(g)
    BY <1>1, <1>3, <1>4 DEF TrayKnown
<1>8. Alive(g)
    BY <1>6, <1>7, <1>3, <1>4 DEF Alive
<1>. QED BY <1>1, <1>2, <1>3, <1>4, <1>5, <1>8, OneMoves

LEMMA TimeoutStep ==
    ASSUME ShellIInv, NEW p \in Launches, Shell!TrayTimeout(p)
    PROVE  ShellIInv'
<1> DEFINE o == gui[p]
           g == [o EXCEPT !.timer = FALSE]
           h == [g EXCEPT !.tray = "none"]
<1>1. o \in GUIs /\ o.at = "up" /\ o.timer /\ Kept(o) /\ TrayKnown(o)
    BY DEF ShellIInv, Alive, Shell!TrayTimeout, Shell!Up
<1>2. /\ gui' = [gui EXCEPT ![p] = IF g.tray # "unknown" THEN g
                                    ELSE IF g.exitIf THEN h ELSE Shell!OpenFallback(h)]
      /\ UNCHANGED <<gpath, refused>>
    BY DEF Shell!TrayTimeout, Shell!Step
<1>3. /\ g \in GUIs /\ g.at = "up" /\ g.retry = o.retry /\ g.timer = FALSE
      /\ g.verdict = o.verdict /\ g.tray = o.tray /\ g.win = o.win /\ g.asked = o.asked
      /\ g.fallback = o.fallback /\ g.exitIf = o.exitIf /\ g.hidden = o.hidden
    BY <1>1 DEF GUIs
<1>4. /\ h \in GUIs /\ h.at = "up" /\ h.retry = o.retry /\ h.timer = FALSE
      /\ h.verdict = o.verdict /\ h.tray = "none" /\ h.win = o.win /\ h.asked = o.asked
      /\ h.fallback = o.fallback /\ h.exitIf = o.exitIf /\ h.hidden = o.hidden
    BY <1>1 DEF GUIs
<1>0. o.verdict \in {"due", "no", "yes"}
    BY <1>1 DEF GUIs
<1>. HIDE DEF g, h
<1>5. CASE g.tray # "unknown"
    <2>1. Kept(g)
        BY <1>0, <1>1, <1>3, <1>5 DEF Kept, TrayKnown
    <2>2. TrayKnown(g)
        BY <1>1, <1>3 DEF TrayKnown
    <2>3. Alive(g)
        BY <1>3, <2>1, <2>2 DEF Alive
    <2>. QED BY <1>1, <1>2, <1>3, <1>5, <2>3, OneMoves
<1>6. CASE g.tray = "unknown" /\ g.exitIf
    <2>1. o.verdict = "due"
        BY <1>0, <1>1, <1>3, <1>6 DEF TrayKnown
    <2>2. Kept(h)
        BY <1>1, <1>3, <1>4, <1>6, <2>1 DEF Kept
    <2>3. TrayKnown(h)
        BY <1>4, <2>1 DEF TrayKnown
    <2>4. Alive(h)
        BY <1>4, <2>2, <2>3 DEF Alive
    <2>. QED BY <1>1, <1>2, <1>4, <1>6, <2>4, OneMoves
<1>7. CASE g.tray = "unknown" /\ ~g.exitIf
    <2> DEFINE w == Shell!OpenFallback(h)
    <2>1. o.verdict = "due"
        BY <1>0, <1>1, <1>3, <1>7 DEF TrayKnown
    <2>2. /\ h.asked => h.win /\ ~h.fallback
          /\ h.win /\ ~h.asked => h.fallback
          /\ ~h.win => h.hidden
        BY <1>1, <1>3, <1>4, <1>7, <2>1 DEF Kept
    <2>3. w \in GUIs /\ Kept(w) /\ TrayKnown(w) /\ w.at = "up" /\ w.retry = o.retry
        BY <1>3, <1>4, <1>7, <2>1, <2>2, FallbackIs
    <2>4. gui' = [gui EXCEPT ![p] = w]
        BY <1>2, <1>7
    <2>. HIDE DEF w
    <2>5. Alive(w)
        BY <2>3 DEF Alive
    <2>. QED BY <1>1, <1>2, <2>3, <2>4, <2>5, OneMoves
<1>. QED BY <1>5, <1>6, <1>7

LEMMA UnavailableStep ==
    ASSUME ShellIInv, NEW p \in Launches, Shell!Unavailable(p)
    PROVE  ShellIInv'
<1> DEFINE o == gui[p]
           h == [o EXCEPT !.verdict = "no", !.tray = "none"]
<1>1. o \in GUIs /\ o.at = "up" /\ o.verdict = "due" /\ Kept(o) /\ TrayKnown(o)
    BY DEF ShellIInv, Alive, Shell!Unavailable, Shell!Up
<1>2. /\ gui' = [gui EXCEPT ![p] = IF h.exitIf THEN Shell!Gone(h) ELSE Shell!OpenFallback(h)]
      /\ UNCHANGED <<gpath, refused>>
    BY DEF Shell!Unavailable, Shell!Step
<1>3. /\ h \in GUIs /\ h.at = "up" /\ h.retry = o.retry
      /\ h.verdict = "no" /\ h.tray = "none" /\ h.win = o.win /\ h.asked = o.asked
      /\ h.fallback = o.fallback /\ h.exitIf = o.exitIf /\ h.hidden = o.hidden
    BY <1>1 DEF GUIs
<1>. HIDE DEF h
<1>4. CASE h.exitIf
    <2> DEFINE w == Shell!Gone(h)
    <2>1. w \in GUIs /\ Alive(w) /\ w.at = "gone" /\ w.retry = o.retry
        BY <1>3, GoneIs
    <2>2. gui' = [gui EXCEPT ![p] = w]
        BY <1>2, <1>4
    <2>. HIDE DEF w
    <2>. QED BY <1>2, <2>1, <2>2, OneMoves
<1>5. CASE ~h.exitIf
    <2> DEFINE w == Shell!OpenFallback(h)
    <2>1. /\ h.asked => h.win /\ ~h.fallback
          /\ h.win /\ ~h.asked => h.fallback
          /\ ~h.win => h.hidden
        BY <1>1, <1>3, <1>5 DEF Kept
    <2>2. w \in GUIs /\ Kept(w) /\ TrayKnown(w) /\ w.at = "up" /\ w.retry = o.retry
        BY <1>3, <1>5, <2>1, FallbackIs
    <2>3. gui' = [gui EXCEPT ![p] = w]
        BY <1>2, <1>5
    <2>. HIDE DEF w
    <2>4. Alive(w)
        BY <2>2 DEF Alive
    <2>. QED BY <1>1, <1>2, <2>2, <2>3, <2>4, OneMoves
<1>. QED BY <1>4, <1>5

LEMMA StartedStep ==
    ASSUME ShellIInv, NEW p \in Launches, Shell!Started(p)
    PROVE  ShellIInv'
<1> DEFINE o == gui[p]
           g == [o EXCEPT !.verdict = "yes", !.tray = "up", !.exitIf = FALSE,
                          !.fallback = FALSE, !.win = @ /\ ~o.fallback]
<1>1. o \in GUIs /\ o.at = "up" /\ o.verdict # "yes" /\ Kept(o)
    BY DEF ShellIInv, Alive, Shell!Started, Shell!Up
<1>2. gui' = [gui EXCEPT ![p] = g] /\ UNCHANGED <<gpath, refused>>
    BY DEF Shell!Started, Shell!Step
<1>3. (o.win /\ ~o.fallback) \in BOOLEAN
    BY <1>1 DEF GUIs
<1>4. /\ g \in GUIs /\ g.at = "up" /\ g.retry = o.retry
      /\ g.verdict = "yes" /\ g.tray = "up" /\ g.exitIf = FALSE /\ g.asked = o.asked
      /\ g.fallback = FALSE /\ g.win = (o.win /\ ~o.fallback)
    BY <1>1, <1>3 DEF GUIs
<1>. HIDE DEF g
<1>5. Kept(g)
    BY <1>1, <1>4 DEF Kept
<1>6. TrayKnown(g)
    BY <1>4 DEF TrayKnown
<1>7. Alive(g)
    BY <1>4, <1>5, <1>6 DEF Alive
<1>. QED BY <1>1, <1>2, <1>4, <1>7, OneMoves

LEMMA ShellStep ==
    ASSUME ShellIInv, [Shell!ShellNext]_svars
    PROVE  ShellIInv'
<1>1. CASE UNCHANGED svars
    BY <1>1 DEF svars, ShellIInv, ClaimedBy
<1>2. CASE Shell!ShellNext
    <2>1. ASSUME NEW p \in Launches, Shell!Quit(p) PROVE ShellIInv'
        <3>1. gui' = [gui EXCEPT ![p] = Shell!Gone(gui[p])] /\ UNCHANGED <<gpath, refused>>
            BY <2>1 DEF Shell!Quit, Shell!Step
        <3>2. gui[p] \in GUIs
            BY DEF ShellIInv
        <3>. QED BY <3>1, <3>2, GoneIs, OneMoves
    <2>. QED BY <1>2, <2>1, LaunchStep, BindStep, ListenStep, SocketStep, RemoveFileStep,
                CloseStep, ShowStep, TimeoutStep, UnavailableStep, StartedStep
             DEF Shell!ShellNext
<1>. QED BY <1>1, <1>2

LEMMA ShellTyped == ShellIInv => Shell!ShellTypeOK
<1>. SUFFICES ASSUME ShellIInv PROVE Shell!ShellTypeOK
    OBVIOUS
<1>1. ASSUME NEW p \in Launches
      PROVE  /\ gui[p].at \in {"off", "bind", "listen", "connect", "unlink", "up", "gone"}
             /\ gui[p].tray \in {"unknown", "none", "up"}
    BY DEF ShellIInv, GUIs
<1>2. ASSUME NEW p \in Launches PROVE gui[p].win \/ gui[p].hears => gui[p].at = "up"
    BY <1>1 DEF ShellIInv, Alive, Fresh
<1>. QED BY <1>1, <1>2 DEF ShellIInv, Shell!ShellTypeOK, Shell!Up

LEMMA ShellIs == ShellIInv => Shell!ShellHolds
<1>. SUFFICES ASSUME ShellIInv PROVE Shell!ShellHolds
    OBVIOUS
<1>1. Shell!OneInstance
    BY DEF ShellIInv, ClaimedBy, Shell!OneInstance, Shell!Up
<1>2. Shell!Reachable /\ Shell!WindowIsTheUsers
    BY DEF ShellIInv, Alive, Kept, Shell!Reachable, Shell!WindowIsTheUsers, Shell!Up
<1>. QED BY <1>1, <1>2 DEF Shell!ShellHolds

-----------------------------------------------------------------------------
(* The designer *)

Widgets == [id : Int, at : Int]
Sketches == {s \in Seq(Widgets) : Len(s) <= WidgetLimit}
Layouts == [Des!Screens -> Sketches]
LayoutCalls ==
    [do : {"load", "apply"}, st : {"sent", "ok", "error"}, screen : Des!Screens,
     layouts : Layouts]

Drawing ==
    /\ screen \in Des!Screens
    /\ working \in Layouts /\ applied \in Layouts /\ dlayouts \in Layouts
    /\ desBusy \in BOOLEAN /\ calls \subseteq LayoutCalls
    /\ gbounds \in [edits : Nat, asks : Nat, fails : Nat, others : Nat]

Selected == selected # None => selected \in DOMAIN working[screen]

\* A load that crosses nothing is alone, and so is an apply
OneCall == ~crossed => calls = {} \/ (desBusy /\ \E c \in calls : calls = {c})

\* What is marked as on the pad is there, but for what is being applied
Marks ==
    ~crossed /\ ~astray =>
        /\ calls = {} => applied = dlayouts
        /\ \A c \in calls :
              /\ c.st # "error"
              /\ c.do = "load" /\ c.st = "ok" => c.layouts = dlayouts
              /\ c.do = "apply" /\ c.st = "sent" => applied = dlayouts
              /\ c.do = "apply" /\ c.st = "ok" =>
                     [applied EXCEPT ![c.screen] = c.layouts[c.screen]] = dlayouts

DesIInv == Drawing /\ Selected /\ OneCall /\ Marks

LEMMA LayoutsAre ==
    /\ Des!Default \in Sketches /\ <<>> \in Sketches
    /\ Des!Defaults \in Layouts
    /\ [Des!Defaults EXCEPT !["idle"] = <<>>] \in Layouts
<1>0. WidgetLimit \in Nat /\ WidgetLimit >= 1
    BY DesignerAssumption DEF DesignerAssumption, Des!DesignerConstants
<1>1. Des!Default \in Sketches /\ <<>> \in Sketches
    <2>1. Des!Default \in Seq(Widgets) /\ <<>> \in Seq(Widgets)
        BY DEF Des!Default, Widgets
    <2>2. Len(Des!Default) = 1 /\ Len(<<>>) = 0
        BY DEF Des!Default
    <2>. QED BY <1>0, <2>1, <2>2 DEF Sketches
<1>. QED BY <1>1 DEF Des!Defaults, Layouts

LEMMA DesInitial ==
    ASSUME Des!DesignerInit
    PROVE  DesIInv
<1>1. /\ dlayouts \in Layouts /\ working \in Layouts /\ applied \in Layouts
      /\ calls = {Des!LoadCall} /\ selected = None /\ desBusy /\ astray
      /\ screen \in Des!Screens /\ gbounds \in DesignerBudgets
    BY LayoutsAre DEF Des!DesignerInit, Des!Screens
<1>2. Des!LoadCall \in LayoutCalls
    BY LayoutsAre DEF Des!LoadCall, LayoutCalls, Des!Screens
<1>3. gbounds \in [edits : Nat, asks : Nat, fails : Nat, others : Nat]
    BY <1>1, DesignerAssumption DEF DesignerAssumption, Des!DesignerConstants
<1>4. Drawing
    BY <1>1, <1>2, <1>3 DEF Drawing
<1>. QED BY <1>1, <1>4 DEF DesIInv, Selected, OneCall, Marks

LEMMA SpendStep ==
    ASSUME Drawing, NEW what \in {"edits", "asks", "fails", "others"}, Des!Spend(what)
    PROVE  gbounds' \in [edits : Nat, asks : Nat, fails : Nat, others : Nat]
<1>1. gbounds[what] \in Nat /\ gbounds[what] > 0
    BY DEF Drawing, Des!Spend
<1>2. gbounds[what] - 1 \in Nat
    BY <1>1
<1>3. gbounds' = [gbounds EXCEPT ![what] = gbounds[what] - 1]
    BY DEF Des!Spend
<1>. QED BY <1>2, <1>3 DEF Drawing

\* An edit leaves a layout and a selection in it
LEMMA EditStep ==
    ASSUME DesIInv, NEW layout \in Sketches, NEW pick, Des!Edit(layout, pick),
           pick # None => pick \in DOMAIN layout
    PROVE  DesIInv'
<1>1. gbounds' \in [edits : Nat, asks : Nat, fails : Nat, others : Nat]
    BY SpendStep DEF DesIInv, Des!Edit
<1>2. /\ working' = [working EXCEPT ![screen] = layout] /\ selected' = pick
      /\ UNCHANGED <<screen, drag, applied, desBusy, dlayouts, calls, crossed, astray>>
    BY DEF Des!Edit, Des!remote
<1>3. screen \in Des!Screens /\ working \in Layouts
    BY DEF DesIInv, Drawing
<1>4. working' \in Layouts /\ working'[screen] = layout
    BY <1>2, <1>3 DEF Layouts
<1>5. Drawing'
    BY <1>1, <1>2, <1>4 DEF DesIInv, Drawing
<1>6. Selected'
    BY <1>2, <1>4 DEF Selected
<1>. QED BY <1>2, <1>5, <1>6 DEF DesIInv, OneCall, Marks

LEMMA ChangedOne ==
    ASSUME NEW s \in Sketches, NEW i \in DOMAIN s, NEW w \in Widgets
    PROVE  [s EXCEPT ![i] = w] \in Sketches /\ DOMAIN [s EXCEPT ![i] = w] = DOMAIN s
<1>1. /\ [s EXCEPT ![i] = w] \in Seq(Widgets) /\ DOMAIN [s EXCEPT ![i] = w] = DOMAIN s
      /\ Len([s EXCEPT ![i] = w]) = Len(s)
    BY DEF Sketches
<1>. QED BY <1>1 DEF Sketches

LEMMA TurnedIs ==
    ASSUME NEW w \in Widgets
    PROVE  Des!Turned(w) \in Widgets
BY DEF Des!Turned, Widgets

LEMMA AppendedOne ==
    ASSUME NEW s \in Sketches, NEW w \in Widgets, Len(s) < WidgetLimit
    PROVE  Append(s, w) \in Sketches /\ Len(s) + 1 \in DOMAIN Append(s, w)
<1>0. WidgetLimit \in Nat
    BY DesignerAssumption DEF DesignerAssumption, Des!DesignerConstants
<1>1. Len(s) \in Nat /\ Append(s, w) \in Seq(Widgets) /\ Len(Append(s, w)) = Len(s) + 1
    BY DEF Sketches
<1>2. DOMAIN Append(s, w) = 1 .. Len(Append(s, w))
    BY <1>1
<1>. QED BY <1>0, <1>1, <1>2 DEF Sketches

LEMMA RemovedOne ==
    ASSUME NEW s \in Sketches, NEW i \in DOMAIN s
    PROVE  Des!RemoveAt(s, i) \in Sketches
<1>0. WidgetLimit \in Nat
    BY DesignerAssumption DEF DesignerAssumption, Des!DesignerConstants
<1>1. s \in Seq(Widgets) /\ i \in 1 .. Len(s) /\ Len(s) \in Nat /\ Len(s) <= WidgetLimit
    BY DEF Sketches
<1> DEFINE before == SubSeq(s, 1, i - 1)
           after == SubSeq(s, i + 1, Len(s))
<1>2. /\ before \in Seq(Widgets) /\ Len(before) = i - 1
      /\ after \in Seq(Widgets) /\ Len(after) = Len(s) - i
    BY <1>1
<1>3. Des!RemoveAt(s, i) = before \o after
    BY DEF Des!RemoveAt
<1>. HIDE DEF before, after
<1>4. before \o after \in Seq(Widgets) /\ Len(before \o after) = Len(s) - 1
    BY <1>1, <1>2
<1>. QED BY <1>0, <1>1, <1>3, <1>4 DEF Sketches

LEMMA SwappedTwo ==
    ASSUME NEW s \in Sketches, NEW i \in DOMAIN s, NEW j \in DOMAIN s
    PROVE  LET t == [s EXCEPT ![i] = s[j], ![j] = s[i]]
           IN  t \in Sketches /\ DOMAIN t = DOMAIN s
<1>1. s[i] \in Widgets /\ s[j] \in Widgets
    BY DEF Sketches
<1> DEFINE t == [s EXCEPT ![i] = s[j]]
<1>2. t \in Sketches /\ DOMAIN t = DOMAIN s
    BY <1>1, ChangedOne
<1>3. [s EXCEPT ![i] = s[j], ![j] = s[i]] = [t EXCEPT ![j] = s[i]]
    OBVIOUS
<1>. HIDE DEF t
<1>. QED BY <1>1, <1>2, <1>3, ChangedOne

LEMMA EditingStep ==
    ASSUME DesIInv,
           \/ Des!PointerMove \/ Des!SetProperty \/ Des!Add \/ Des!Duplicate \/ Des!Delete
           \/ Des!Raise \/ Des!Lower \/ Des!Revert \/ Des!ResetDefault \/ Des!Imported
    PROVE  DesIInv'
<1> DEFINE s == working[screen]
<1>0. /\ s \in Sketches /\ applied[screen] \in Sketches /\ Des!Shown = s
      /\ Selected /\ gbounds.edits \in Nat
    BY DEF DesIInv, Drawing, Layouts, Des!Shown
<1>1. Des!Picked => selected # None /\ selected \in DOMAIN s
    BY <1>0 DEF Selected, Des!Picked
<1>2. \A i \in DOMAIN s : s[i] \in Widgets
    BY <1>0 DEF Sketches
<1>3. DOMAIN s = 1 .. Len(s) /\ Len(s) \in Nat
    BY <1>0 DEF Sketches
<1>. HIDE DEF s
<1>4. CASE Des!PointerMove
    <2> DEFINE t == [s EXCEPT ![drag] = Des!Turned(s[drag])]
    <2>1. drag \in DOMAIN s /\ Des!Edit(t, selected)
        BY <1>0, <1>4 DEF Des!PointerMove
    <2>2. t \in Sketches /\ DOMAIN t = DOMAIN s
        BY <1>0, <1>2, <2>1, TurnedIs, ChangedOne
    <2>. HIDE DEF t
    <2>. QED BY <1>0, <2>1, <2>2, EditStep DEF Selected, s
<1>5. CASE Des!SetProperty
    <2> DEFINE t == [s EXCEPT ![selected] = Des!Turned(s[selected])]
    <2>1. selected \in DOMAIN s /\ Des!Edit(t, selected)
        BY <1>0, <1>5 DEF Des!SetProperty
    <2>2. t \in Sketches /\ DOMAIN t = DOMAIN s
        BY <1>0, <1>2, <2>1, TurnedIs, ChangedOne
    <2>. HIDE DEF t
    <2>. QED BY <2>1, <2>2, EditStep
<1>6. CASE Des!Add
    <2>1. [id |-> Des!NextId, at |-> 0] \in Widgets
        BY <1>0 DEF Widgets, Des!NextId
    <2>. QED BY <1>0, <1>6, <2>1, AppendedOne, EditStep
         DEF Des!Add, Des!HasRoom
<1>7. CASE Des!Duplicate
    <2> DEFINE w == [s[selected] EXCEPT !.id = Des!NextId]
    <2>1. Des!NextId \in Int
        BY <1>0 DEF Des!NextId
    <2>2. w \in Widgets
        BY <1>1, <1>2, <1>7, <2>1 DEF Des!Duplicate, Widgets
    <2>3. Des!Edit(Append(s, w), Len(s) + 1) /\ Len(s) < WidgetLimit
        BY <1>0, <1>7 DEF Des!Duplicate, Des!HasRoom
    <2>. HIDE DEF w
    <2>. QED BY <1>0, <2>2, <2>3, AppendedOne, EditStep
<1>8. CASE Des!Delete
    BY <1>0, <1>1, <1>8, RemovedOne, EditStep DEF Des!Delete
<1>9. CASE Des!Raise
    <2>1. selected \in DOMAIN s /\ selected + 1 \in DOMAIN s
        BY <1>0, <1>1, <1>3, <1>9 DEF Des!Raise
    <2> DEFINE t == [s EXCEPT ![selected] = s[selected + 1], ![selected + 1] = s[selected]]
    <2>2. Des!Edit(t, selected + 1)
        BY <1>0, <1>9 DEF Des!Raise, Des!Swapped
    <2>3. t \in Sketches /\ DOMAIN t = DOMAIN s
        BY <1>0, <2>1, SwappedTwo
    <2>. HIDE DEF t
    <2>. QED BY <2>1, <2>2, <2>3, EditStep
<1>10. CASE Des!Lower
    <2>1. selected \in DOMAIN s /\ selected - 1 \in DOMAIN s
        BY <1>0, <1>1, <1>3, <1>10 DEF Des!Lower
    <2> DEFINE t == [s EXCEPT ![selected] = s[selected - 1], ![selected - 1] = s[selected]]
    <2>2. Des!Edit(t, selected - 1)
        BY <1>0, <1>10 DEF Des!Lower, Des!Swapped
    <2>3. t \in Sketches /\ DOMAIN t = DOMAIN s
        BY <1>0, <2>1, SwappedTwo
    <2>. HIDE DEF t
    <2>. QED BY <2>1, <2>2, <2>3, EditStep
<1>11. CASE Des!Revert \/ Des!ResetDefault \/ Des!Imported
    BY <1>0, <1>11, LayoutsAre, EditStep DEF Des!Revert, Des!ResetDefault, Des!Imported
<1>. QED BY <1>4, <1>5, <1>6, <1>7, <1>8, <1>9, <1>10, <1>11

LEMMA PointerStep ==
    ASSUME DesIInv,
           \/ \E s \in Des!Screens : Des!SelectScreen(s)
           \/ \E i \in 1 .. WidgetLimit : Des!Select(i) \/ Des!PointerDown(i)
           \/ Des!PointerDown(None) \/ Des!PointerUp
    PROVE  DesIInv'
<1>1. UNCHANGED <<working, applied, desBusy, gbounds, dlayouts, calls, crossed, astray>>
    BY DEF Des!SelectScreen, Des!Select, Des!PointerDown, Des!PointerUp, Des!remote
<1>2. screen' \in Des!Screens
    BY DEF DesIInv, Drawing, Des!SelectScreen, Des!Select, Des!PointerDown, Des!PointerUp
<1>3. Selected'
    BY DEF DesIInv, Selected, Des!SelectScreen, Des!Select, Des!PointerDown, Des!PointerUp,
           Des!Shown
<1>. QED BY <1>1, <1>2, <1>3 DEF DesIInv, Drawing, OneCall, Marks

LEMMA SendStep ==
    ASSUME DesIInv, Des!Reload \/ Des!Apply
    PROVE  DesIInv'
<1>1. PICK call \in LayoutCalls :
          /\ Des!Send(call) /\ call.st = "sent"
          /\ desBusy' = TRUE /\ UNCHANGED <<applied, dlayouts, astray>>
          /\ UNCHANGED <<screen, working, selected>>
    <2>1. CASE Des!Reload
        <3>1. Des!LoadCall \in LayoutCalls /\ Des!LoadCall.st = "sent"
            BY LayoutsAre DEF Des!LoadCall, LayoutCalls, Des!Screens
        <3>. QED BY <2>1, <3>1 DEF Des!Reload, Des!editing
    <2>2. CASE Des!Apply
        <3>1. Des!ApplyCall \in LayoutCalls /\ Des!ApplyCall.st = "sent"
            BY DEF DesIInv, Drawing, Des!ApplyCall, LayoutCalls
        <3>. QED BY <2>2, <3>1 DEF Des!Apply, Des!editing
    <2>. QED BY <2>1, <2>2
<1>2. /\ calls' = calls \cup {call}
      /\ crossed' = IF calls = {} THEN crossed /\ call.do # "load"
                    ELSE crossed \/ \E c \in calls \cup {call} : c.do = "load"
    BY <1>1 DEF Des!Send
<1>3. Drawing'
    <2>1. gbounds' \in [edits : Nat, asks : Nat, fails : Nat, others : Nat]
        BY <1>1, SpendStep DEF DesIInv, Des!Send
    <2>. QED BY <1>1, <1>2, <2>1 DEF DesIInv, Drawing
<1>4. ~crossed' => calls' = {call}
    <2>1. CASE calls = {}
        BY <1>2, <2>1
    <2>2. CASE calls # {} /\ Des!Reload
        <3>1. Des!Send(Des!LoadCall) /\ Des!LoadCall.do = "load"
            BY <2>2 DEF Des!Reload, Des!LoadCall
        <3>2. crossed'
            BY <2>2, <3>1 DEF Des!Send
        <3>. QED BY <3>2
    <2>3. CASE calls # {} /\ Des!Apply
        BY <1>1, <1>2, <2>3 DEF DesIInv, OneCall, Des!Apply
    <2>. QED BY <2>1, <2>2, <2>3
<1>5. OneCall'
    BY <1>1, <1>2, <1>4 DEF OneCall
<1>6. ~crossed' /\ ~astray' /\ call.do = "apply" => applied = dlayouts
    BY <1>1, <1>2, <1>4 DEF DesIInv, Marks, OneCall
<1>7. Marks'
    BY <1>1, <1>2, <1>4, <1>6 DEF Marks
<1>. QED BY <1>1, <1>3, <1>5, <1>7 DEF DesIInv, Selected

LEMMA ServedStep ==
    ASSUME DesIInv, NEW call \in calls, Des!DaemonServes(call)
    PROVE  DesIInv'
<1>1. /\ call \in LayoutCalls /\ call.st = "sent"
      /\ UNCHANGED <<screen, working, selected, applied, desBusy, crossed>>
    BY DEF DesIInv, Drawing, Des!DaemonServes, Des!editing
<1>0. dlayouts \in Layouts /\ call.do \in {"load", "apply"} /\ call.layouts \in Layouts
      /\ call.screen \in Des!Screens
    BY <1>1 DEF DesIInv, Drawing, LayoutCalls
<1>2. gbounds' \in [edits : Nat, asks : Nat, fails : Nat, others : Nat]
    <2>1. CASE UNCHANGED gbounds
        BY <2>1 DEF DesIInv, Drawing
    <2>2. CASE Des!Spend("fails")
        BY <2>2, SpendStep DEF DesIInv
    <2>. QED BY <2>1, <2>2 DEF Des!DaemonServes
<1>3. Selected'
    BY <1>1 DEF DesIInv, Selected
<1> DEFINE wrote == [dlayouts EXCEPT ![call.screen] = call.layouts[call.screen]]
<1>4. wrote \in Layouts
    BY <1>0 DEF Layouts
<1>5. dlayouts' = dlayouts \/ (call.do = "apply" /\ dlayouts' = wrote)
    BY DEF Des!DaemonServes
<1>6. PICK c \in LayoutCalls :
          /\ calls' = (calls \ {call}) \cup {c} /\ c.do = call.do /\ c.screen = call.screen
          /\ \/ /\ c.st = "error" /\ astray'
             \/ /\ c.st = "ok" /\ astray' = (astray /\ call.do # "load")
                /\ c.layouts = IF call.do = "load" THEN dlayouts ELSE call.layouts
                /\ dlayouts' = IF call.do = "load" THEN dlayouts ELSE wrote
    <2>1. CASE /\ calls' = Des!Answered(call, [call EXCEPT !.st = "ok",
                                 !.layouts = IF call.do = "load" THEN dlayouts ELSE @])
               /\ astray' = (astray /\ call.do # "load") /\ UNCHANGED gbounds
        <3> DEFINE c == [call EXCEPT !.st = "ok",
                                     !.layouts = IF call.do = "load" THEN dlayouts ELSE @]
        <3>1. /\ c \in LayoutCalls /\ c.do = call.do /\ c.screen = call.screen /\ c.st = "ok"
              /\ c.layouts = IF call.do = "load" THEN dlayouts ELSE call.layouts
            BY <1>0, <1>1 DEF LayoutCalls
        <3>2. calls' = (calls \ {call}) \cup {c}
            BY <2>1 DEF Des!Answered
        <3>3. dlayouts' = IF call.do = "load" THEN dlayouts ELSE wrote
            BY <1>0, <2>1 DEF Des!DaemonServes
        <3>. HIDE DEF c, wrote
        <3>. QED BY <2>1, <3>1, <3>2, <3>3
    <2>2. CASE /\ calls' = Des!Answered(call, [call EXCEPT !.st = "error"]) /\ astray' = TRUE
        <3> DEFINE c == [call EXCEPT !.st = "error"]
        <3>1. c \in LayoutCalls /\ c.do = call.do /\ c.screen = call.screen /\ c.st = "error"
            BY <1>0, <1>1 DEF LayoutCalls
        <3>2. calls' = (calls \ {call}) \cup {c}
            BY <2>2 DEF Des!Answered
        <3>. HIDE DEF c, wrote
        <3>. QED BY <2>2, <3>1, <3>2
    <2>. QED BY <2>1, <2>2 DEF Des!DaemonServes
<1>7. Drawing'
    BY <1>1, <1>2, <1>4, <1>5, <1>6 DEF DesIInv, Drawing
<1>8. ~crossed => calls = {call} /\ calls' = {c} /\ desBusy
    BY <1>6 DEF DesIInv, OneCall
<1>9. OneCall'
    BY <1>1, <1>8 DEF OneCall
<1>10. Marks'
    <2>. SUFFICES ASSUME ~crossed', ~astray' PROVE Marks'
        BY DEF Marks
    <2>1. c.st = "ok" /\ calls' = {c} /\ calls = {call} /\ ~crossed
        BY <1>1, <1>6, <1>8
    <2>2. CASE call.do = "load"
        BY <1>6, <2>1, <2>2 DEF Marks
    <2>3. CASE call.do = "apply"
        <3>1. ~astray /\ applied = dlayouts
            BY <1>1, <1>6, <2>1, <2>3 DEF DesIInv, Marks
        <3>2. [applied EXCEPT ![c.screen] = c.layouts[c.screen]] = dlayouts'
            BY <1>6, <2>1, <2>3, <3>1
        <3>. QED BY <1>1, <1>6, <2>1, <2>3, <3>2 DEF Marks
    <2>. QED BY <1>0, <2>2, <2>3
<1>. QED BY <1>3, <1>7, <1>9, <1>10 DEF DesIInv

LEMMA OtherStep ==
    ASSUME DesIInv, NEW s \in Des!Screens, Des!OtherClient(s)
    PROVE  DesIInv'
<1>1. gbounds' \in [edits : Nat, asks : Nat, fails : Nat, others : Nat]
    BY SpendStep DEF DesIInv, Des!OtherClient
<1>2. dlayouts' \in Layouts
    BY LayoutsAre DEF DesIInv, Drawing, Des!OtherClient, Layouts
<1>3. astray' /\ UNCHANGED <<screen, working, selected, applied, desBusy, calls, crossed>>
    BY DEF Des!OtherClient, Des!editing
<1>. QED BY <1>1, <1>2, <1>3 DEF DesIInv, Drawing, Selected, OneCall, Marks

LEMMA AnsweredStep ==
    ASSUME DesIInv, NEW call \in calls, Des!Loaded(call) \/ Des!Applied(call)
    PROVE  DesIInv'
<1>1. /\ call \in LayoutCalls /\ call.st # "sent" /\ calls' = calls \ {call}
      /\ UNCHANGED <<screen, dlayouts, gbounds, crossed, astray>>
    BY DEF DesIInv, Drawing, Des!Loaded, Des!Applied, Des!editing
<1>2. ~crossed => calls = {call} /\ calls' = {}
    BY <1>1 DEF DesIInv, OneCall
<1>0. desBusy' \in BOOLEAN
    BY DEF Des!Loaded, Des!Applied
<1>3. OneCall'
    BY <1>1, <1>2 DEF OneCall
<1>4. /\ call.layouts \in Layouts /\ call.screen \in Des!Screens
      /\ call.st \in {"ok", "error"} /\ call.do \in {"load", "apply"}
    BY <1>1 DEF LayoutCalls
<1>5. Drawing' /\ Selected'
    <2>1. CASE Des!Loaded(call)
        <3>1. working' \in Layouts /\ applied' \in Layouts /\ selected' = None
            BY <1>4, <2>1 DEF DesIInv, Drawing, Des!Loaded
        <3>. QED BY <1>0, <1>1, <3>1 DEF DesIInv, Drawing, Selected
    <2>2. CASE Des!Applied(call)
        <3>1. applied' \in Layouts
            BY <1>4, <2>2 DEF DesIInv, Drawing, Layouts, Des!Applied, Des!Marked
        <3>2. UNCHANGED <<working, selected>>
            BY <2>2 DEF Des!Applied, Des!editing
        <3>. QED BY <1>0, <1>1, <3>1, <3>2 DEF DesIInv, Drawing, Selected
    <2>. QED BY <2>1, <2>2
<1>6. Marks'
    <2>. SUFFICES ASSUME ~crossed', ~astray' PROVE Marks'
        BY DEF Marks
    <2>1. call.st = "ok" /\ calls' = {}
        BY <1>1, <1>2, <1>4 DEF DesIInv, Marks
    <2>2. applied' = dlayouts
        BY <1>1, <2>1 DEF DesIInv, Marks, Des!Loaded, Des!Applied, Des!Marked
    <2>. QED BY <1>1, <2>1, <2>2 DEF Marks
<1>. QED BY <1>3, <1>5, <1>6 DEF DesIInv

LEMMA DesStep ==
    ASSUME DesIInv, [Des!DesignerNext]_gvars
    PROVE  DesIInv'
<1>1. CASE UNCHANGED gvars
    BY <1>1 DEF gvars, DesIInv, Drawing, Selected, OneCall, Marks
<1>2. CASE Des!DesignerNext
    BY <1>2, EditingStep, PointerStep, SendStep, ServedStep, OtherStep, AnsweredStep
    DEF Des!DesignerNext
<1>. QED BY <1>1, <1>2

LEMMA DesTyped == DesIInv => Des!DesignerTypeOK
BY DEF DesIInv, Drawing, Layouts, Sketches, Des!DesignerTypeOK

LEMMA DesIs == DesIInv => Des!DesignerHolds
BY DEF DesIInv, Selected, Marks, Des!DesignerHolds, Des!SelectionIsAWidget, Des!Picked,
       Des!Shown, Des!AppliedIsOnThePad

-----------------------------------------------------------------------------
(* The dialogs *)

\* Every flash took a consent of its own, and one that is open is still to take
DlgCounts ==
    /\ asked \in Nat /\ opened \in Nat /\ asked <= opened
    /\ firmware = "consent" => asked < opened
    /\ firmware = "flashing" => "firmware" \in sentTo

DlgIInv == Dlg!DialogsTypeOK /\ DlgCounts

LEMMA DlgInitial ==
    ASSUME Dlg!DialogsInit
    PROVE  DlgIInv
BY DialogAssumption DEF DialogAssumption, Dlg!DialogConstants, Dlg!DialogsInit, DlgIInv,
       DlgCounts, Dlg!DialogsTypeOK

LEMMA DlgCountsStep ==
    ASSUME DlgCounts, [Dlg!DialogsNext]_dvars
    PROVE  DlgCounts'
<1>0. None # "consent" /\ None # "flashing"
    BY DialogAssumption DEF DialogAssumption, Dlg!DialogConstants
<1>1. CASE UNCHANGED dvars \/ Dlg!Drawn \/ \E m \in drawn : Dlg!Click(m)
    BY <1>1 DEF dvars, DlgCounts, Dlg!Drawn, Dlg!Click
<1>2. CASE Dlg!Handled
    <2>1. CASE Dlg!PromptFirmwareConsent
        BY <2>1 DEF DlgCounts, Dlg!PromptFirmwareConsent
    <2>2. CASE Dlg!ConfirmFirmwareUpdate
        BY <2>2 DEF DlgCounts, Dlg!ConfirmFirmwareUpdate, Dlg!Consents, Dlg!Sends
    <2>3. CASE Dlg!CancelFirmwareModal
        BY <1>0, <2>3 DEF DlgCounts, Dlg!CancelFirmwareModal
    <2>4. CASE Dlg!ResetMessages(Dlg!Next1) \/ Dlg!RecoveryMessages(Dlg!Next1)
        <3>1. UNCHANGED <<firmware, opened, asked>>
            BY <2>4 DEF Dlg!ResetMessages, Dlg!RecoveryMessages
        <3>2. sentTo \subseteq sentTo'
            BY <2>4 DEF Dlg!ResetMessages, Dlg!RecoveryMessages, Dlg!Sends
        <3>. QED BY <3>1, <3>2 DEF DlgCounts
    <2>. QED BY <1>2, <2>1, <2>2, <2>3, <2>4 DEF Dlg!Handled
<1>3. ASSUME NEW success \in BOOLEAN, Dlg!FirmwareResult(success) PROVE DlgCounts'
    BY <1>3 DEF DlgCounts, Dlg!FirmwareResult
<1>4. ASSUME NEW what \in sentTo, Dlg!ActionDone(what) PROVE DlgCounts'
    BY <1>4 DEF DlgCounts, Dlg!ActionDone
<1>. QED BY <1>1, <1>2, <1>3, <1>4 DEF Dlg!DialogsNext

LEMMA DlgTypesStep ==
    ASSUME Dlg!DialogsTypeOK, [Dlg!DialogsNext]_dvars
    PROVE  Dlg!DialogsTypeOK'
<1>1. CASE UNCHANGED dvars \/ Dlg!Drawn \/ \E m \in drawn : Dlg!Click(m)
    BY <1>1 DEF dvars, Dlg!DialogsTypeOK, Dlg!Drawn, Dlg!Click
<1>2. CASE Dlg!Handled
    <2>1. CASE Dlg!PromptFirmwareConsent \/ Dlg!ConfirmFirmwareUpdate \/ Dlg!CancelFirmwareModal
        <3>1. UNCHANGED <<erase, recovery>>
            BY <2>1 DEF Dlg!PromptFirmwareConsent, Dlg!ConfirmFirmwareUpdate,
                        Dlg!CancelFirmwareModal
        <3>2. firmware' \in {firmware, "consent", "flashing", None}
            BY <2>1 DEF Dlg!PromptFirmwareConsent, Dlg!ConfirmFirmwareUpdate,
                        Dlg!CancelFirmwareModal
        <3>. QED BY <3>1, <3>2, Zenon DEF Dlg!DialogsTypeOK
    <2>2. CASE Dlg!ResetMessages(Dlg!Next1)
        <3>1. UNCHANGED <<firmware, recovery>>
            BY <2>2 DEF Dlg!ResetMessages
        <3>2. PICK m : m = Dlg!Next1
            OBVIOUS
        <3>3. erase' = CASE m = "PromptResetCounters" -> FALSE
                         [] m = "ResetModalInput"     -> TRUE
                         [] OTHER                     -> None
            BY <2>2, <3>2, Zenon DEF Dlg!ResetMessages
        <3>4. CASE m = "PromptResetCounters"
            <4>1. erase' = FALSE
                BY <3>3, <3>4
            <4>. QED BY <3>1, <4>1, Zenon DEF Dlg!DialogsTypeOK
        <3>5. CASE m = "ResetModalInput"
            <4>1. erase' = TRUE
                BY <3>3, <3>5
            <4>. QED BY <3>1, <4>1, Zenon DEF Dlg!DialogsTypeOK
        <3>6. CASE m # "PromptResetCounters" /\ m # "ResetModalInput"
            <4>1. erase' = None
                BY <3>3, <3>6
            <4>. QED BY <3>1, <4>1, Zenon DEF Dlg!DialogsTypeOK
        <3>. QED BY <3>4, <3>5, <3>6
    <2>3. CASE Dlg!RecoveryMessages(Dlg!Next1)
        <3>1. UNCHANGED <<firmware, erase>> /\ recovery' \in {"restore", "import", None}
            BY <2>3 DEF Dlg!RecoveryMessages
        <3>. QED BY <3>1, Zenon DEF Dlg!DialogsTypeOK, Dlg!Recoveries
    <2>. QED BY <1>2, <2>1, <2>2, <2>3 DEF Dlg!Handled
<1>3. ASSUME NEW success \in BOOLEAN, Dlg!FirmwareResult(success) PROVE Dlg!DialogsTypeOK'
    BY <1>3 DEF Dlg!DialogsTypeOK, Dlg!FirmwareResult
<1>4. ASSUME NEW what \in sentTo, Dlg!ActionDone(what) PROVE Dlg!DialogsTypeOK'
    BY <1>4 DEF Dlg!DialogsTypeOK, Dlg!ActionDone
<1>. QED BY <1>1, <1>2, <1>3, <1>4 DEF Dlg!DialogsNext

LEMMA DlgStep ==
    ASSUME DlgIInv, [Dlg!DialogsNext]_dvars
    PROVE  DlgIInv'
BY DlgCountsStep, DlgTypesStep DEF DlgIInv

LEMMA DlgIs == DlgIInv => Dlg!OneFlashPerConsent /\ Dlg!FlashingIsUnderWay
BY DEF DlgIInv, DlgCounts, Dlg!OneFlashPerConsent, Dlg!FlashingIsUnderWay

-----------------------------------------------------------------------------
(* Updates: a tosu swapped while it is paused, an app mark a restart clears *)

UpdFeeds == [serial : Nat, chan : Channels, tosu : Nat, app : Nat, offered : BOOLEAN]
TosuSteps == {"plan", "download", "pause", "stopping", "swap", "resume"}
TosuWorks == [at : TosuSteps, feed : UpdFeeds, asked : BOOLEAN]

UpdFiles ==
    /\ bundled \in [bin : Nat, rev : Nat, ver : Nat]
    /\ bundled.ver <= bundled.bin /\ bundled.ver <= bundled.rev
    /\ app \in [disk : Nat, runs : Nat]

UpdFed ==
    /\ served \in [Channels -> UpdFeeds]
    /\ feed # None => feed \in UpdFeeds
    /\ work.at \in TosuSteps => work \in TosuWorks
    /\ work.at = "app" => work.feed \in UpdFeeds
    /\ work.at = "fetch" => work.chan \in Channels
    /\ work.at \in {"mark", "apply", "record"} => work.to \in Nat
    /\ wanted \in [chan : Channels, told : BOOLEAN]

\* What is downloaded or swapped in is no older than the build VERSION names
NotBehind == work.at \in {"download", "pause", "stopping", "swap"} => bundled.ver <= work.feed.tosu

\* supervise() has a child in one place of its loop, and says so beforehand
Supervised ==
    /\ tosud \in [at : {"top", "found", "marked", "launch", "child", "backoff"}, child : Nat,
                  paused : BOOLEAN, stopped : BOOLEAN]
    /\ tosud.child # 0 => tosud.at = "child"
    /\ tosud.stopped => tosud.at \in {"top", "found", "backoff"}

\* It is paused from pause() to resume(), and once it has stopped it starts nothing
PausedWell ==
    /\ tosud.paused <=> work.at \in {"stopping", "swap", "resume"}
    /\ ~late => /\ work.at \in {"swap", "resume"} => tosud.at \in {"top", "found", "marked", "backoff"}
                /\ tosud.child # 0 => tosud.child = bundled.bin

UpdIInv == UpdFiles /\ UpdFed /\ NotBehind /\ Supervised /\ PausedWell

\* What SQLite is told of an install
UpdNoted ==
    umode \in {"idle", "map", "sync"} /\ inprog \in Nat /\ (result = None \/ result.to \in Nat)

LEMMA UpdInitial ==
    ASSUME Upd!UpdateInit
    PROVE  UpdIInv /\ UpdNoted
<1>0. UpdNoted
    BY DEF Upd!UpdateInit, UpdNoted
<1>1. UpdFiles
    BY DEF Upd!UpdateInit, UpdFiles
<1>2. UpdFed /\ NotBehind
    BY DEF Upd!UpdateInit, UpdFed, NotBehind, UpdFeeds, TosuSteps, Upd!Waiting
<1>3. Supervised /\ PausedWell
    BY DEF Upd!UpdateInit, Supervised, PausedWell, Upd!Waiting
<1>. QED BY <1>0, <1>1, <1>2, <1>3 DEF UpdIInv

LEMMA WaitingIs == Upd!Waiting.at = "wait"
BY DEF Upd!Waiting

\* A worker that goes on without tosu
LEMMA AfterIs ==
    ASSUME work \in TosuWorks
    PROVE  /\ Upd!After.at \in {"wait", "app"}
           /\ Upd!After.at = "app" => Upd!After.feed \in UpdFeeds
<1>1. work.feed \in UpdFeeds
    BY DEF TosuWorks
<1>. QED BY <1>1 DEF Upd!After, Upd!Waiting

\* The world, the checks and the app leave tosu and its files alone
LEMMA ElsewhereStep ==
    ASSUME UpdIInv, UNCHANGED <<bundled, tosud, late>>,
           app' \in [disk : Nat, runs : Nat], served' \in [Channels -> UpdFeeds],
           feed' # None => feed' \in UpdFeeds, wanted' \in [chan : Channels, told : BOOLEAN],
           \/ work' = work
           \/ /\ work.at \notin {"stopping", "swap", "resume"}
              /\ work'.at \in {"wait", "fetch", "plan", "app", "mark", "apply", "record"}
              /\ work'.at = "plan" => work' \in TosuWorks
              /\ work'.at = "app" => work'.feed \in UpdFeeds
              /\ work'.at = "fetch" => work'.chan \in Channels
              /\ work'.at \in {"mark", "apply", "record"} => work'.to \in Nat
    PROVE  UpdIInv'
<1>1. UpdFiles'
    BY DEF UpdIInv, UpdFiles
<1>2. UpdFed'
    BY DEF UpdIInv, UpdFed, TosuSteps
<1>3. NotBehind' /\ PausedWell'
    BY DEF UpdIInv, NotBehind, PausedWell
<1>4. Supervised'
    BY DEF UpdIInv, Supervised
<1>. QED BY <1>1, <1>2, <1>3, <1>4 DEF UpdIInv

\* A release of one component gives a feed
LEMMA ReleasedIs ==
    ASSUME NEW f \in UpdFeeds, NEW what \in {"tosu", "app"}, NEW offers \in BOOLEAN
    PROVE  Upd!Released(f, what, offers) \in UpdFeeds
<1> DEFINE g == [f EXCEPT ![what] = f[what] + 1]
           h == [g EXCEPT !.serial = g.serial + 1]
<1>1. g \in UpdFeeds
    BY DEF UpdFeeds
<1>2. Upd!Released(f, what, offers) = [h EXCEPT !.offered = offers]
    BY DEF UpdFeeds, Upd!Released
<1>3. g \in UpdFeeds => h \in UpdFeeds
    <2>. HIDE DEF g
    <2>. QED BY DEF UpdFeeds
<1>4. h \in UpdFeeds
    BY <1>1, <1>3
<1>5. [h EXCEPT !.offered = offers] \in UpdFeeds
    <2>. HIDE DEF h
    <2>. QED BY <1>4 DEF UpdFeeds
<1>. QED BY <1>2, <1>5

LEMMA WorldStep ==
    ASSUME UpdIInv,
           \/ \E c \in Channels : Upd!Publish(c) \/ Upd!SetChannel(c)
           \/ Upd!MapStarts \/ Upd!MapEnds \/ Upd!DayPasses \/ Upd!ForeignTosu
    PROVE  UpdIInv'
<1>1. UNCHANGED <<bundled, tosud, late, app, feed, work>>
    BY DEF Upd!Publish, Upd!SetChannel, Upd!MapStarts, Upd!MapEnds, Upd!DayPasses,
           Upd!ForeignTosu
<1>2. served' \in [Channels -> UpdFeeds]
    <2>1. ASSUME NEW c \in Channels, Upd!Publish(c) PROVE served' \in [Channels -> UpdFeeds]
        <3>1. PICK what \in {"tosu", "app"}, offers \in BOOLEAN :
                  served' = [served EXCEPT ![c] = Upd!Released(served[c], what, offers)]
            BY <2>1 DEF Upd!Publish
        <3>2. served[c] \in UpdFeeds
            BY DEF UpdIInv, UpdFed
        <3>3. Upd!Released(served[c], what, offers) \in UpdFeeds
            BY <3>2, ReleasedIs
        <3>. QED BY <3>1, <3>3 DEF UpdIInv, UpdFed
    <2>2. CASE UNCHANGED served
        BY <2>2 DEF UpdIInv, UpdFed
    <2>. QED BY <2>1, <2>2 DEF Upd!SetChannel, Upd!MapStarts, Upd!MapEnds, Upd!DayPasses,
                               Upd!ForeignTosu
<1>3. wanted' \in [chan : Channels, told : BOOLEAN]
    <2>1. wanted \in [chan : Channels, told : BOOLEAN]
        BY DEF UpdIInv, UpdFed
    <2>2. ASSUME NEW c \in Channels, Upd!SetChannel(c)
          PROVE  wanted' \in [chan : Channels, told : BOOLEAN]
        BY <2>2 DEF Upd!SetChannel
    <2>3. ASSUME NEW c \in Channels, Upd!Publish(c)
          PROVE  wanted' \in [chan : Channels, told : BOOLEAN]
        BY <2>1, <2>3 DEF Upd!Publish
    <2>. QED BY <2>1, <2>2, <2>3 DEF Upd!MapStarts, Upd!MapEnds, Upd!DayPasses, Upd!ForeignTosu
<1>. QED BY <1>1, <1>2, <1>3, ElsewhereStep DEF UpdIInv, UpdFiles, UpdFed

LEMMA CheckingStep ==
    ASSUME UpdIInv,
           \/ Upd!CheckStarts(FALSE) \/ Upd!CheckStarts(TRUE) \/ Upd!ChannelChanged
           \/ Upd!InstallTosu \/ Upd!CheckApp \/ Upd!MarkApp \/ Upd!RecordApp
           \/ \E ok \in BOOLEAN : Upd!InstallApp(ok)
    PROVE  UpdIInv'
<1>1. UNCHANGED <<bundled, tosud, late, app, served>>
    BY DEF Upd!CheckStarts, Upd!ChannelChanged, Upd!InstallTosu, Upd!CheckApp, Upd!MarkApp,
           Upd!RecordApp, Upd!InstallApp
<1>2. work.at \in {"wait", "app", "mark", "record"}
    BY DEF Upd!CheckStarts, Upd!ChannelChanged, Upd!InstallTosu, Upd!CheckApp, Upd!MarkApp,
           Upd!RecordApp, Upd!InstallApp
<1>3. feed' # None => feed' \in UpdFeeds
    BY DEF UpdIInv, UpdFed, Upd!CheckStarts, Upd!ChannelChanged, Upd!InstallTosu, Upd!CheckApp,
           Upd!MarkApp, Upd!RecordApp, Upd!InstallApp, Upd!store
<1>4. wanted' \in [chan : Channels, told : BOOLEAN]
    BY DEF UpdIInv, UpdFed, Upd!CheckStarts, Upd!ChannelChanged, Upd!InstallTosu, Upd!CheckApp,
           Upd!MarkApp, Upd!RecordApp, Upd!InstallApp
<1>5. /\ work'.at \in {"wait", "fetch", "plan", "app", "mark", "apply", "record"}
      /\ work'.at = "plan" => work' \in TosuWorks
      /\ work'.at = "app" => work'.feed \in UpdFeeds
      /\ work'.at = "fetch" => work'.chan \in Channels
      /\ work'.at \in {"mark", "apply", "record"} => work'.to \in Nat
    <2>1. CASE Upd!CheckStarts(FALSE) \/ Upd!CheckStarts(TRUE) \/ Upd!ChannelChanged
        <3>1. /\ work'.at \in {"wait", "fetch"}
              /\ work'.at = "fetch" => work'.chan = wanted.chan
            BY <2>1, WaitingIs DEF Upd!CheckStarts, Upd!ChannelChanged, Upd!Starts
        <3>. QED BY <3>1 DEF UpdIInv, UpdFed
    <2>2. CASE Upd!InstallTosu
        <3>1. work' = [at |-> "plan", feed |-> feed, asked |-> TRUE] /\ feed \in UpdFeeds
            BY <2>2 DEF UpdIInv, UpdFed, Upd!InstallTosu
        <3>. QED BY <3>1 DEF TosuWorks, TosuSteps
    <2>3. CASE Upd!CheckApp \/ Upd!RecordApp
        BY <2>3, WaitingIs DEF Upd!CheckApp, Upd!RecordApp
    <2>4. CASE \E ok \in BOOLEAN : Upd!InstallApp(ok)
        <3>1. feed \in UpdFeeds
            BY <2>4 DEF UpdIInv, UpdFed, Upd!InstallApp
        <3>2. work'.at \in {"wait", "mark"} /\ (work'.at = "mark" => work'.to = feed.app)
            BY <2>4, WaitingIs DEF Upd!InstallApp
        <3>. QED BY <3>1, <3>2 DEF UpdFeeds
    <2>5. CASE Upd!MarkApp
        <3>1. work' = [work EXCEPT !.at = "apply"] /\ work.at = "mark"
            BY <2>5 DEF Upd!MarkApp
        <3>2. work'.at = "apply" /\ work'.to = work.to
            BY <3>1
        <3>. QED BY <3>1, <3>2 DEF UpdIInv, UpdFed
    <2>. QED BY <2>1, <2>2, <2>3, <2>4, <2>5
<1>. QED BY <1>1, <1>2, <1>3, <1>4, <1>5, ElsewhereStep DEF UpdIInv, UpdFiles, UpdFed

LEMMA FetchedStep ==
    ASSUME UpdIInv, NEW ok \in BOOLEAN, Upd!Fetched(ok)
    PROVE  UpdIInv'
<1>1. UNCHANGED <<bundled, tosud, late, app, served, feed, wanted>> /\ work.at = "fetch"
    BY DEF Upd!Fetched
<1>2. served[work.chan] \in UpdFeeds
    BY <1>1 DEF UpdIInv, UpdFed
<1>3. Upd!ForInstall(served[work.chan]) \in UpdFeeds
    BY <1>2 DEF Upd!ForInstall, UpdFeeds
<1>4. \/ work' = Upd!Waiting
      \/ work' = [at |-> "plan", feed |-> Upd!ForInstall(served[work.chan]), asked |-> FALSE]
    BY DEF Upd!Fetched
<1>5. work'.at = "wait" \/ (work' \in TosuWorks /\ work'.at = "plan")
    <2> DEFINE g == Upd!ForInstall(served[work.chan])
    <2>1. work' = Upd!Waiting \/ work' = [at |-> "plan", feed |-> g, asked |-> FALSE]
        BY <1>4
    <2>2. g \in UpdFeeds
        BY <1>3
    <2>. HIDE DEF g
    <2>3. CASE work' = Upd!Waiting
        BY <2>3, WaitingIs
    <2>4. CASE work' = [at |-> "plan", feed |-> g, asked |-> FALSE]
        BY <2>2, <2>4 DEF TosuWorks, TosuSteps
    <2>. QED BY <2>1, <2>3, <2>4
<1>. QED BY <1>1, <1>5, ElsewhereStep DEF UpdIInv, UpdFiles, UpdFed

LEMMA ApplyStep ==
    ASSUME UpdIInv, NEW ok \in BOOLEAN, Upd!ApplyApp(ok)
    PROVE  UpdIInv'
<1>1. UNCHANGED <<bundled, tosud, late, served, feed, wanted>> /\ work.at = "apply"
    BY DEF Upd!ApplyApp, Upd!store
<1>2. work.to \in Nat
    BY <1>1 DEF UpdIInv, UpdFed
<1>3. app' \in [disk : Nat, runs : Nat]
    BY <1>2 DEF UpdIInv, UpdFiles, Upd!ApplyApp
<1>4. work'.at = "record" /\ work'.to = work.to
    BY DEF Upd!ApplyApp
<1>. QED BY <1>1, <1>2, <1>3, <1>4, ElsewhereStep DEF UpdIInv, UpdFed

\* The worker's way through a tosu update; only Pause and Resume touch the supervisor
LEMMA PlanStep ==
    ASSUME UpdIInv,
           Upd!PlanTosu \/ \E ok \in BOOLEAN : Upd!DownloadTosu(ok)
    PROVE  UpdIInv'
<1>1. /\ UNCHANGED <<bundled, tosud, late, app, served, feed, wanted>>
      /\ work.at \in {"plan", "download"}
    BY DEF Upd!PlanTosu, Upd!DownloadTosu
<1>2. work \in TosuWorks /\ work.feed \in UpdFeeds
    BY <1>1 DEF UpdIInv, UpdFed, TosuSteps, TosuWorks
<1>3. CASE work' = Upd!After
    <2>1. work'.at \in {"wait", "app"} /\ (work'.at = "app" => work'.feed \in UpdFeeds)
        BY <1>2, <1>3, AfterIs
    <2>. QED BY <1>1, <2>1, ElsewhereStep DEF UpdIInv, UpdFiles, UpdFed
<1>4. CASE /\ work'.at \in {"download", "pause"} /\ work' = [work EXCEPT !.at = work'.at]
           /\ bundled.ver <= work.feed.tosu
    <2>1. work' \in TosuWorks /\ work'.feed = work.feed
        BY <1>2, <1>4 DEF TosuWorks, TosuSteps
    <2>2. UpdFiles'
        BY <1>1 DEF UpdIInv, UpdFiles
    <2>3. UpdFed'
        BY <1>1, <1>4, <2>1 DEF UpdIInv, UpdFed
    <2>4. NotBehind'
        BY <1>1, <1>4, <2>1 DEF NotBehind
    <2>5. Supervised' /\ PausedWell'
        BY <1>1, <1>4 DEF UpdIInv, Supervised, PausedWell
    <2>. QED BY <2>2, <2>3, <2>4, <2>5 DEF UpdIInv
<1>5. CASE Upd!PlanTosu
    <2>1. CASE Upd!TosuPlan(work.feed) = "Install"
        <3>1. work.feed.tosu \in Nat /\ bundled.ver \in Nat
            BY <1>2 DEF UpdFeeds, UpdIInv, UpdFiles
        <3>2. bundled.ver <= work.feed.tosu
            BY <2>1, <3>1 DEF Upd!TosuPlan, Upd!NewerTosu
        <3>3. work' = [work EXCEPT !.at = "download"]
            BY <1>5, <2>1 DEF Upd!PlanTosu
        <3>4. work'.at = "download"
            BY <1>2, <3>3 DEF TosuWorks
        <3>. QED BY <1>4, <3>2, <3>3, <3>4
    <2>2. CASE Upd!TosuPlan(work.feed) # "Install"
        BY <1>3, <1>5, <2>2 DEF Upd!PlanTosu
    <2>. QED BY <2>1, <2>2
<1>6. ASSUME NEW ok \in BOOLEAN, Upd!DownloadTosu(ok) PROVE UpdIInv'
    <2>1. work' = Upd!After \/ work' = [work EXCEPT !.at = "pause"]
        BY <1>6 DEF Upd!DownloadTosu
    <2>2. work.at = "download"
        BY <1>6 DEF Upd!DownloadTosu
    <2>3. CASE work' = [work EXCEPT !.at = "pause"]
        <3>1. work'.at = "pause"
            BY <1>2, <2>3 DEF TosuWorks
        <3>2. bundled.ver <= work.feed.tosu
            BY <2>2 DEF UpdIInv, NotBehind
        <3>. QED BY <1>4, <2>3, <3>1, <3>2
    <2>. QED BY <1>3, <2>1, <2>3
<1>. QED BY <1>5, <1>6

\* pause(), which returns once tosu has stopped or the ten seconds are over
LEMMA PauseStep ==
    ASSUME UpdIInv, Upd!Pause \/ Upd!Stopped
    PROVE  UpdIInv'
<1>1. /\ UNCHANGED <<bundled, app, served, feed, wanted>>
      /\ work.at \in {"pause", "stopping"}
    BY DEF Upd!Pause, Upd!Stopped
<1>2. work \in TosuWorks
    BY <1>1 DEF UpdIInv, UpdFed, TosuSteps
<1>3. /\ work.at = "pause" => work' = [work EXCEPT !.at = "stopping"]
      /\ work.at = "stopping" => work' = [work EXCEPT !.at = "swap"]
    BY DEF Upd!Pause, Upd!Stopped
<1>4. /\ work' \in TosuWorks /\ work'.feed = work.feed
      /\ work.at = "pause" => work'.at = "stopping"
      /\ work.at = "stopping" => work'.at = "swap"
    BY <1>1, <1>2, <1>3 DEF TosuWorks, TosuSteps
<1>5. UpdFiles'
    BY <1>1 DEF UpdIInv, UpdFiles
<1>6. UpdFed'
    BY <1>1, <1>4 DEF UpdIInv, UpdFed
<1>7. NotBehind'
    BY <1>1, <1>4 DEF UpdIInv, NotBehind
<1>8. CASE Upd!Pause
    <2>1. tosud' = [tosud EXCEPT !.paused = TRUE] /\ late' = late /\ work.at = "pause"
        BY <1>8 DEF Upd!Pause
    <2>2. Supervised' /\ tosud'.paused /\ tosud'.child = tosud.child
        BY <2>1 DEF UpdIInv, Supervised
    <2>3. PausedWell'
        BY <1>1, <1>4, <2>1, <2>2 DEF UpdIInv, PausedWell
    <2>. QED BY <1>5, <1>6, <1>7, <2>2, <2>3 DEF UpdIInv
<1>9. CASE Upd!Stopped
    <2>1. tosud' = tosud /\ work.at = "stopping" /\ (~late' => ~late /\ tosud.stopped)
        BY <1>9 DEF Upd!Stopped
    <2>2. Supervised'
        BY <2>1 DEF UpdIInv, Supervised
    <2>3. PausedWell'
        BY <1>1, <1>4, <2>1 DEF UpdIInv, PausedWell, Supervised
    <2>. QED BY <1>5, <1>6, <1>7, <2>2, <2>3 DEF UpdIInv
<1>. QED BY <1>8, <1>9

\* The next file of the swap: those before it are of the new build
LEMMA SwapOne ==
    ASSUME UpdIInv, work.at = "swap",
           NEW first \in 1..3, Upd!SwapOrder[first] \in {"bin", "rev", "ver"},
           \A j \in 1..3 : j < first => bundled[Upd!SwapOrder[j]] = work.feed.tosu,
           bundled' = [bundled EXCEPT ![Upd!SwapOrder[first]] = work.feed.tosu]
    PROVE  UpdFiles' \/ app' # app
<1>1. work.feed.tosu \in Nat /\ bundled.ver <= work.feed.tosu
    BY DEF UpdIInv, UpdFed, TosuSteps, TosuWorks, UpdFeeds, NotBehind
<1>2. /\ bundled \in [bin : Nat, rev : Nat, ver : Nat]
      /\ bundled.ver <= bundled.bin /\ bundled.ver <= bundled.rev
    BY DEF UpdIInv, UpdFiles
<1>3. Upd!SwapOrder[1] = "bin" /\ Upd!SwapOrder[2] = "rev" /\ Upd!SwapOrder[3] = "ver"
    BY DEF Upd!SwapOrder
<1>4. CASE first = 1
    BY <1>1, <1>2, <1>3, <1>4 DEF UpdIInv, UpdFiles
<1>5. CASE first = 2
    BY <1>1, <1>2, <1>3, <1>5 DEF UpdIInv, UpdFiles
<1>6. CASE first = 3
    <2>1. bundled.bin = work.feed.tosu /\ bundled.rev = work.feed.tosu
        BY <1>3, <1>6
    <2>. QED BY <1>1, <1>2, <1>3, <1>6, <2>1 DEF UpdIInv, UpdFiles
<1>. QED BY <1>4, <1>5, <1>6

LEMMA SwapStep ==
    ASSUME UpdIInv, NEW ok \in BOOLEAN, Upd!Swap(ok)
    PROVE  UpdIInv'
<1>1. UNCHANGED <<tosud, late, app, served, feed, wanted>> /\ work.at = "swap"
    BY DEF Upd!Swap
<1>2. work \in TosuWorks /\ work.feed \in UpdFeeds
    BY <1>1 DEF UpdIInv, UpdFed, TosuSteps, TosuWorks
<1>3. CASE bundled' = bundled /\ work' = [work EXCEPT !.at = "resume"]
    <2>1. work' \in TosuWorks /\ work'.at = "resume"
        BY <1>2, <1>3 DEF TosuWorks, TosuSteps
    <2>2. UpdFiles' /\ NotBehind'
        BY <1>1, <1>3, <2>1 DEF UpdIInv, UpdFiles, NotBehind
    <2>3. UpdFed'
        BY <1>1, <2>1 DEF UpdIInv, UpdFed
    <2>4. Supervised' /\ PausedWell'
        BY <1>1, <1>3, <2>1 DEF UpdIInv, Supervised, PausedWell
    <2>. QED BY <2>2, <2>3, <2>4 DEF UpdIInv
<1>4. CASE ~(bundled' = bundled /\ work' = [work EXCEPT !.at = "resume"])
    <2> DEFINE written == {file \in {"bin", "rev", "ver"} : bundled[file] = work.feed.tosu}
               next == {i \in 1..3 : Upd!SwapOrder[i] \notin written}
               first == CHOOSE i \in next : \A j \in next : i <= j
    <2>1. /\ next # {} /\ work' = work
          /\ bundled' = [bundled EXCEPT ![Upd!SwapOrder[first]] = work.feed.tosu]
        BY <1>4 DEF Upd!Swap
    <2>2. \E i \in next : \A j \in next : i <= j
        <3>1. CASE 1 \in next
            BY <3>1
        <3>2. CASE 1 \notin next /\ 2 \in next
            BY <3>2
        <3>3. CASE 1 \notin next /\ 2 \notin next
            <4>1. 3 \in next
                BY <2>1, <3>3
            <4>. QED BY <3>3, <4>1
        <3>. QED BY <3>1, <3>2, <3>3
    <2>3. first \in next /\ \A j \in next : first <= j
        BY <2>2
    <2>4. first \in 1..3 /\ \A j \in 1..3 : j < first => j \notin next
        BY <2>3
    <2>. HIDE DEF first
    <2>5. Upd!SwapOrder[1] = "bin" /\ Upd!SwapOrder[2] = "rev" /\ Upd!SwapOrder[3] = "ver"
        BY DEF Upd!SwapOrder
    <2>6. \A j \in 1..3 : Upd!SwapOrder[j] \in {"bin", "rev", "ver"}
        BY <2>5
    <2>7. \A j \in 1..3 : j < first => bundled[Upd!SwapOrder[j]] = work.feed.tosu
        BY <2>4, <2>6
    <2>8. UpdFiles'
        BY <1>1, <2>1, <2>4, <2>6, <2>7, SwapOne
    <2>9. UpdFed'
        BY <1>1, <2>1 DEF UpdIInv, UpdFed
    <2>10. NotBehind'
        <3>1. bundled.ver <= work.feed.tosu /\ work.feed.tosu \in Nat
            BY <1>1, <1>2 DEF UpdIInv, NotBehind, UpdFeeds
        <3>2. bundled'.ver = bundled.ver \/ bundled'.ver = work.feed.tosu
            BY <2>1, <2>4, <2>6 DEF UpdIInv, UpdFiles
        <3>. QED BY <2>1, <3>1, <3>2 DEF NotBehind
    <2>11. Supervised'
        BY <1>1 DEF UpdIInv, Supervised
    <2>12. PausedWell'
        <3>1. ~late => tosud.child = 0
            BY <1>1 DEF UpdIInv, PausedWell, Supervised
        <3>. QED BY <1>1, <2>1, <3>1 DEF UpdIInv, PausedWell
    <2>. QED BY <2>8, <2>9, <2>10, <2>11, <2>12 DEF UpdIInv
<1>. QED BY <1>3, <1>4

LEMMA ResumeStep ==
    ASSUME UpdIInv, Upd!Resume
    PROVE  UpdIInv'
<1>1. /\ UNCHANGED <<bundled, late, app, served, feed, wanted>> /\ work.at = "resume"
      /\ tosud' = [tosud EXCEPT !.paused = FALSE] /\ work' = Upd!After
    BY DEF Upd!Resume
<1>2. work \in TosuWorks
    BY <1>1 DEF UpdIInv, UpdFed, TosuSteps
<1>3. work'.at \in {"wait", "app"} /\ (work'.at = "app" => work'.feed \in UpdFeeds)
    BY <1>1, <1>2, AfterIs
<1>4. UpdFiles' /\ NotBehind'
    BY <1>1, <1>3 DEF UpdIInv, UpdFiles, NotBehind
<1>5. UpdFed'
    BY <1>1, <1>3 DEF UpdIInv, UpdFed, TosuSteps
<1>6. Supervised' /\ ~tosud'.paused /\ tosud'.child = tosud.child
    BY <1>1 DEF UpdIInv, Supervised
<1>7. PausedWell'
    BY <1>1, <1>3, <1>6 DEF UpdIInv, PausedWell
<1>. QED BY <1>4, <1>5, <1>6, <1>7 DEF UpdIInv

\* supervise() starts the binary on disk, and nothing while it is paused
LEMMA SuperviseStep ==
    ASSUME UpdIInv,
           \/ Upd!SupLooks \/ Upd!SupMarks \/ Upd!SupReadsAgain \/ Upd!SupReaps
           \/ Upd!SupBackoffOver \/ \E ok \in BOOLEAN : Upd!SupLaunches(ok)
    PROVE  UpdIInv'
<1>1. UNCHANGED <<bundled, late, app, served, feed, wanted, work>>
    BY DEF Upd!SupLooks, Upd!SupMarks, Upd!SupReadsAgain, Upd!SupReaps, Upd!SupBackoffOver,
           Upd!SupLaunches, Upd!Rest
<1>2. tosud \in [at : {"top", "found", "marked", "launch", "child", "backoff"}, child : Nat,
                 paused : BOOLEAN, stopped : BOOLEAN]
    BY DEF UpdIInv, Supervised
<1> DEFINE Goes ==
        /\ Supervised' /\ tosud'.paused = tosud.paused
        /\ tosud'.child # 0 => tosud'.child = bundled.bin \/ tosud'.child = tosud.child
        /\ tosud.paused /\ tosud.at \in {"top", "found", "marked", "backoff"}
              => tosud'.at \in {"top", "found", "marked", "backoff"}
<1>3. Goes
    <2>0. bundled.bin \in Nat
        BY DEF UpdIInv, UpdFiles
    <2>1. CASE Upd!SupLooks
        BY <1>2, <2>1 DEF UpdIInv, Supervised, Upd!SupLooks, Upd!Sup
    <2>2. CASE Upd!SupMarks
        BY <1>2, <2>2 DEF UpdIInv, Supervised, Upd!SupMarks, Upd!Sup, Upd!Marks
    <2>3. CASE Upd!SupReadsAgain
        BY <1>2, <2>3 DEF UpdIInv, Supervised, Upd!SupReadsAgain, Upd!Sup
    <2>4. CASE Upd!SupReaps
        BY <1>2, <2>4 DEF UpdIInv, Supervised, Upd!SupReaps, Upd!Sup
    <2>5. CASE Upd!SupBackoffOver
        BY <1>2, <2>5 DEF UpdIInv, Supervised, Upd!SupBackoffOver, Upd!Sup
    <2>6. ASSUME NEW ok \in BOOLEAN, Upd!SupLaunches(ok) PROVE Goes
        BY <1>2, <2>0, <2>6 DEF UpdIInv, Supervised, Upd!SupLaunches, Upd!Sup
    <2>. QED BY <2>1, <2>2, <2>3, <2>4, <2>5, <2>6
<1>4. UpdFiles' /\ UpdFed' /\ NotBehind'
    BY <1>1 DEF UpdIInv, UpdFiles, UpdFed, NotBehind
<1>5. PausedWell'
    BY <1>1, <1>3 DEF UpdIInv, PausedWell
<1>. QED BY <1>3, <1>4, <1>5 DEF UpdIInv

LEMMA RestartStep ==
    ASSUME UpdIInv, Upd!Restart
    PROVE  UpdIInv'
<1>1. /\ UNCHANGED <<bundled, served>> /\ work' = Upd!Waiting /\ feed' = None /\ ~late'
      /\ wanted' = [wanted EXCEPT !.told = FALSE]
      /\ tosud' = [at |-> "top", child |-> 0, paused |-> FALSE, stopped |-> TRUE]
      /\ app' = [app EXCEPT !.runs = app.disk]
    BY DEF Upd!Restart
<1>2. UpdFiles'
    BY <1>1 DEF UpdIInv, UpdFiles
<1>3. wanted' \in [chan : Channels, told : BOOLEAN]
    BY <1>1 DEF UpdIInv, UpdFed
<1>4. UpdFed' /\ NotBehind'
    BY <1>1, <1>3, WaitingIs DEF UpdIInv, UpdFed, NotBehind, TosuSteps
<1>5. Supervised' /\ PausedWell'
    BY <1>1, WaitingIs DEF Supervised, PausedWell
<1>. QED BY <1>2, <1>4, <1>5 DEF UpdIInv

LEMMA UpdStep == UpdIInv /\ [Upd!UpdateNext]_uvars => UpdIInv'
<1>. SUFFICES ASSUME UpdIInv, [Upd!UpdateNext]_uvars PROVE UpdIInv'
    OBVIOUS
<1>1. CASE UNCHANGED uvars
    BY <1>1 DEF uvars, UpdIInv, UpdFiles, UpdFed, NotBehind, Supervised, PausedWell
<1>2. CASE Upd!UpdateNext
    BY <1>2, WorldStep, CheckingStep, FetchedStep, ApplyStep, PlanStep, PauseStep, SwapStep,
       ResumeStep, SuperviseStep, RestartStep
    DEF Upd!UpdateNext, Upd!Supervise
<1>. QED BY <1>1, <1>2

LEMMA UpdNotedStep == UpdIInv /\ UpdNoted /\ [Upd!UpdateNext]_uvars => UpdNoted'
<1>. SUFFICES ASSUME UpdIInv, UpdNoted, [Upd!UpdateNext]_uvars PROVE UpdNoted'
    OBVIOUS
<1>1. CASE Upd!MapStarts \/ Upd!MapEnds
    BY <1>1 DEF UpdNoted, Upd!store, Upd!MapStarts, Upd!MapEnds
<1>2. CASE Upd!MarkApp
    BY <1>2 DEF UpdIInv, UpdFed, UpdNoted, Upd!MarkApp
<1>3. CASE Upd!RecordApp
    <2>1. work.to \in Nat /\ umode' = umode
        BY <1>3 DEF UpdIInv, UpdFed, Upd!RecordApp
    <2>2. CASE result' = [to |-> work.to, ok |-> work.ok] /\ inprog' = 0
        <3>1. result'.to = work.to
            BY <2>2
        <3>. QED BY <2>1, <2>2, <3>1 DEF UpdNoted
    <2>3. CASE UNCHANGED <<inprog, result>>
        BY <2>1, <2>3 DEF UpdNoted
    <2>. QED BY <1>3, <2>2, <2>3 DEF Upd!RecordApp, Upd!Records
<1>4. CASE Upd!Restart
    <2>1. umode' = "idle" /\ inprog' = 0
        BY <1>4 DEF Upd!Restart
    <2>2. CASE inprog = 0
        BY <1>4, <2>1, <2>2 DEF UpdNoted, Upd!Restart
    <2>3. CASE inprog # 0
        <3>1. result' = [to |-> inprog, ok |-> app.disk = inprog]
            BY <1>4, <2>3 DEF Upd!Restart, Upd!ResolveInterrupted
        <3>2. result'.to = inprog
            BY <3>1
        <3>. QED BY <2>1, <3>2 DEF UpdNoted
    <2>. QED BY <2>2, <2>3
<1>5. CASE UNCHANGED <<umode, inprog, result>>
    BY <1>5 DEF UpdNoted
<1>. QED BY <1>1, <1>2, <1>3, <1>4, <1>5
     DEF uvars, Upd!UpdateNext, Upd!Supervise, Upd!store, Upd!Rest, Upd!Publish,
         Upd!SetChannel, Upd!DayPasses, Upd!CheckStarts, Upd!ChannelChanged, Upd!Fetched,
         Upd!DownloadTosu, Upd!Swap, Upd!InstallApp, Upd!ApplyApp, Upd!InstallTosu,
         Upd!PlanTosu, Upd!Pause, Upd!Stopped, Upd!Resume, Upd!SupLooks, Upd!SupMarks,
         Upd!SupReadsAgain, Upd!SupLaunches, Upd!SupReaps, Upd!SupBackoffOver,
         Upd!ForeignTosu, Upd!CheckApp

LEMMA UpdTyped == UpdIInv /\ UpdNoted => Upd!UpdateTypeOK
BY DEF UpdIInv, UpdNoted, UpdFiles, UpdFed, Supervised, Upd!UpdateTypeOK

LEMMA UpdIs == UpdIInv => Upd!TosuIsTheOneInstalled /\ Upd!VersionIsOnDisk
BY DEF UpdIInv, UpdFiles, Supervised, PausedWell, Upd!TosuIsTheOneInstalled,
       Upd!VersionIsOnDisk

\* Only a restart clears the mark of an install without its result, and it asks
\* the version that runs then
LEMMA ResultStep == UpdIInv /\ [Upd!UpdateNext]_uvars => Upd!ResultIsTrue
<1>. SUFFICES ASSUME UpdIInv, [Upd!UpdateNext]_uvars,
                     inprog # 0, inprog' = 0, work' = Upd!Waiting, work.at # "record"
              PROVE  result'.ok <=> app'.runs = result'.to
    BY DEF Upd!ResultIsTrue
<1>1. Upd!Restart
    <2>1. Upd!UpdateNext
        BY DEF uvars
    <2>2. ASSUME Upd!MarkApp PROVE FALSE
        <3>1. work' = [work EXCEPT !.at = "apply"] /\ (inprog' = inprog \/ inprog' = work.to)
            BY <2>2 DEF Upd!MarkApp
        <3>. QED BY <2>2, WaitingIs DEF Upd!MarkApp
    <2>. QED BY <2>1, <2>2
         DEF Upd!UpdateNext, Upd!Supervise, Upd!store, Upd!Rest, Upd!Publish, Upd!SetChannel,
             Upd!MapStarts, Upd!MapEnds, Upd!DayPasses, Upd!CheckStarts, Upd!ChannelChanged,
             Upd!Fetched, Upd!DownloadTosu, Upd!Swap, Upd!InstallApp, Upd!ApplyApp,
             Upd!InstallTosu, Upd!PlanTosu, Upd!Pause, Upd!Stopped, Upd!Resume, Upd!SupLooks,
             Upd!SupMarks, Upd!SupReadsAgain, Upd!SupLaunches, Upd!SupReaps,
             Upd!SupBackoffOver, Upd!ForeignTosu, Upd!CheckApp, Upd!RecordApp
<1>2. result' = [to |-> inprog, ok |-> app.disk = inprog]
    BY <1>1 DEF Upd!Restart, Upd!ResolveInterrupted
<1>3. app'.runs = app.disk
    BY <1>1 DEF Upd!Restart, UpdIInv, UpdFiles
<1>4. result'.ok = (app.disk = inprog) /\ result'.to = inprog
    BY <1>2
<1>. QED BY <1>3, <1>4

-----------------------------------------------------------------------------
(* Plays: what an attempt counts was pressed in it *)

TapAttempts == Tap!Attempts

TapHolds == attempt \in TapAttempts \cup {None} /\ ended \subseteq TapAttempts

TapHeard ==
    /\ source \in {"undecided", "pad", "tosu"} /\ pending \in 0 .. TosuOnly - 1
    /\ lastKeys \in Nat \cup {None} /\ since \in Nat /\ no \in Nat /\ wire \in Seq(Nat)

TapGame ==
    /\ game = [on |-> game.on, who |-> game.who, failed |-> game.failed, keys |-> game.keys,
               results |-> game.results]
    /\ game.who \in Tap!Players /\ game.keys \in Nat /\ game.results \in BOOLEAN

TapFlags == playing \in BOOLEAN /\ armed \in BOOLEAN /\ onResults \in BOOLEAN /\ earned \in Int

TapTyped == TapHolds /\ TapHeard /\ TapGame /\ TapFlags

\* Presses under way are of this attempt or of earlier ones
TapSent == \A i \in DOMAIN wire : wire[i] <= no

\* What the pad has counted and what is under way to it were pressed in the
\* attempt; tosu's counts are taken only where no pad could tell, or the game
\* plays itself
TapOwn ==
    attempt # None =>
        /\ attempt.who = "other" => attempt.replay
        /\ \/ attempt.blind \/ attempt.replay
           \/ source # "tosu" /\ attempt.n + Cardinality(Tap!OfThis(wire)) <= attempt.own

\* A play that may be celebrated still was not celebrated before
TapEarned ==
    /\ earned >= 0
    /\ playing \/ (armed /\ ~onResults) => earned >= 1

TapIInv == TapTyped /\ TapSent /\ TapOwn /\ TapEarned /\ Tap!HistoryIsYours

LEMMA TapCounts ==
    ASSUME TapTyped, NEW w \in Seq(Nat), NEW m \in Nat
    PROVE  LET S == {i \in DOMAIN w : w[i] = m}
           IN  /\ Tap!Cardinality(S) = Cardinality(S) /\ Cardinality(S) \in Nat
               /\ LET T == {i \in DOMAIN Append(w, m) : Append(w, m)[i] = m}
                  IN  Cardinality(T) = Cardinality(S) + 1
<1> DEFINE S == {i \in DOMAIN w : w[i] = m}
           v == Append(w, m)
           T == {i \in DOMAIN v : v[i] = m}
<1>1. DOMAIN w = 1 .. Len(w) /\ Len(w) \in Nat
    OBVIOUS
<1>2. IsFiniteSet(1 .. Len(w))
    BY <1>1, FS_Interval
<1>3. IsFiniteSet(S)
    BY <1>1, <1>2, FS_Subset
<1>4. Cardinality(S) \in Nat
    BY <1>3, FS_CardinalityType
<1>5. DOMAIN v = 1 .. (Len(w) + 1) /\ v[Len(w) + 1] = m /\ \A i \in 1 .. Len(w) : v[i] = w[i]
    OBVIOUS
<1>. HIDE DEF v
<1>6. T = S \cup {Len(w) + 1} /\ (Len(w) + 1) \notin S
    BY <1>1, <1>5
<1>. HIDE DEF S, T
<1>7. Cardinality(T) = Cardinality(S) + 1
    BY <1>3, <1>4, <1>6, FS_AddElement
<1>8. Tap!Cardinality(S) = Cardinality(S)
    BY DEF Tap!Cardinality, Cardinality
<1>. QED BY <1>4, <1>7, <1>8 DEF S, T, v

\* What is under way is counted
TapWay == Cardinality(Tap!OfThis(wire))

LEMMA TapWayIs ==
    ASSUME TapTyped
    PROVE  TapWay \in Nat /\ Tap!Cardinality(Tap!OfThis(wire)) = TapWay
BY TapCounts DEF TapTyped, TapHolds, TapHeard, TapGame, TapFlags, TapWay, Tap!OfThis

LEMMA TapNoWay ==
    ASSUME NEW S, \A i \in S : FALSE
    PROVE  Cardinality(S) = 0
<1>1. S = {}
    OBVIOUS
<1>. QED BY <1>1, FS_EmptySet

\* An attempt that is finished goes to the history only with presses of its own
LEMMA TapFinishes ==
    ASSUME TapIInv
    PROVE  /\ Tap!Finished(attempt) \subseteq TapAttempts
           /\ \A a \in Tap!Finished(attempt) : a.who # "other" /\ (a.blind \/ a.n <= a.own)
<1>1. ended \subseteq TapAttempts /\ attempt \in TapAttempts \cup {None} /\ TapWay \in Nat
    BY TapWayIs DEF TapIInv, TapTyped, TapHolds, TapHeard, TapGame, TapFlags
<1>2. \A a \in ended : a.who # "other" /\ (a.blind \/ a.n <= a.own)
    BY DEF TapIInv, Tap!HistoryIsYours
<1>3. ASSUME attempt # None, ~attempt.replay
      PROVE  attempt \in TapAttempts /\ attempt.who # "other" /\ (attempt.blind \/ attempt.n <= attempt.own)
    <2>1. attempt \in TapAttempts /\ attempt.n \in Nat /\ attempt.own \in Nat
        BY <1>1, <1>3 DEF TapAttempts, Tap!Attempts
    <2>2. attempt.who # "other"
        BY <1>3 DEF TapIInv, TapOwn
    <2>3. attempt.blind \/ attempt.n + TapWay <= attempt.own
        BY <1>3 DEF TapIInv, TapOwn, TapWay
    <2>4. attempt.blind \/ attempt.n <= attempt.own
        BY <1>1, <2>1, <2>3
    <2>. QED BY <2>1, <2>2, <2>4
<1>. QED BY <1>1, <1>2, <1>3 DEF Tap!Finished, Tap!Recordable

LEMMA TapInitial ==
    ASSUME Tap!TapInit
    PROVE  TapIInv
<1>1. /\ game = [on |-> FALSE, who |-> "me", failed |-> "no", keys |-> 0, results |-> FALSE]
      /\ wire = <<>> /\ playing = FALSE /\ no = 0 /\ lastKeys = None /\ attempt = None
      /\ source = "undecided" /\ pending = 0 /\ ended = {} /\ armed = FALSE /\ onResults = FALSE
      /\ since = 0 /\ earned = 0
    BY DEF Tap!TapInit
<1>2. pending \in 0 .. TosuOnly - 1
    BY <1>1, TapAssumption DEF TapAssumption, Tap!TapConstants
<1>3. TapTyped
    <2>1. TapHolds
        BY <1>1 DEF TapHolds
    <2>4. TapFlags
        <3>1. FALSE \in BOOLEAN /\ 0 \in Int
            OBVIOUS
        <3>2. earned \in Int
            BY <1>1
        <3>3. playing \in BOOLEAN /\ armed \in BOOLEAN /\ onResults \in BOOLEAN
            BY <1>1, Zenon
        <3>. QED BY <3>2, <3>3, Zenon DEF TapFlags
    <2>2. TapHeard
        BY <1>1, <1>2 DEF TapHeard
    <2>3. TapGame
        BY <1>1 DEF TapGame, Tap!Players
    <2>. QED BY <2>1, <2>2, <2>3, <2>4 DEF TapTyped
<1>4. TapSent
    BY <1>1 DEF TapSent
<1>. QED BY <1>1, <1>3, <1>4 DEF TapIInv, TapOwn, TapEarned, Tap!HistoryIsYours

\* What osu!, the player and the connections do leaves the daemon alone
LEMMA TapAround ==
    ASSUME TapIInv, UNCHANGED <<attempt, ended, source, pending, lastKeys, no, playing, armed, onResults, earned>>,
           wire' = wire \/ wire' = <<>>, since' \in Nat,
           game' = [on |-> game'.on, who |-> game'.who, failed |-> game'.failed, keys |-> game'.keys,
                    results |-> game'.results],
           game'.who \in Tap!Players, game'.keys \in Nat, game'.results \in BOOLEAN
    PROVE  TapIInv'
<1>1. TapTyped /\ TapWay \in Nat
    BY TapWayIs DEF TapIInv
<1>2. TapTyped'
    <2>1. TapHolds'
        BY <1>1 DEF TapTyped, TapHolds, TapAttempts, Tap!Attempts, Tap!Players
    <2>2. TapHeard'
        <3>1. wire' \in Seq(Nat)
            <4>1. wire \in Seq(Nat) /\ <<>> \in Seq(Nat)
                BY <1>1 DEF TapTyped, TapHeard
            <4>. QED BY <4>1
        <3>. QED BY <1>1, <3>1 DEF TapTyped, TapHeard
    <2>3. TapGame'
        BY DEF TapGame, Tap!Players
    <2>4. TapFlags'
        BY <1>1 DEF TapTyped, TapFlags
    <2>. QED BY <2>1, <2>2, <2>3, <2>4 DEF TapTyped
<1>3. TapSent'
    BY DEF TapIInv, TapSent
<1>4. TapWay' \in Nat /\ TapWay' <= TapWay
    <2>1. CASE wire' = wire
        BY <1>1, <2>1 DEF TapWay, Tap!OfThis
    <2>2. CASE wire' = <<>>
        <3>1. \A i \in Tap!OfThis(wire') : FALSE
            BY <2>2 DEF Tap!OfThis
        <3>. QED BY <1>1, <3>1, TapNoWay DEF TapWay, Tap!OfThis
    <2>. QED BY <2>1, <2>2
<1>5. TapOwn'
    <2>1. attempt # None => attempt.n \in Nat /\ attempt.own \in Nat
        BY <1>1 DEF TapTyped, TapHolds, TapHeard, TapGame, TapFlags, TapAttempts, Tap!Attempts
    <2>2. attempt # None => /\ attempt.who = "other" => attempt.replay
                            /\ \/ attempt.blind \/ attempt.replay
                               \/ source # "tosu" /\ attempt.n + TapWay <= attempt.own
        BY DEF TapIInv, TapOwn, TapWay
    <2>3. attempt # None => /\ attempt.who = "other" => attempt.replay
                            /\ \/ attempt.blind \/ attempt.replay
                               \/ source # "tosu" /\ attempt.n + TapWay' <= attempt.own
        BY <1>1, <1>4, <2>1, <2>2
    <2>. QED BY <2>3 DEF TapOwn, TapWay
<1>6. TapEarned' /\ Tap!HistoryIsYours'
    BY DEF TapIInv, TapEarned, Tap!HistoryIsYours
<1>. QED BY <1>2, <1>3, <1>5, <1>6 DEF TapIInv

LEMMA TapOutside ==
    ASSUME TapIInv,
           \/ \E who \in Tap!Players : Tap!PlayStart(who)
           \/ \E seen \in BOOLEAN : Tap!Retry(seen)
           \/ Tap!Fail \/ Tap!FailFlagDrops \/ Tap!PlayEnds \/ Tap!ResultsScreen
           \/ Tap!ReplayTap \/ Tap!PadChanges \/ Tap!TosuReturns
    PROVE  TapIInv'
<1>1. /\ game = [on |-> game.on, who |-> game.who, failed |-> game.failed, keys |-> game.keys,
                 results |-> game.results]
      /\ game.who \in Tap!Players /\ game.keys \in Nat /\ game.results \in BOOLEAN
      /\ since \in Nat
    BY DEF TapIInv, TapTyped, TapHolds, TapHeard, TapGame, TapFlags
<1>2. ASSUME NEW o, NEW w \in Tap!Players, NEW f, NEW k \in Nat, NEW r \in BOOLEAN,
             game' = [on |-> o, who |-> w, failed |-> f, keys |-> k, results |-> r]
      PROVE  /\ game' = [on |-> game'.on, who |-> game'.who, failed |-> game'.failed, keys |-> game'.keys,
                         results |-> game'.results]
             /\ game'.who \in Tap!Players /\ game'.keys \in Nat /\ game'.results \in BOOLEAN
    BY <1>2
<1>3. ASSUME NEW who \in Tap!Players, Tap!PlayStart(who) PROVE TapIInv'
    <2>1. game' = [on |-> TRUE, who |-> who, failed |-> IF game.failed = "yes" THEN "stale" ELSE game.failed,
                   keys |-> 0, results |-> FALSE]
        BY <1>1, <1>3 DEF Tap!PlayStart
    <2>. QED BY <1>2, <1>3, <2>1, TapAround DEF Tap!PlayStart, Tap!host
<1>4. ASSUME NEW seen \in BOOLEAN, Tap!Retry(seen) PROVE TapIInv'
    <2>1. game' = [on |-> game.on, who |-> game.who,
                   failed |-> IF game.failed = "yes" THEN "stale" ELSE game.failed,
                   keys |-> 0, results |-> game.results]
        BY <1>1, <1>4 DEF Tap!Retry
    <2>. QED BY <1>1, <1>2, <1>4, <2>1, TapAround DEF Tap!Retry, Tap!host
<1>5. CASE Tap!Fail
    <2>1. game' = [on |-> game.on, who |-> game.who, failed |-> "yes", keys |-> game.keys, results |-> game.results]
        BY <1>1, <1>5 DEF Tap!Fail
    <2>. QED BY <1>1, <1>2, <1>5, <2>1, TapAround DEF Tap!Fail, Tap!host
<1>6. CASE Tap!FailFlagDrops
    <2>1. game' = [on |-> game.on, who |-> game.who, failed |-> "no", keys |-> game.keys, results |-> game.results]
        BY <1>1, <1>6 DEF Tap!FailFlagDrops
    <2>. QED BY <1>1, <1>2, <1>6, <2>1, TapAround DEF Tap!FailFlagDrops, Tap!host
<1>7. CASE Tap!PlayEnds
    <2>1. game' = [on |-> FALSE, who |-> game.who, failed |-> game.failed, keys |-> game.keys,
                   results |-> (game.failed # "yes")]
        BY <1>1, <1>7 DEF Tap!PlayEnds
    <2>. QED BY <1>1, <1>2, <1>7, <2>1, TapAround DEF Tap!PlayEnds, Tap!host
<1>8. CASE Tap!ResultsScreen
    <2>1. game' = [on |-> game.on, who |-> game.who, failed |-> game.failed, keys |-> game.keys,
                   results |-> ~game.results]
        BY <1>1, <1>8 DEF Tap!ResultsScreen
    <2>. QED BY <1>1, <1>2, <1>8, <2>1, TapAround DEF Tap!ResultsScreen, Tap!host
<1>9. CASE Tap!ReplayTap
    <2>1. game' = [on |-> game.on, who |-> game.who, failed |-> game.failed, keys |-> game.keys + 1,
                   results |-> game.results]
        BY <1>1, <1>9 DEF Tap!ReplayTap
    <2>. QED BY <1>1, <1>2, <1>9, <2>1, TapAround DEF Tap!ReplayTap, Tap!host
<1>10. CASE Tap!PadChanges \/ Tap!TosuReturns
    BY <1>1, <1>10, TapAround DEF Tap!PadChanges, Tap!TosuReturns, Tap!host
<1>. QED BY <1>3, <1>4, <1>5, <1>6, <1>7, <1>8, <1>9, <1>10

\* A press is the attempt's own before it is under way
LEMMA TapTaps ==
    ASSUME TapIInv, Tap!Tap
    PROVE  TapIInv'
<1>1. TapTyped /\ TapWay \in Nat
    BY TapWayIs DEF TapIInv
<1>2. /\ since' = since + 1
      /\ attempt' = IF attempt = None THEN None ELSE [attempt EXCEPT !.own = @ + 1]
      /\ game' = IF game.on /\ game.who = "me" THEN [game EXCEPT !.keys = @ + 1] ELSE game
      /\ wire' = IF timed THEN Append(wire, no) ELSE wire
      /\ UNCHANGED <<earned, playing, no, lastKeys, source, pending, ended, armed, onResults>>
    BY DEF Tap!Tap
<1>3. ASSUME attempt # None
      PROVE  /\ attempt' \in TapAttempts /\ attempt'.own = attempt.own + 1 /\ attempt'.n = attempt.n
             /\ attempt'.who = attempt.who /\ attempt'.replay = attempt.replay
             /\ attempt'.blind = attempt.blind /\ attempt.n \in Nat /\ attempt.own \in Nat
    <2>1. attempt \in [n : Nat, replay : BOOLEAN, who : Tap!Players, own : Nat, blind : BOOLEAN]
        BY <1>1, <1>3 DEF TapTyped, TapHolds, TapHeard, TapGame, TapFlags, TapAttempts, Tap!Attempts
    <2>2. attempt' = [attempt EXCEPT !.own = @ + 1]
        BY <1>2, <1>3
    <2>. QED BY <2>1, <2>2 DEF TapAttempts, Tap!Attempts
<1>4. TapTyped'
    <2>1. attempt' \in TapAttempts' \cup {None}
        BY <1>2, <1>3 DEF TapAttempts, Tap!Attempts, Tap!Players
    <2>2. ended' \subseteq TapAttempts'
        BY <1>1, <1>2 DEF TapTyped, TapHolds, TapHeard, TapGame, TapFlags, TapAttempts, Tap!Attempts, Tap!Players
    <2>3. wire' \in Seq(Nat)
        BY <1>1, <1>2 DEF TapTyped, TapHolds, TapHeard, TapGame, TapFlags
    <2>4. /\ game' = [on |-> game'.on, who |-> game'.who, failed |-> game'.failed, keys |-> game'.keys,
                      results |-> game'.results]
          /\ game'.who \in Tap!Players /\ game'.keys \in Nat /\ game'.results \in BOOLEAN
        <3>1. CASE game' = game
            BY <1>1, <3>1 DEF TapTyped, TapHolds, TapHeard, TapGame, TapFlags
        <3>2. CASE game' = [game EXCEPT !.keys = @ + 1]
            <4>1. game = [on |-> game.on, who |-> game.who, failed |-> game.failed, keys |-> game.keys,
                          results |-> game.results]
                BY <1>1 DEF TapTyped, TapHolds, TapHeard, TapGame, TapFlags
            <4>2. game' = [on |-> game.on, who |-> game.who, failed |-> game.failed, keys |-> game.keys + 1,
                           results |-> game.results]
                BY <3>2, <4>1
            <4>. QED BY <1>1, <4>2 DEF TapTyped, TapHolds, TapHeard, TapGame, TapFlags
        <3>. QED BY <1>2, <3>1, <3>2
    <2>5. TapHolds'
        BY <2>1, <2>2 DEF TapHolds
    <2>6. TapHeard'
        BY <1>1, <1>2, <2>3 DEF TapTyped, TapHeard
    <2>7. TapGame'
        BY <2>4 DEF TapGame, Tap!Players
    <2>8. TapFlags'
        BY <1>1, <1>2 DEF TapTyped, TapFlags
    <2>. QED BY <2>5, <2>6, <2>7, <2>8 DEF TapTyped
<1>5. TapSent'
    <2>1. wire \in Seq(Nat) /\ no \in Nat /\ \A i \in 1 .. Len(wire) : wire[i] <= no
        BY <1>1 DEF TapIInv, TapTyped, TapHolds, TapHeard, TapGame, TapFlags, TapSent
    <2>2. CASE wire' = Append(wire, no)
        <3>1. DOMAIN wire' = 1 .. (Len(wire) + 1) /\ wire'[Len(wire) + 1] = no
              /\ \A i \in 1 .. Len(wire) : wire'[i] = wire[i]
            BY <2>1, <2>2
        <3>2. \A i \in 1 .. (Len(wire) + 1) : i \in 1 .. Len(wire) \/ i = Len(wire) + 1
            BY <2>1
        <3>. QED BY <1>2, <2>1, <3>1, <3>2 DEF TapSent
    <2>3. CASE wire' = wire
        BY <1>2, <2>1, <2>3 DEF TapSent
    <2>. QED BY <1>2, <2>2, <2>3
<1>6. TapWay' \in Nat /\ TapWay' <= TapWay + 1
    <2>1. wire \in Seq(Nat) /\ no \in Nat
        BY <1>1 DEF TapTyped, TapHolds, TapHeard, TapGame, TapFlags
    <2>2. CASE wire' = Append(wire, no)
        <3>1. TapWay = Cardinality({i \in DOMAIN wire : wire[i] = no})
            BY DEF TapWay, Tap!OfThis
        <3>2. TapWay' = Cardinality({i \in DOMAIN Append(wire, no) : Append(wire, no)[i] = no})
            BY <1>2, <2>2 DEF TapWay, Tap!OfThis
        <3>3. TapWay' = TapWay + 1
            BY <1>1, <2>1, <3>1, <3>2, TapCounts
        <3>. QED BY <1>1, <3>3
    <2>3. CASE wire' = wire
        <3>1. TapWay' = TapWay
            BY <1>2, <2>3 DEF TapWay, Tap!OfThis
        <3>. QED BY <1>1, <3>1
    <2>. QED BY <1>2, <2>2, <2>3
<1>7. TapOwn'
    <2>1. attempt # None => /\ attempt.who = "other" => attempt.replay
                            /\ \/ attempt.blind \/ attempt.replay
                               \/ source # "tosu" /\ attempt.n + TapWay <= attempt.own
        BY DEF TapIInv, TapOwn, TapWay
    <2>2. attempt' # None => attempt # None
        BY <1>2
    <2>3. attempt' # None => /\ attempt'.who = "other" => attempt'.replay
                             /\ \/ attempt'.blind \/ attempt'.replay
                                \/ source' # "tosu" /\ attempt'.n + TapWay' <= attempt'.own
        BY <1>1, <1>2, <1>3, <1>6, <2>1, <2>2
    <2>. QED BY <2>3 DEF TapOwn, TapWay
<1>8. TapEarned' /\ Tap!HistoryIsYours'
    BY <1>2 DEF TapIInv, TapEarned, Tap!HistoryIsYours
<1>. QED BY <1>4, <1>5, <1>7, <1>8 DEF TapIInv

-----------------------------------------------------------------------------

\* What the daemon does on a frame, on a count or on presses, to its own state
LEMMA TapAnswers ==
    ASSUME TapIInv, UNCHANGED <<since, game>>, wire' = wire \/ wire' = <<>>,
           ended' = ended \/ ended' = Tap!Finished(attempt),
           no' \in Nat, no' >= no, lastKeys' \in Nat \cup {None},
           TapHolds' \/ attempt' \in TapAttempts \cup {None},
           source' \in {"undecided", "pad", "tosu"}, pending' \in 0 .. TosuOnly - 1,
           TapFlags', TapOwn', TapEarned'
    PROVE  TapIInv'
<1>1. TapTyped /\ TapSent
    BY DEF TapIInv
<1>2. ended' \subseteq TapAttempts /\ \A a \in ended' : a.who # "other" /\ (a.blind \/ a.n <= a.own)
    <2>1. CASE ended' = ended
        BY <1>1, <2>1 DEF TapIInv, TapTyped, TapHolds, Tap!HistoryIsYours
    <2>2. CASE ended' = Tap!Finished(attempt)
        BY <2>2, TapFinishes
    <2>. QED BY <2>1, <2>2
<1>3. Tap!HistoryIsYours'
    BY <1>2 DEF Tap!HistoryIsYours
<1>4. TapHolds'
    BY <1>2 DEF TapHolds, TapAttempts, Tap!Attempts, Tap!Players
<1>5. wire' \in Seq(Nat)
    <2>1. wire \in Seq(Nat) /\ <<>> \in Seq(Nat)
        BY <1>1 DEF TapTyped, TapHeard
    <2>. QED BY <2>1
<1>6. TapHeard'
    BY <1>1, <1>5 DEF TapTyped, TapHeard
<1>7. TapGame'
    BY <1>1 DEF TapTyped, TapGame, Tap!Players
<1>8. TapSent'
    <2>1. no \in Nat /\ wire \in Seq(Nat)
        BY <1>1 DEF TapTyped, TapHeard
    <2>2. CASE wire' = wire
        BY <1>1, <2>1, <2>2 DEF TapSent
    <2>3. CASE wire' = <<>>
        BY <2>3 DEF TapSent
    <2>. QED BY <2>2, <2>3
<1>. QED BY <1>3, <1>4, <1>6, <1>7, <1>8 DEF TapIInv, TapTyped

\* The fields of an attempt that counts more
LEMMA TapCountsOn ==
    ASSUME NEW a \in TapAttempts, NEW v \in Nat
    PROVE  /\ LET c == [a EXCEPT !.n = v]
              IN  c \in TapAttempts /\ c.n = v /\ c.own = a.own /\ c.who = a.who
                  /\ c.replay = a.replay /\ c.blind = a.blind
           /\ LET c == [a EXCEPT !.n = v, !.blind = TRUE]
              IN  c \in TapAttempts /\ c.blind /\ c.who = a.who /\ c.replay = a.replay
           /\ LET c == [a EXCEPT !.n = v, !.replay = TRUE]
              IN  c \in TapAttempts /\ c.replay /\ c.who = a.who
           /\ LET c == [a EXCEPT !.replay = TRUE, !.n = v]
              IN  c \in TapAttempts /\ c.replay /\ c.who = a.who
<1>1. a \in [n : Nat, replay : BOOLEAN, who : Tap!Players, own : Nat, blind : BOOLEAN]
    BY DEF TapAttempts, Tap!Attempts
<1>. QED BY <1>1 DEF TapAttempts, Tap!Attempts

\* Without an attempt there is nothing to own
LEMMA TapFinishing ==
    ASSUME TapIInv, Tap!FinishAttempt, UNCHANGED <<since, game, wire, no>>,
           lastKeys' \in Nat \cup {None}, TapFlags', TapEarned'
    PROVE  TapIInv'
<1>1. attempt' = None /\ ended' = Tap!Finished(attempt) /\ UNCHANGED <<source, pending>>
    BY DEF Tap!FinishAttempt
<1>2. TapOwn'
    BY <1>1 DEF TapOwn
<1>3. source \in {"undecided", "pad", "tosu"} /\ pending \in 0 .. TosuOnly - 1 /\ no \in Nat
    BY DEF TapIInv, TapTyped, TapHeard
<1>. QED BY <1>1, <1>2, <1>3, TapAnswers

LEMMA TapKeeping ==
    ASSUME TapIInv, Tap!Keep, UNCHANGED <<since, game, no>>, wire' = wire \/ wire' = <<>>,
           lastKeys' \in Nat \cup {None}, TapFlags', TapEarned'
    PROVE  TapIInv'
<1>1. UNCHANGED <<ended, attempt, source, pending>>
    BY DEF Tap!Keep
<1>2. TapTyped /\ TapWay \in Nat
    BY TapWayIs DEF TapIInv
<1>3. attempt \in TapAttempts \cup {None} /\ source \in {"undecided", "pad", "tosu"}
      /\ pending \in 0 .. TosuOnly - 1 /\ no \in Nat
    BY <1>2 DEF TapTyped, TapHolds, TapHeard
<1>4. TapWay' \in Nat /\ TapWay' <= TapWay
    <2>1. CASE wire' = wire
        BY <1>2, <2>1 DEF TapWay, Tap!OfThis
    <2>2. CASE wire' = <<>>
        <3>1. \A i \in Tap!OfThis(wire') : FALSE
            BY <2>2 DEF Tap!OfThis
        <3>. QED BY <1>2, <3>1, TapNoWay DEF TapWay, Tap!OfThis
    <2>. QED BY <2>1, <2>2
<1>5. TapOwn'
    <2>1. attempt # None => attempt.n \in Nat /\ attempt.own \in Nat
        BY <1>3 DEF TapAttempts, Tap!Attempts
    <2>2. attempt # None => /\ attempt.who = "other" => attempt.replay
                            /\ \/ attempt.blind \/ attempt.replay
                               \/ source # "tosu" /\ attempt.n + TapWay <= attempt.own
        BY DEF TapIInv, TapOwn, TapWay
    <2>3. attempt' # None => /\ attempt'.who = "other" => attempt'.replay
                             /\ \/ attempt'.blind \/ attempt'.replay
                                \/ source' # "tosu" /\ attempt'.n + TapWay' <= attempt'.own
        BY <1>1, <1>2, <1>4, <2>1, <2>2
    <2>. QED BY <2>3 DEF TapOwn, TapWay
<1>. QED BY <1>1, <1>3, <1>5, TapAnswers

LEMMA TapMenuFrame ==
    ASSUME TapIInv, Tap!MenuFrame
    PROVE  TapIInv'
<1>1. TapTyped /\ TapEarned
    BY DEF TapIInv
<1>2. /\ UNCHANGED <<game, wire, no, lastKeys, since>> /\ playing' = FALSE
      /\ armed' = IF game.results /\ onResults THEN armed ELSE FALSE
      /\ onResults' = game.results
      /\ earned' = IF game.results /\ ~onResults /\ armed THEN earned - 1 ELSE earned
      /\ IF playing THEN Tap!FinishAttempt ELSE Tap!Keep
    BY DEF Tap!MenuFrame, Tap!Frame, Tap!Celebrates, Tap!Disarmed
<1>3. earned \in Int /\ armed \in BOOLEAN /\ onResults \in BOOLEAN /\ playing \in BOOLEAN
      /\ game.results \in BOOLEAN /\ lastKeys \in Nat \cup {None}
    BY <1>1 DEF TapTyped, TapFlags, TapGame, TapHeard
<1>4. TapFlags'
    <2>1. earned' \in Int
        BY <1>2, <1>3
    <2>2. armed' \in BOOLEAN
        BY <1>2, <1>3
    <2>3. onResults' \in BOOLEAN /\ playing' \in BOOLEAN
        BY <1>2, <1>3
    <2>. QED BY <2>1, <2>2, <2>3 DEF TapFlags
<1>5. TapEarned'
    <2>1. earned >= 0 /\ (playing \/ (armed /\ ~onResults) => earned >= 1)
        BY <1>1 DEF TapEarned
    <2>2. ~(armed' /\ ~onResults') /\ ~playing'
        BY <1>2, <1>3
    <2>3. earned' >= 0
        BY <1>2, <1>3, <2>1
    <2>. QED BY <2>2, <2>3 DEF TapEarned
<1>. QED BY <1>2, <1>3, <1>4, <1>5, TapFinishing, TapKeeping

LEMMA TapTosuDrops ==
    ASSUME TapIInv, Tap!TosuDrops
    PROVE  TapIInv'
<1>1. TapTyped /\ TapEarned
    BY DEF TapIInv
<1>2. /\ UNCHANGED <<game, wire, no, since, armed, onResults, earned>> /\ playing' = FALSE
      /\ lastKeys' = None /\ Tap!FinishAttempt
    BY DEF Tap!TosuDrops
<1>3. TapFlags' /\ TapEarned'
    BY <1>1, <1>2 DEF TapTyped, TapFlags, TapEarned
<1>. QED BY <1>2, <1>3, TapFinishing

LEMMA TapPadPresses ==
    ASSUME TapIInv, Tap!PadPresses
    PROVE  TapIInv'
<1>1. TapTyped /\ TapWay \in Nat /\ Tap!Cardinality(Tap!OfThis(wire)) = TapWay
    BY TapWayIs DEF TapIInv
<1>2. /\ UNCHANGED <<game, since, no, earned, playing, lastKeys, armed, onResults>> /\ wire' = <<>>
      /\ IF playing /\ source # "tosu" /\ attempt # None /\ TapWay > 0
            THEN /\ attempt' = [attempt EXCEPT !.n = @ + TapWay]
                 /\ source' = "pad" /\ pending' = 0
                 /\ UNCHANGED ended
            ELSE Tap!Keep
    BY <1>1 DEF Tap!PadPresses
<1>3. TapFlags' /\ TapEarned' /\ lastKeys' \in Nat \cup {None}
    BY <1>1, <1>2 DEF TapTyped, TapFlags, TapHeard, TapIInv, TapEarned
<1>4. CASE Tap!Keep
    BY <1>2, <1>3, <1>4, TapKeeping
<1>5. ASSUME attempt # None, attempt' = [attempt EXCEPT !.n = @ + TapWay], source # "tosu",
             source' = "pad", pending' = 0, ended' = ended
      PROVE  TapIInv'
    <2>1. attempt \in TapAttempts /\ attempt.n \in Nat /\ attempt.own \in Nat
        BY <1>1, <1>5 DEF TapTyped, TapHolds, TapAttempts, Tap!Attempts
    <2>2. attempt' = [attempt EXCEPT !.n = attempt.n + TapWay] /\ attempt.n + TapWay \in Nat
        BY <1>1, <1>5, <2>1
    <2>3. attempt' \in TapAttempts /\ attempt'.n = attempt.n + TapWay /\ attempt'.own = attempt.own
          /\ attempt'.who = attempt.who /\ attempt'.replay = attempt.replay
          /\ attempt'.blind = attempt.blind
        BY <2>1, <2>2, TapCountsOn
    <2>4. TapWay' = 0
        <3>1. \A i \in Tap!OfThis(wire)' : FALSE
            BY <1>2 DEF Tap!OfThis
        <3>. QED BY <3>1, TapNoWay DEF TapWay
    <2>5. /\ attempt.who = "other" => attempt.replay
          /\ attempt.blind \/ attempt.replay \/ attempt.n + TapWay <= attempt.own
        BY <1>5 DEF TapIInv, TapOwn, TapWay
    <2>6. /\ attempt'.who = "other" => attempt'.replay
          /\ \/ attempt'.blind \/ attempt'.replay
             \/ source' # "tosu" /\ attempt'.n + TapWay' <= attempt'.own
        BY <1>1, <1>5, <2>1, <2>3, <2>4, <2>5
    <2>7. TapOwn'
        BY <2>6 DEF TapOwn, TapWay
    <2>8. 0 \in 0 .. TosuOnly - 1 /\ no \in Nat
        BY <1>1, TapAssumption DEF TapAssumption, Tap!TapConstants, TapTyped, TapHeard
    <2>. QED BY <1>2, <1>3, <1>5, <2>3, <2>7, <2>8, TapAnswers
<1>. QED BY <1>2, <1>4, <1>5

LEMMA TapTosuKeys ==
    ASSUME TapIInv, Tap!TosuKeys
    PROVE  TapIInv'
<1>1. TapTyped /\ TapWay \in Nat
    BY TapWayIs DEF TapIInv
<1>2. /\ UNCHANGED <<game, wire, since, no, earned, playing, armed, onResults>>
      /\ lastKeys' = game.keys
      /\ game.keys \in Nat /\ lastKeys \in Nat \cup {None} /\ pending \in 0 .. TosuOnly - 1
      /\ no \in Nat /\ TosuOnly \in Nat \ {0}
    BY <1>1, TapAssumption DEF Tap!TosuKeys, TapTyped, TapHeard, TapGame, TapAssumption, Tap!TapConstants
<1>3. TapFlags' /\ TapEarned' /\ lastKeys' \in Nat \cup {None}
    BY <1>1, <1>2 DEF TapTyped, TapFlags, TapIInv, TapEarned
<1>4. CASE Tap!Keep
    BY <1>2, <1>3, <1>4, TapKeeping
<1>5. ASSUME NEW d \in Nat, attempt # None, Tap!TosuCounted(d), ~Tap!Keep
      PROVE  TapIInv'
    <2>1. attempt \in TapAttempts /\ attempt.n \in Nat /\ pending \in Nat
          /\ attempt.n + d \in Nat /\ attempt.n + pending + d \in Nat
        BY <1>1, <1>2, <1>5 DEF TapTyped, TapHolds, TapAttempts, Tap!Attempts
    <2>2. /\ attempt.who = "other" => attempt.replay
          /\ \/ attempt.blind \/ attempt.replay
             \/ source # "tosu" /\ attempt.n + TapWay <= attempt.own
        BY <1>5 DEF TapIInv, TapOwn, TapWay
    <2>3. TapWay' = TapWay
        BY <1>2 DEF TapWay, Tap!OfThis
    <2>4. CASE source = "tosu"
        <3>1. attempt' = [attempt EXCEPT !.n = attempt.n + d] /\ UNCHANGED <<ended, source, pending>>
            BY <1>5, <2>4 DEF Tap!TosuCounted
        <3>2. attempt' \in TapAttempts /\ attempt'.who = attempt.who /\ attempt'.replay = attempt.replay
              /\ attempt'.blind = attempt.blind
            BY <2>1, <3>1, TapCountsOn
        <3>3. TapOwn'
            BY <2>2, <2>4, <3>2 DEF TapOwn
        <3>. QED BY <1>2, <1>3, <2>4, <3>1, <3>2, <3>3, TapAnswers
    <2>5. CASE source # "tosu" /\ source # "pad" /\ ~timed
        <3>1. attempt' = [attempt EXCEPT !.n = attempt.n + d, !.blind = TRUE] /\ source' = "tosu"
              /\ UNCHANGED <<ended, pending>>
            BY <1>5, <2>5 DEF Tap!TosuCounted
        <3>2. attempt' \in TapAttempts /\ attempt'.who = attempt.who /\ attempt'.replay = attempt.replay
              /\ attempt'.blind
            BY <2>1, <3>1, TapCountsOn
        <3>3. TapOwn'
            BY <2>2, <3>2 DEF TapOwn
        <3>. QED BY <1>2, <1>3, <3>1, <3>2, <3>3, TapAnswers
    <2>6. CASE source # "tosu" /\ source # "pad" /\ timed /\ pending + d < TosuOnly
        <3>1. pending' = pending + d /\ UNCHANGED <<ended, attempt, source>>
            BY <1>5, <2>6 DEF Tap!TosuCounted
        <3>2. TapOwn'
            <4>1. attempt' = attempt /\ source' = source
                BY <3>1
            <4>. QED BY <2>2, <2>3, <4>1 DEF TapOwn, TapWay
        <3>3. pending' \in 0 .. TosuOnly - 1 /\ source \in {"undecided", "pad", "tosu"}
            BY <1>1, <1>2, <1>5, <2>1, <2>6, <3>1 DEF TapTyped, TapHeard
        <3>. QED BY <1>2, <1>3, <2>1, <3>1, <3>2, <3>3, TapAnswers
    <2>7. CASE source # "tosu" /\ source # "pad" /\ timed /\ ~(pending + d < TosuOnly)
        <3>1. attempt' = [attempt EXCEPT !.n = attempt.n + pending + d, !.replay = TRUE]
              /\ source' = "tosu" /\ pending' = 0 /\ UNCHANGED ended
            BY <1>5, <2>7 DEF Tap!TosuCounted
        <3>2. attempt' \in TapAttempts /\ attempt'.replay
            BY <2>1, <3>1, TapCountsOn
        <3>3. TapOwn'
            BY <3>2 DEF TapOwn
        <3>4. 0 \in 0 .. TosuOnly - 1
            BY <1>2
        <3>. QED BY <1>2, <1>3, <3>1, <3>2, <3>3, <3>4, TapAnswers
    <2>8. source # "pad"
        BY <1>5 DEF Tap!TosuCounted
    <2>. QED BY <2>4, <2>5, <2>6, <2>7, <2>8
<1>6. Tap!Keep \/ \E d \in Nat : attempt # None /\ Tap!TosuCounted(d)
    <2>1. CASE attempt # None /\ lastKeys # None /\ Tap!Delta(game.keys, lastKeys) > 0 /\ playing
        <3>1. Tap!Delta(game.keys, lastKeys) \in Nat
            BY <1>2, <2>1 DEF Tap!Delta
        <3>2. Tap!TosuCounted(Tap!Delta(game.keys, lastKeys))
            BY <2>1 DEF Tap!TosuKeys
        <3>. QED BY <2>1, <3>1, <3>2
    <2>2. CASE ~(attempt # None /\ lastKeys # None /\ Tap!Delta(game.keys, lastKeys) > 0 /\ playing)
        BY <2>2 DEF Tap!TosuKeys
    <2>. QED BY <2>1, <2>2
<1>. QED BY <1>4, <1>5, <1>6

LEMMA TapPlayFrame ==
    ASSUME TapIInv, Tap!PlayFrame
    PROVE  TapIInv'
<1> DEFINE lost == Tap!Frame.failed
           oth == game.who = "other"
           fails == lost /\ ~lastFailed
<1>1. TapTyped /\ TapEarned /\ TapSent /\ TapWay \in Nat
    BY TapWayIs DEF TapIInv
<1>2. /\ UNCHANGED <<game, wire, lastKeys, since>> /\ playing' = TRUE /\ onResults' = FALSE
      /\ armed' = (~oth /\ ~lost)
      /\ earned' = IF playing THEN earned ELSE earned + 1
      /\ no' = IF Tap!Begins THEN no + 1 ELSE no
    BY DEF Tap!PlayFrame, Tap!Frame
<1>3. earned \in Int /\ no \in Nat /\ since \in Nat /\ lastKeys \in Nat \cup {None}
      /\ source \in {"undecided", "pad", "tosu"} /\ pending \in 0 .. TosuOnly - 1
      /\ TosuOnly \in Nat \ {0} /\ attempt \in TapAttempts \cup {None}
      /\ game.who \in Tap!Players /\ playing \in BOOLEAN
    BY <1>1, TapAssumption
    DEF TapTyped, TapFlags, TapHeard, TapHolds, TapGame, TapAssumption, Tap!TapConstants
<1>4. TapFlags'
    <2>1. earned' \in Int
        BY <1>2, <1>3
    <2>2. armed' \in BOOLEAN /\ playing' \in BOOLEAN /\ onResults' \in BOOLEAN
        BY <1>2, Zenon
    <2>. QED BY <2>1, <2>2 DEF TapFlags
<1>5. TapEarned'
    <2>1. earned >= 0 /\ (playing => earned >= 1)
        BY <1>1 DEF TapEarned
    <2>2. earned' >= 1
        BY <1>2, <1>3, <2>1
    <2>. QED BY <1>2, <1>3, <2>2 DEF TapEarned
<1>6. CASE Tap!Begins
    <2> DEFINE new == Tap!NewAttempt
               marks == oth /\ new # None
    <2>1. /\ ended' = Tap!Finished(attempt)
          /\ attempt' = IF marks THEN Tap!Watched(new, 0) ELSE new
          /\ source' = IF marks THEN "tosu" ELSE "undecided"
          /\ pending' = 0
        BY <1>6 DEF Tap!PlayFrame, Tap!Frame
    <2>2. new \in TapAttempts /\ new.n = 0 /\ new.own = since /\ new.who = game.who
          /\ ~new.replay /\ ~new.blind
        BY <1>3 DEF Tap!NewAttempt, TapAttempts, Tap!Attempts
    <2>3. marks => attempt' \in TapAttempts /\ attempt'.replay
        <3>1. ASSUME NEW a \in TapAttempts, a.n = 0
              PROVE  Tap!Watched(a, 0) \in TapAttempts /\ (a.replay \/ Tap!Watched(a, 0).replay)
            <4>1. CASE a.replay
                BY <4>1 DEF Tap!Watched
            <4>2. CASE ~a.replay
                <5>1. Tap!Watched(a, 0) = [a EXCEPT !.replay = TRUE, !.n = 0]
                    BY <3>1, <4>2 DEF Tap!Watched
                <5>2. a \in [n : Nat, replay : BOOLEAN, who : Tap!Players, own : Nat, blind : BOOLEAN]
                    BY DEF TapAttempts, Tap!Attempts
                <5>3. [a EXCEPT !.replay = TRUE, !.n = 0] \in TapAttempts
                    BY <5>2 DEF TapAttempts, Tap!Attempts
                <5>4. [a EXCEPT !.replay = TRUE, !.n = 0].replay = TRUE
                    BY <5>2
                <5>. QED BY <5>1, <5>3, <5>4
            <4>. QED BY <4>1, <4>2
        <3>. HIDE DEF new
        <3>. QED BY <2>1, <2>2, <3>1
    <2>4. TapWay' = 0
        <3>1. no' = no + 1 /\ wire' = wire
            BY <1>2, <1>6
        <3>2. \A i \in Tap!OfThis(wire)' : FALSE
            BY <1>1, <1>3, <3>1 DEF Tap!OfThis, TapSent, TapTyped, TapHeard
        <3>. QED BY <3>2, TapNoWay DEF TapWay
    <2>5. TapOwn'
        <3>1. CASE marks
            BY <2>1, <2>3, <3>1 DEF TapOwn
        <3>2. CASE ~marks
            <4>1. attempt' = new /\ source' = "undecided"
                BY <2>1, <3>2
            <4>2. attempt' # None => attempt'.who # "other"
                BY <2>2, <3>2, <4>1
            <4>3. attempt'.n = 0 /\ attempt'.own \in Nat
                BY <1>3, <2>2, <4>1
            <4>4. attempt'.n + TapWay' <= attempt'.own
                BY <2>4, <4>3
            <4>. QED BY <4>1, <4>2, <4>4 DEF TapOwn, TapWay
        <3>. QED BY <3>1, <3>2
    <2>6. attempt' \in TapAttempts \cup {None} /\ source' \in {"undecided", "pad", "tosu"}
          /\ pending' \in 0 .. TosuOnly - 1 /\ no' \in Nat /\ no' >= no
        BY <1>2, <1>3, <1>6, <2>1, <2>2, <2>3
    <2>. QED BY <1>2, <1>3, <1>4, <1>5, <2>1, <2>5, <2>6, TapAnswers
<1>7. CASE ~Tap!Begins /\ fails
    <2>1. Tap!FinishAttempt
        BY <1>7 DEF Tap!PlayFrame
    <2>. QED BY <1>2, <1>3, <1>4, <1>5, <1>7, <2>1, TapFinishing
<1>8. CASE ~Tap!Begins /\ ~fails
    <2> DEFINE marks == oth /\ attempt # None
    <2>1. /\ ended' = ended
          /\ attempt' = IF marks THEN Tap!Watched(attempt, pending) ELSE attempt
          /\ source' = IF marks THEN "tosu" ELSE source
          /\ pending' = IF marks THEN 0 ELSE pending
          /\ no' = no
        BY <1>8 DEF Tap!PlayFrame, Tap!Frame
    <2>2. CASE ~marks
        <3>1. Tap!Keep
            BY <2>1, <2>2 DEF Tap!Keep
        <3>. QED BY <1>2, <1>3, <1>4, <1>5, <2>1, <3>1, TapKeeping
    <2>3. CASE marks
        <3>1. attempt \in TapAttempts /\ attempt.n \in Nat /\ attempt.n + pending \in Nat
            BY <1>3, <2>3 DEF TapAttempts, Tap!Attempts
        <3>2. attempt' \in TapAttempts /\ attempt'.replay
            <4>1. CASE attempt.replay
                BY <2>1, <2>3, <3>1, <4>1 DEF Tap!Watched
            <4>2. CASE ~attempt.replay /\ source = "tosu"
                <5>1. attempt' = [attempt EXCEPT !.replay = TRUE, !.n = attempt.n]
                    BY <2>1, <2>3, <4>2 DEF Tap!Watched
                <5>. QED BY <3>1, <5>1, TapCountsOn
            <4>3. CASE ~attempt.replay /\ source # "tosu"
                <5>1. attempt' = [attempt EXCEPT !.replay = TRUE, !.n = attempt.n + pending]
                    BY <2>1, <2>3, <4>3 DEF Tap!Watched
                <5>. QED BY <3>1, <5>1, TapCountsOn
            <4>. QED BY <4>1, <4>2, <4>3
        <3>3. TapOwn'
            BY <3>2 DEF TapOwn
        <3>4. 0 \in 0 .. TosuOnly - 1
            BY <1>3
        <3>. QED BY <1>2, <1>3, <1>4, <1>5, <2>1, <2>3, <3>2, <3>3, <3>4, TapAnswers
    <2>. QED BY <2>2, <2>3
<1>. QED BY <1>6, <1>7, <1>8

LEMMA TapStep ==
    ASSUME TapIInv, [Tap!TapNext]_tvars
    PROVE  TapIInv'
<1>1. CASE UNCHANGED tvars
    <2>1. /\ UNCHANGED <<attempt, ended, source, pending, lastKeys, no, playing, armed, onResults, earned>>
          /\ UNCHANGED <<wire, since, game>>
        BY <1>1 DEF tvars, Tap!host
    <2>2. TapGame /\ since \in Nat
        BY DEF TapIInv, TapTyped, TapHeard
    <2>. QED BY <2>1, <2>2, TapAround DEF TapGame
<1>2. CASE Tap!TapNext
    BY <1>2, TapOutside, TapTaps, TapMenuFrame, TapTosuDrops, TapPadPresses, TapTosuKeys,
       TapPlayFrame DEF Tap!TapNext
<1>. QED BY <1>1, <1>2

-----------------------------------------------------------------------------
(* Layouts: the last one sent of a screen, and the request that is alone *)

LayShape(widget) ==
    /\ widget = [kind |-> widget.kind, source |-> widget.source, x |-> widget.x, w |-> widget.w,
                 keyrate |-> widget.keyrate, persec |-> widget.persec, label |-> widget.label]
    /\ widget.x \in Int /\ widget.w \in Int /\ widget.label \in Nat
LayGood == {layout \in Lay!Layouts : Lay!Valid(layout)}
LayFrames == [screen : Lay!Screens, layout : LayGood \cup {None}, by : Clients \cup {None}]
LayAcks == [screen : Lay!Screens, ok : BOOLEAN]
LayRequests == [screen : Lay!Screens, alone : BOOLEAN]

LayTyped ==
    /\ held \in [Lay!Screens -> LayGood \cup {None}]
    /\ fw \in {"new", "old", "dark"} /\ up \in BOOLEAN
    /\ DOMAIN shown = Lay!Screens
    /\ toPad \in Seq(LayFrames) /\ acks \in Seq(LayAcks)
    /\ layAsks \in [Clients -> LayRequests \cup {None}]
    /\ verdict \in [Clients -> {None, TRUE, FALSE}] /\ told \in [Clients -> {None, TRUE, FALSE}]
    /\ ~up => toPad = <<>> /\ acks = <<>>

\* The frame at j is the last one of its screen
LayLast(j, s) == /\ j \in DOMAIN toPad /\ toPad[j].screen = s
                 /\ \A i \in DOMAIN toPad : i > j => toPad[i].screen # s

\* What the daemon holds of a screen is shown, or the last frame of it says so
LaySent ==
    fw = "new" /\ up =>
        \A s \in Lay!Screens : held[s] # None =>
            \/ shown[s] = held[s] /\ \A i \in DOMAIN toPad : toPad[i].screen # s
            \/ \E j \in DOMAIN toPad : LayLast(j, s) /\ toPad[j].layout = held[s]

\* A request that is alone with its screen: its frame is the only one of the screen
\* and the client's last, and once that is answered the answer is what the pad did.
LayOnly(c, s) ==
    \E j \in DOMAIN toPad :
        /\ toPad[j].screen = s /\ toPad[j].by = c
        /\ \A i \in DOMAIN toPad : i # j => toPad[i].screen # s
        /\ \A i \in DOMAIN toPad : i > j => toPad[i].by # c

LayAnswered(c, s) ==
    /\ \A i \in DOMAIN toPad : toPad[i].screen # s /\ toPad[i].by # c
    /\ \A i \in DOMAIN acks : acks[i].screen = s => acks[i].ok = verdict[c]

LayAlone ==
    up => \A c \in Clients, s \in Lay!Screens :
        layAsks[c] # None /\ layAsks[c].alone /\ layAsks[c].screen = s =>
            \/ LayOnly(c, s) /\ \A i \in DOMAIN acks : acks[i].screen # s
            \/ LayAnswered(c, s)

\* A client that was told has no request and no frame under way
LayTold ==
    \A c \in Clients : told[c] # None =>
        /\ told[c] = verdict[c] /\ layAsks[c] = None
        /\ \A i \in DOMAIN toPad : toPad[i].by # c

LayIInv == LayTyped /\ LaySent /\ LayAlone /\ LayTold

LEMMA LayNone ==
    /\ None \notin Clients /\ None \notin BOOLEAN /\ None \notin LayRequests /\ None \notin LayGood
BY LayoutAssumption DEF Lay!LayoutConstants, LayRequests, LayGood

LEMMA LayRecord ==
    ASSUME NEW a, NEW b, NEW x \in Int, NEW w \in Int, NEW c, NEW d, NEW l \in Nat
    PROVE  LayShape([kind |-> a, source |-> b, x |-> x, w |-> w, keyrate |-> c, persec |-> d,
                     label |-> l])
BY DEF LayShape

\* What a client may ask for are layouts
LEMMA LayLayouts ==
    ASSUME NEW layout \in Lay!Layouts
    PROVE  /\ layout = [count |-> layout.count, w |-> layout.w] /\ layout.count \in Nat
           /\ LayShape(layout.w)
<1>1. ASSUME NEW k PROVE LayShape(Lay!Fresh(k))
    BY DEF Lay!Fresh, LayShape
<1>2. ASSUME NEW k \in DOMAIN Lay!Changes, NEW f \in DOMAIN Lay!Changes[k],
             NEW v \in Lay!Changes[k][f]
      PROVE  LayShape([Lay!Fresh(k) EXCEPT ![f] = v])
    <2>0. PICK src, off : Lay!Fresh(k) = [kind |-> k, source |-> src, x |-> 110, w |-> 100,
                                          keyrate |-> off, persec |-> off, label |-> 4]
        BY DEF Lay!Fresh
    <2>1. \/ f = "source" \/ f = "keyrate"
          \/ f = "label" /\ v \in Nat
          \/ f = "x" /\ v \in Int
          \/ f = "w" /\ v \in Int
        <3>1. k \in {"text", "card", "grade"}
            BY DEF Lay!Changes
        <3>2. CASE k = "text"
            BY <3>2 DEF Lay!Changes
        <3>3. CASE k = "card"
            BY <3>3 DEF Lay!Changes
        <3>4. CASE k = "grade"
            BY <3>4 DEF Lay!Changes
        <3>. QED BY <3>1, <3>2, <3>3, <3>4
    <2>2. CASE f = "source"
        <3>1. [Lay!Fresh(k) EXCEPT ![f] = v] =
                  [kind |-> k, source |-> v, x |-> 110, w |-> 100, keyrate |-> off, persec |-> off, label |-> 4]
            BY <2>0, <2>2
        <3>. QED BY <2>2, <3>1, LayRecord
    <2>3. CASE f = "keyrate"
        <3>1. [Lay!Fresh(k) EXCEPT ![f] = v] =
                  [kind |-> k, source |-> src, x |-> 110, w |-> 100, keyrate |-> v, persec |-> off, label |-> 4]
            BY <2>0, <2>3
        <3>. QED BY <2>3, <3>1, LayRecord
    <2>4. CASE f = "label" /\ v \in Nat
        <3>1. [Lay!Fresh(k) EXCEPT ![f] = v] =
                  [kind |-> k, source |-> src, x |-> 110, w |-> 100, keyrate |-> off, persec |-> off, label |-> v]
            BY <2>0, <2>4
        <3>. QED BY <2>4, <3>1, LayRecord
    <2>5. CASE f = "x" /\ v \in Int
        <3>1. [Lay!Fresh(k) EXCEPT ![f] = v] =
                  [kind |-> k, source |-> src, x |-> v, w |-> 100, keyrate |-> off, persec |-> off, label |-> 4]
            BY <2>0, <2>5
        <3>. QED BY <2>5, <3>1, LayRecord
    <2>6. CASE f = "w" /\ v \in Int
        <3>1. [Lay!Fresh(k) EXCEPT ![f] = v] =
                  [kind |-> k, source |-> src, x |-> 110, w |-> v, keyrate |-> off, persec |-> off, label |-> 4]
            BY <2>0, <2>6
        <3>. QED BY <2>6, <3>1, LayRecord
    <2>. QED BY <2>1, <2>2, <2>3, <2>4, <2>5, <2>6
<1>3. ASSUME NEW widget, LayShape(widget) PROVE LayShape(Lay!WithUnit(widget))
    <2>1. \A set : [widget EXCEPT !.persec = set] =
              [kind |-> widget.kind, source |-> widget.source, x |-> widget.x, w |-> widget.w,
               keyrate |-> widget.keyrate, persec |-> set, label |-> widget.label]
        BY <1>3 DEF LayShape
    <2>2. \E set : Lay!WithUnit(widget) = [widget EXCEPT !.persec = set]
        BY Zenon DEF Lay!WithUnit
    <2>. QED BY <1>3, <2>1, <2>2, LayRecord DEF LayShape
<1>4. \E n, widget : n \in Nat /\ LayShape(widget) /\ layout = [count |-> n, w |-> widget]
    <2>1. CASE layout \in [count : {32, 33}, w : {Lay!Fresh("text")}]
        BY <1>1, <2>1
    <2>2. CASE layout \notin [count : {32, 33}, w : {Lay!Fresh("text")}]
        <3> DEFINE all == UNION {{Lay!Fresh(k)} \union
                UNION {{[Lay!Fresh(k) EXCEPT ![f] = v] : v \in Lay!Changes[k][f]} :
                       f \in DOMAIN Lay!Changes[k]} : k \in DOMAIN Lay!Changes}
        <3>1. \A widget \in all : LayShape(widget)
            BY <1>1, <1>2
        <3>2. layout \in [count : {1}, w : all \union {Lay!WithUnit(widget) : widget \in all}]
            BY <2>2 DEF Lay!Layouts, Lay!MaxWidgets
        <3>. HIDE DEF all
        <3>. QED BY <1>3, <3>1, <3>2
    <2>. QED BY <2>1, <2>2
<1>. QED BY <1>4

\* A valid layout crosses the wire as it is, and a current pad takes it
LEMMA LayCrosses ==
    ASSUME NEW layout \in LayGood
    PROVE  /\ Lay!Wire(layout) = layout /\ Lay!FromProto(layout) = layout
           /\ fw = "new" => Lay!Takes(layout)
<1>1. /\ layout.count <= 32 /\ layout.w.source \in DOMAIN Lay!Sources
      /\ layout.w.w > 0 /\ layout.w.w <= 640 /\ layout.w.x >= -320 /\ layout.w.x <= 640
      /\ layout.w.label <= 31
    BY DEF LayGood, Lay!Valid, Lay!MaxWidgets, Lay!ScreenW, Lay!LabelMax
<1>2. layout = [count |-> layout.count, w |-> layout.w] /\ layout.count \in Nat
    BY LayLayouts DEF LayGood
<1>3. LayShape(layout.w)
    BY LayLayouts DEF LayGood
<1>4. Lay!Fitted(layout.w.label) = layout.w.label /\ ~(layout.w.w < 0) /\ ~(layout.count > 32)
    BY <1>1, <1>2, <1>3 DEF Lay!Fitted, Lay!LabelMax, LayShape
<1>5. Lay!Wire(layout) = layout
    BY <1>2, <1>3, <1>4 DEF Lay!Wire, LayShape
<1>6. Lay!FromProto(layout) = layout
    BY <1>1, <1>2, <1>4, LayNone DEF Lay!FromProto, Lay!MaxWidgets
<1>7. fw = "new" => Lay!Takes(layout)
    BY <1>1 DEF Lay!Takes, Lay!PadValid, Lay!Known, Lay!MaxWidgets, Lay!ScreenW, Lay!LabelMax
<1>. QED BY <1>5, <1>6, <1>7

LEMMA LayInitial ==
    ASSUME Lay!LayoutInit
    PROVE  LayIInv
BY LayNone DEF Lay!LayoutInit, LayIInv, LayTyped, LaySent, LayAlone, LayTold

LEMMA LayNotAlone ==
    ASSUME NEW r \in LayRequests
    PROVE  /\ [r EXCEPT !.alone = FALSE] \in LayRequests
           /\ [r EXCEPT !.alone = FALSE].screen = r.screen /\ ~[r EXCEPT !.alone = FALSE].alone
<1>1. \A b \in BOOLEAN : /\ [r EXCEPT !.alone = b] \in LayRequests
                         /\ [r EXCEPT !.alone = b].screen = r.screen
                         /\ [r EXCEPT !.alone = b].alone = b
    BY DEF LayRequests
<1>2. FALSE \in BOOLEAN
    OBVIOUS
<1>. QED BY <1>1, <1>2

LEMMA LayAppends ==
    ASSUME toPad \in Seq(LayFrames), NEW f \in LayFrames
    PROVE  /\ Append(toPad, f) \in Seq(LayFrames) /\ Len(toPad) \in Nat
           /\ DOMAIN toPad = 1 .. Len(toPad) /\ DOMAIN Append(toPad, f) = 1 .. Len(toPad) + 1
           /\ Append(toPad, f)[Len(toPad) + 1] = f
           /\ \A i \in 1 .. Len(toPad) : Append(toPad, f)[i] = toPad[i]
OBVIOUS

\* A request is stored and, with a pad there, sent
LEMMA LayWaits ==
    ASSUME LayIInv, NEW c \in Clients, NEW s \in Lay!Screens, NEW layout \in LayGood \cup {None},
           layAsks[c] = None, held' = [held EXCEPT ![s] = layout], Lay!Waits(c, s, layout),
           verdict' = [verdict EXCEPT ![c] = None], told' = [told EXCEPT ![c] = None],
           UNCHANGED <<fw, shown, up, acks>>
    PROVE  LayIInv'
<1>0. /\ held' \in [Lay!Screens -> LayGood \cup {None}]
      /\ verdict' \in [Clients -> {None, TRUE, FALSE}] /\ told' \in [Clients -> {None, TRUE, FALSE}]
      /\ \A d \in Clients : told'[d] # None => d # c /\ told'[d] = told[d]
      /\ \A d \in Clients : d # c => verdict'[d] = verdict[d]
      /\ held'[s] = layout /\ \A t \in Lay!Screens : t # s => held'[t] = held[t]
    BY DEF LayIInv, LayTyped
<1>1. CASE ~up
    <2>1. UNCHANGED <<layAsks, toPad>>
        BY <1>1 DEF Lay!Waits
    <2>2. LayTyped'
        BY <1>0, <2>1 DEF LayIInv, LayTyped
    <2>3. LaySent' /\ LayAlone'
        BY <1>1 DEF LaySent, LayAlone
    <2>4. LayTold'
        BY <1>0, <2>1 DEF LayIInv, LayTold
    <2>. QED BY <2>2, <2>3, <2>4 DEF LayIInv
<1>2. CASE up
    <2> DEFINE f == [screen |-> s, layout |-> layout, by |-> c]
    <2>1. f \in LayFrames /\ f.screen = s /\ f.layout = layout /\ f.by = c
        BY DEF LayFrames
    <2>2. toPad' = Append(toPad, f)
        BY <1>2 DEF Lay!Waits
    <2>. HIDE DEF f
    <2>n. PICK n : n = Len(toPad)
        OBVIOUS
    <2>3. /\ n \in Nat /\ DOMAIN toPad = 1 .. n /\ DOMAIN toPad' = 1 .. n + 1 /\ toPad'[n + 1] = f
          /\ \A i \in 1 .. n : toPad'[i] = toPad[i]
          /\ toPad' \in Seq(LayFrames)
        BY <2>1, <2>2, <2>n, LayAppends DEF LayIInv, LayTyped
    <2>4. /\ layAsks' \in [Clients -> LayRequests \cup {None}]
          /\ layAsks'[c].screen = s /\ (layAsks'[c].alone => Lay!Alone(c, s))
          /\ \A d \in Clients : d # c /\ layAsks[d] = None => layAsks'[d] = None
          /\ \A d \in Clients : d # c /\ layAsks'[d] # None /\ layAsks'[d].alone =>
                 layAsks'[d] = layAsks[d] /\ layAsks[d].screen # s
        <3> DEFINE one == [screen |-> s, alone |-> Lay!Alone(c, s)]
        <3>1. layAsks' = [d \in Clients |->
                             IF d = c THEN one
                             ELSE IF layAsks[d] # None /\ layAsks[d].screen = s
                                     THEN [layAsks[d] EXCEPT !.alone = FALSE]
                             ELSE layAsks[d]]
            BY <1>2, Zenon DEF Lay!Waits
        <3>2. \A b \in BOOLEAN : /\ [screen |-> s, alone |-> b] \in LayRequests
                                 /\ [screen |-> s, alone |-> b].screen = s
                                 /\ [screen |-> s, alone |-> b].alone = b
            BY DEF LayRequests
        <3>3. Lay!Alone(c, s) \in BOOLEAN
            BY Zenon DEF Lay!Alone
        <3>4. one \in LayRequests /\ one.screen = s /\ one.alone = Lay!Alone(c, s)
            BY <3>2, <3>3
        <3>. HIDE DEF one
        <3>5. \A d \in Clients : layAsks[d] # None =>
                  /\ layAsks[d] \in LayRequests
                  /\ [layAsks[d] EXCEPT !.alone = FALSE] \in LayRequests
                  /\ ~[layAsks[d] EXCEPT !.alone = FALSE].alone
            BY LayNotAlone DEF LayIInv, LayTyped
        <3>6. layAsks'[c] = one
            BY <3>1
        <3>7. \A d \in Clients \ {c} :
                  layAsks'[d] = IF layAsks[d] # None /\ layAsks[d].screen = s
                                   THEN [layAsks[d] EXCEPT !.alone = FALSE] ELSE layAsks[d]
            BY <3>1
        <3>8. layAsks' \in [Clients -> LayRequests \cup {None}]
            BY <3>1, <3>4, <3>5
        <3>. QED BY <3>4, <3>5, <3>6, <3>7, <3>8
    <2>5. LayTyped'
        BY <1>0, <1>2, <2>3, <2>4 DEF LayIInv, LayTyped
    <2>6. LaySent'
        <3>. SUFFICES ASSUME fw = "new", NEW t \in Lay!Screens, held'[t] # None
                      PROVE  \/ shown'[t] = held'[t] /\ \A i \in DOMAIN toPad' : toPad'[i].screen # t
                             \/ \E j \in DOMAIN toPad' :
                                   LayLast(j, t)' /\ toPad'[j].layout = held'[t]
            BY DEF LaySent
        <3>1. CASE t = s
            <4>1. n + 1 \in DOMAIN toPad' /\ LayLast(n + 1, t)' /\ toPad'[n + 1].layout = held'[t]
                BY <1>0, <2>1, <2>3, <3>1 DEF LayLast
            <4>. QED BY <4>1
        <3>2. CASE t # s
            <4>1. held[t] = held'[t] /\ held[t] # None
                BY <1>0, <3>2
            <4>2. CASE shown[t] = held[t] /\ \A i \in DOMAIN toPad : toPad[i].screen # t
                BY <2>1, <2>3, <3>2, <4>1, <4>2
            <4>3. ASSUME NEW j \in DOMAIN toPad, LayLast(j, t), toPad[j].layout = held[t]
                  PROVE  LayLast(j, t)' /\ toPad'[j].layout = held'[t]
                BY <2>1, <2>3, <3>2, <4>1, <4>3 DEF LayLast
            <4>. QED BY <1>2, <2>3, <4>1, <4>2, <4>3 DEF LayIInv, LaySent
        <3>. QED BY <3>1, <3>2
    <2>7. LayAlone'
        <3>. SUFFICES ASSUME NEW d \in Clients, layAsks'[d] # None, layAsks'[d].alone,
                             NEW t \in Lay!Screens, layAsks'[d].screen = t
                      PROVE  \/ LayOnly(d, t)' /\ \A i \in DOMAIN acks : acks[i].screen # t
                             \/ LayAnswered(d, t)'
            BY DEF LayAlone
        <3>1. CASE d = c
            <4>1. /\ \A i \in DOMAIN toPad : toPad[i].screen # s
                  /\ \A i \in DOMAIN acks : acks[i].screen # s
                BY <2>4, <3>1 DEF Lay!Alone
            <4>2. LayOnly(c, s)'
                BY <2>1, <2>3, <4>1 DEF LayOnly
            <4>. QED BY <2>4, <3>1, <4>1, <4>2
        <3>2. CASE d # c
            <4>1. layAsks'[d] = layAsks[d] /\ t # s /\ layAsks[d].alone /\ layAsks[d] # None
                BY <2>4, <3>2
            <4>2. CASE LayOnly(d, t) /\ \A i \in DOMAIN acks : acks[i].screen # t
                <5>1. PICK j \in DOMAIN toPad :
                          /\ toPad[j].screen = t /\ toPad[j].by = d
                          /\ \A i \in DOMAIN toPad : i # j => toPad[i].screen # t
                          /\ \A i \in DOMAIN toPad : i > j => toPad[i].by # d
                    BY <4>2 DEF LayOnly
                <5>2. j \in DOMAIN toPad' /\ toPad'[j] = toPad[j]
                    BY <2>3
                <5>3. \A i \in DOMAIN toPad' : \/ i \in DOMAIN toPad /\ toPad'[i] = toPad[i]
                                              \/ toPad'[i] = f
                    BY <2>3
                <5>4. LayOnly(d, t)'
                    BY <2>1, <3>2, <4>1, <5>1, <5>2, <5>3 DEF LayOnly
                <5>. QED BY <4>2, <5>4
            <4>3. CASE LayAnswered(d, t)
                BY <1>0, <2>1, <2>3, <3>2, <4>1, <4>3 DEF LayAnswered
            <4>. QED BY <1>2, <4>1, <4>2, <4>3 DEF LayIInv, LayAlone
        <3>. QED BY <3>1, <3>2
    <2>8. LayTold'
        BY <1>0, <2>1, <2>3, <2>4 DEF LayIInv, LayTold
    <2>. QED BY <2>5, <2>6, <2>7, <2>8 DEF LayIInv
<1>. QED BY <1>1, <1>2 DEF LayIInv, LayTyped

LEMMA LayTails ==
    ASSUME toPad \in Seq(LayFrames), toPad # <<>>
    PROVE  /\ Tail(toPad) \in Seq(LayFrames) /\ Head(toPad) \in LayFrames /\ Head(toPad) = toPad[1]
           /\ Len(toPad) \in Nat /\ Len(toPad) >= 1 /\ DOMAIN toPad = 1 .. Len(toPad)
           /\ DOMAIN Tail(toPad) = 1 .. Len(toPad) - 1
           /\ \A i \in 1 .. Len(toPad) - 1 : Tail(toPad)[i] = toPad[i + 1]
OBVIOUS

\* The pad takes a frame or refuses it, and says so
LEMMA LayPadSets ==
    ASSUME LayIInv, Lay!PadSets
    PROVE  LayIInv'
<1> DEFINE f == Head(toPad)
           ok == Lay!Takes(Lay!FromProto(f.layout))
<1>1. /\ toPad # <<>> /\ toPad' = Tail(toPad)
      /\ acks' = Append(acks, [screen |-> f.screen, ok |-> ok])
      /\ shown' = IF ok THEN [shown EXCEPT ![f.screen] = Lay!FromProto(f.layout)] ELSE shown
      /\ verdict' = IF f.by = None THEN verdict ELSE [verdict EXCEPT ![f.by] = ok]
      /\ UNCHANGED <<held, fw, up, layAsks, told>>
    BY Zenon DEF Lay!PadSets
<1>2. ok \in BOOLEAN
    BY Zenon DEF Lay!Takes
<1>3. up
    BY <1>1 DEF LayIInv, LayTyped
<1>4. f.layout \in LayGood => Lay!FromProto(f.layout) = f.layout /\ (fw = "new" => ok)
    BY LayCrosses
<1>5. PICK n \in Nat :
          /\ n = Len(toPad) /\ n >= 1 /\ DOMAIN toPad = 1 .. n /\ DOMAIN toPad' = 1 .. n - 1
          /\ \A i \in 1 .. n - 1 : toPad'[i] = toPad[i + 1]
          /\ f \in LayFrames /\ f = toPad[1] /\ toPad' \in Seq(LayFrames)
    BY <1>1, LayTails DEF LayIInv, LayTyped
<1>. HIDE DEF f, ok
<1>6. f.screen \in Lay!Screens /\ f.layout \in LayGood \cup {None} /\ f.by \in Clients \cup {None}
    BY <1>5 DEF LayFrames
<1>7. PICK m \in Nat :
          /\ DOMAIN acks = 1 .. m /\ DOMAIN acks' = 1 .. m + 1 /\ acks' \in Seq(LayAcks)
          /\ \A i \in 1 .. m : acks'[i] = acks[i]
          /\ acks'[m + 1].screen = f.screen /\ acks'[m + 1].ok = ok
    <2>1. \A b \in BOOLEAN : /\ [screen |-> f.screen, ok |-> b] \in LayAcks
                             /\ [screen |-> f.screen, ok |-> b].screen = f.screen
                             /\ [screen |-> f.screen, ok |-> b].ok = b
        BY <1>6 DEF LayAcks
    <2>2. PICK a \in LayAcks : a.screen = f.screen /\ a.ok = ok /\ acks' = Append(acks, a)
        BY <1>1, <1>2, <2>1
    <2>3. acks \in Seq(LayAcks)
        BY DEF LayIInv, LayTyped
    <2>. QED BY <2>2, <2>3
<1>8. /\ verdict' \in [Clients -> {None, TRUE, FALSE}]
      /\ f.by # None => verdict'[f.by] = ok
      /\ \A c \in Clients : c # f.by => verdict'[c] = verdict[c]
    <2>1. ok \in {None, TRUE, FALSE}
        BY <1>2
    <2>. QED BY <1>1, <1>6, <2>1, LayNone DEF LayIInv, LayTyped
<1>9. LayTyped'
    <2>1. DOMAIN shown' = Lay!Screens
        BY <1>1 DEF LayIInv, LayTyped
    <2>. QED BY <1>1, <1>3, <1>5, <1>7, <1>8, <2>1 DEF LayIInv, LayTyped
<1>10. LaySent'
    <2>. SUFFICES ASSUME fw = "new", NEW s \in Lay!Screens, held[s] # None
                  PROVE  \/ shown'[s] = held[s] /\ \A i \in DOMAIN toPad' : toPad'[i].screen # s
                         \/ \E j \in DOMAIN toPad' :
                               LayLast(j, s)' /\ toPad'[j].layout = held[s]
        BY <1>1 DEF LaySent
    <2>1. CASE shown[s] = held[s] /\ \A i \in DOMAIN toPad : toPad[i].screen # s
        <3>1. f.screen # s
            BY <1>5, <2>1
        <3>2. shown'[s] = shown[s]
            BY <1>1, <3>1 DEF LayIInv, LayTyped
        <3>. QED BY <1>5, <2>1, <3>2
    <2>2. ASSUME NEW j \in DOMAIN toPad, LayLast(j, s), toPad[j].layout = held[s]
          PROVE  \/ shown'[s] = held[s] /\ \A i \in DOMAIN toPad' : toPad'[i].screen # s
                 \/ \E k \in DOMAIN toPad' : LayLast(k, s)' /\ toPad'[k].layout = held[s]
        <3>1. CASE j = 1
            <4>1. f.layout \in LayGood /\ f.layout = held[s] /\ f.screen = s
                BY <1>5, <1>6, <2>2, <3>1 DEF LayLast
            <4>2. shown'[s] = held[s]
                BY <1>1, <1>4, <4>1 DEF LayIInv, LayTyped
            <4>3. \A i \in DOMAIN toPad' : toPad'[i].screen # s
                BY <1>5, <2>2, <3>1 DEF LayLast
            <4>. QED BY <4>2, <4>3
        <3>2. CASE j # 1
            <4>1. j - 1 \in DOMAIN toPad' /\ toPad'[j - 1] = toPad[j]
                BY <1>5, <3>2
            <4>2. ASSUME NEW i \in DOMAIN toPad', i > j - 1 PROVE toPad'[i].screen # s
                BY <1>5, <2>2, <4>2 DEF LayLast
            <4>. QED BY <2>2, <4>1, <4>2 DEF LayLast
        <3>. QED BY <3>1, <3>2
    <2>. QED BY <1>3, <2>1, <2>2 DEF LayIInv, LaySent
<1>11. LayAlone'
    <2>. SUFFICES ASSUME NEW c \in Clients, layAsks[c] # None, layAsks[c].alone,
                         NEW s \in Lay!Screens, layAsks[c].screen = s
                  PROVE  \/ LayOnly(c, s)' /\ \A i \in DOMAIN acks' : acks'[i].screen # s
                         \/ LayAnswered(c, s)'
        BY <1>1 DEF LayAlone
    <2>1. ASSUME LayOnly(c, s), \A i \in DOMAIN acks : acks[i].screen # s
          PROVE  \/ LayOnly(c, s)' /\ \A i \in DOMAIN acks' : acks'[i].screen # s
                 \/ LayAnswered(c, s)'
        <3>1. PICK j \in DOMAIN toPad :
                  /\ toPad[j].screen = s /\ toPad[j].by = c
                  /\ \A i \in DOMAIN toPad : i # j => toPad[i].screen # s
                  /\ \A i \in DOMAIN toPad : i > j => toPad[i].by # c
            BY <2>1 DEF LayOnly
        <3>2. CASE j = 1
            <4>1. f.screen = s /\ f.by = c /\ c # None
                BY <1>5, <3>1, <3>2, LayNone
            <4>2. \A i \in DOMAIN toPad' : toPad'[i].screen # s /\ toPad'[i].by # c
                BY <1>5, <3>1, <3>2
            <4>3. \A i \in DOMAIN acks' : acks'[i].screen = s => acks'[i].ok = verdict'[c]
                BY <1>7, <1>8, <2>1, <4>1
            <4>. QED BY <4>2, <4>3 DEF LayAnswered
        <3>3. CASE j # 1
            <4>1. j - 1 \in DOMAIN toPad' /\ toPad'[j - 1] = toPad[j] /\ f.screen # s
                BY <1>5, <3>1, <3>3
            <4>2. ASSUME NEW i \in DOMAIN toPad'
                  PROVE  /\ i # j - 1 => toPad'[i].screen # s
                         /\ i > j - 1 => toPad'[i].by # c
                BY <1>5, <3>1
            <4>3. LayOnly(c, s)'
                BY <3>1, <4>1, <4>2 DEF LayOnly
            <4>4. \A i \in DOMAIN acks' : acks'[i].screen # s
                BY <1>7, <2>1, <4>1
            <4>. QED BY <4>3, <4>4
        <3>. QED BY <3>2, <3>3
    <2>2. ASSUME LayAnswered(c, s) PROVE LayAnswered(c, s)'
        <3>1. f.screen # s /\ f.by # c
            BY <1>5, <2>2 DEF LayAnswered
        <3>2. \A i \in DOMAIN toPad' : toPad'[i].screen # s /\ toPad'[i].by # c
            BY <1>5, <2>2 DEF LayAnswered
        <3>3. \A i \in DOMAIN acks' : acks'[i].screen = s => acks'[i].ok = verdict'[c]
            BY <1>7, <1>8, <2>2, <3>1 DEF LayAnswered
        <3>. QED BY <3>2, <3>3 DEF LayAnswered
    <2>. QED BY <1>3, <2>1, <2>2 DEF LayIInv, LayAlone
<1>12. LayTold'
    <2>. SUFFICES ASSUME NEW c \in Clients, told[c] # None
                  PROVE  /\ told[c] = verdict'[c] /\ layAsks[c] = None
                         /\ \A i \in DOMAIN toPad' : toPad'[i].by # c
        BY <1>1 DEF LayTold
    <2>1. /\ told[c] = verdict[c] /\ layAsks[c] = None
          /\ \A i \in DOMAIN toPad : toPad[i].by # c
        BY DEF LayIInv, LayTold
    <2>2. f.by # c
        BY <1>5, <2>1
    <2>3. \A i \in DOMAIN toPad' : toPad'[i].by # c
        BY <1>5, <2>1
    <2>. QED BY <1>8, <2>1, <2>2, <2>3
<1>. QED BY <1>9, <1>10, <1>11, <1>12 DEF LayIInv

\* An acknowledgement answers whoever waits for its screen
LEMMA LayAcked ==
    ASSUME LayIInv, Lay!Acked
    PROVE  LayIInv'
<1> DEFINE a == Head(acks)
           Mine(c) == Lay!IsFor(a, layAsks[c])
<1>1. /\ acks # <<>> /\ acks' = Tail(acks)
      /\ told' = [c \in Clients |-> IF Mine(c) /\ layAsks[c].alone THEN a.ok ELSE told[c]]
      /\ layAsks' = [c \in Clients |-> IF Mine(c) THEN None ELSE layAsks[c]]
      /\ UNCHANGED <<held, fw, shown, up, toPad, verdict>>
    <2>1. \A c \in Clients : c \in {d \in Clients : Mine(d)} <=> Mine(c)
        OBVIOUS
    <2>. QED BY <2>1 DEF Lay!Acked
<1>2. up /\ acks \in Seq(LayAcks) /\ layAsks \in [Clients -> LayRequests \cup {None}]
    BY <1>1 DEF LayIInv, LayTyped
<1>3. PICK n \in Nat :
          /\ n >= 1 /\ DOMAIN acks = 1 .. n /\ DOMAIN acks' = 1 .. n - 1
          /\ \A i \in 1 .. n - 1 : acks'[i] = acks[i + 1]
          /\ a \in LayAcks /\ a = acks[1] /\ acks' \in Seq(LayAcks)
    BY <1>1, <1>2
<1>4. \A c \in Clients : Mine(c) <=> layAsks[c] # None /\ layAsks[c].screen = a.screen
    BY DEF Lay!IsFor
<1>. HIDE DEF a, Mine
<1>5. a.screen \in Lay!Screens /\ a.ok \in BOOLEAN
    BY <1>3 DEF LayAcks
<1>6. \A c \in Clients : Mine(c) /\ layAsks[c].alone => a.ok = verdict[c] /\ LayAnswered(c, a.screen)
    <2>. SUFFICES ASSUME NEW c \in Clients, Mine(c), layAsks[c].alone
                  PROVE  a.ok = verdict[c] /\ LayAnswered(c, a.screen)
        OBVIOUS
    <2>1. layAsks[c] # None /\ layAsks[c].screen = a.screen
        BY <1>4
    <2>2. 1 \in DOMAIN acks /\ acks[1].screen = a.screen /\ acks[1].ok = a.ok
        BY <1>3
    <2>3. LayAnswered(c, a.screen)
        BY <1>2, <1>5, <2>1, <2>2 DEF LayIInv, LayAlone
    <2>. QED BY <2>2, <2>3 DEF LayAnswered
<1>7. LayTyped'
    <2>1. told' \in [Clients -> {None, TRUE, FALSE}]
        <3>1. a.ok \in {None, TRUE, FALSE}
            BY <1>5
        <3>. QED BY <1>1, <3>1 DEF LayIInv, LayTyped
    <2>2. layAsks' \in [Clients -> LayRequests \cup {None}]
        BY <1>1, <1>2
    <2>. QED BY <1>1, <1>2, <1>3, <2>1, <2>2 DEF LayIInv, LayTyped
<1>8. LaySent'
    BY <1>1 DEF LayIInv, LaySent, LayLast
<1>9. LayAlone'
    <2>. SUFFICES ASSUME NEW c \in Clients, layAsks'[c] # None, layAsks'[c].alone,
                         NEW s \in Lay!Screens, layAsks'[c].screen = s
                  PROVE  \/ LayOnly(c, s)' /\ \A i \in DOMAIN acks' : acks'[i].screen # s
                         \/ LayAnswered(c, s)'
        BY DEF LayAlone
    <2>1. layAsks[c] # None /\ layAsks[c].alone /\ layAsks[c].screen = s
        BY <1>1
    <2>2. CASE LayOnly(c, s) /\ \A i \in DOMAIN acks : acks[i].screen # s
        BY <1>1, <1>3, <2>2 DEF LayOnly
    <2>3. CASE LayAnswered(c, s)
        BY <1>1, <1>3, <2>3 DEF LayAnswered
    <2>. QED BY <1>2, <2>1, <2>2, <2>3 DEF LayIInv, LayAlone
<1>10. LayTold'
    <2>. SUFFICES ASSUME NEW c \in Clients, told'[c] # None
                  PROVE  /\ told'[c] = verdict[c] /\ layAsks'[c] = None
                         /\ \A i \in DOMAIN toPad : toPad[i].by # c
        BY <1>1 DEF LayTold
    <2>1. CASE Mine(c) /\ layAsks[c].alone
        BY <1>1, <1>6, <2>1 DEF LayAnswered
    <2>2. CASE ~(Mine(c) /\ layAsks[c].alone)
        <3>1. told'[c] = told[c]
            BY <1>1, <2>2
        <3>2. told[c] = verdict[c] /\ layAsks[c] = None /\ \A i \in DOMAIN toPad : toPad[i].by # c
            BY <3>1 DEF LayIInv, LayTold
        <3>. QED BY <1>1, <3>1, <3>2
    <2>. QED BY <2>1, <2>2
<1>. QED BY <1>7, <1>8, <1>9, <1>10 DEF LayIInv

LEMMA LayLinks ==
    ASSUME LayIInv, Lay!Unplugged \/ Lay!Connected \/ \E c \in Clients : Lay!GivesUp(c)
    PROVE  LayIInv'
<1>1. ASSUME NEW c \in Clients, Lay!GivesUp(c) PROVE LayIInv'
    <2>1. /\ layAsks' = [layAsks EXCEPT ![c] = None]
          /\ UNCHANGED <<held, fw, shown, up, toPad, acks, verdict, told>>
        BY <1>1 DEF Lay!GivesUp
    <2>2. \A d \in Clients : layAsks'[d] # None => layAsks'[d] = layAsks[d]
        BY <2>1 DEF LayIInv, LayTyped
    <2>3. LayTyped'
        BY <2>1 DEF LayIInv, LayTyped
    <2>4. LaySent'
        BY <2>1 DEF LayIInv, LaySent, LayLast
    <2>5. LayAlone'
        BY <2>1, <2>2 DEF LayIInv, LayAlone, LayOnly, LayAnswered
    <2>6. LayTold'
        <3>1. \A d \in Clients : layAsks[d] = None => layAsks'[d] = None
            BY <2>2
        <3>. QED BY <2>1, <3>1 DEF LayIInv, LayTold
    <2>. QED BY <2>3, <2>4, <2>5, <2>6 DEF LayIInv
<1>2. CASE Lay!Unplugged
    <2>1. /\ up' = FALSE /\ toPad' = <<>> /\ acks' = <<>>
          /\ UNCHANGED <<held, fw, shown, layAsks, verdict, told>>
        BY <1>2 DEF Lay!Unplugged
    <2>2. LayTyped'
        <3>1. up' \in BOOLEAN
            BY <2>1
        <3>2. toPad' \in Seq(LayFrames) /\ acks' \in Seq(LayAcks)
            BY <2>1
        <3>. QED BY <2>1, <3>1, <3>2 DEF LayIInv, LayTyped
    <2>3. LaySent' /\ LayAlone'
        BY <2>1 DEF LaySent, LayAlone
    <2>4. LayTold'
        <3>1. DOMAIN toPad' = {}
            BY <2>1
        <3>. QED BY <2>1, <3>1 DEF LayIInv, LayTold
    <2>. QED BY <2>2, <2>3, <2>4 DEF LayIInv
<1>3. CASE Lay!Connected
    <2> DEFINE Sent(s) == IF held[s] = None THEN <<>>
                          ELSE <<[screen |-> s, layout |-> Lay!Wire(held[s]), by |-> None]>>
               x == Sent("idle")
               y == Sent("playing")
    <2>1. /\ ~up /\ up' = TRUE /\ toPad' = x \o y
          /\ layAsks' = [c \in Clients |-> IF layAsks[c] = None THEN None
                                           ELSE [layAsks[c] EXCEPT !.alone = FALSE]]
          /\ UNCHANGED <<held, fw, shown, acks, verdict, told>>
        BY <1>3 DEF Lay!Connected
    <2>2. ASSUME NEW s \in Lay!Screens
          PROVE  /\ Sent(s) \in Seq(LayFrames)
                 /\ held[s] = None => Sent(s) = <<>>
                 /\ held[s] # None => /\ Len(Sent(s)) = 1 /\ Sent(s)[1].screen = s
                                      /\ Sent(s)[1].layout = held[s] /\ Sent(s)[1].by = None
        <3>1. CASE held[s] = None
            BY <3>1
        <3>2. CASE held[s] # None
            <4>1. held[s] \in LayGood /\ Lay!Wire(held[s]) = held[s]
                BY <3>2, LayCrosses DEF LayIInv, LayTyped
            <4>2. [screen |-> s, layout |-> held[s], by |-> None] \in LayFrames
                BY <4>1 DEF LayFrames
            <4>. QED BY <3>2, <4>1, <4>2
        <3>. QED BY <3>1, <3>2
    <2>. HIDE DEF Sent
    <2>3. /\ x \in Seq(LayFrames) /\ y \in Seq(LayFrames) /\ Len(x) \in {0, 1} /\ Len(y) \in {0, 1}
          /\ held["idle"] # None => Len(x) = 1 /\ x[1].layout = held["idle"]
          /\ held["playing"] # None => Len(y) = 1 /\ y[1].layout = held["playing"]
          /\ Len(x) = 1 => x[1].screen = "idle" /\ x[1].by = None
          /\ Len(y) = 1 => y[1].screen = "playing" /\ y[1].by = None
        BY <2>2 DEF Lay!Screens
    <2>. HIDE DEF x, y
    <2>4. /\ toPad' \in Seq(LayFrames) /\ DOMAIN toPad' = 1 .. Len(x) + Len(y)
          /\ Len(x) = 1 => toPad'[1] = x[1]
          /\ Len(y) = 1 => toPad'[Len(x) + 1] = y[1]
        BY <2>1, <2>3
    <2>5. \A i \in DOMAIN toPad' : /\ toPad'[i].by = None
                                   /\ \/ i = 1 /\ Len(x) = 1 /\ toPad'[i].screen = "idle"
                                      \/ i = Len(x) + 1 /\ Len(y) = 1 /\ toPad'[i].screen = "playing"
        <3>1. ASSUME NEW m \in {0, 1}, NEW n \in {0, 1}, NEW i \in 1 .. m + n
              PROVE  \/ i = 1 /\ m = 1
                     \/ i = m + 1 /\ n = 1
            <4>1. CASE m = 0
                BY <4>1
            <4>2. CASE m = 1
                BY <4>2
            <4>. QED BY <4>1, <4>2
        <3>2. ASSUME NEW i \in DOMAIN toPad'
              PROVE  \/ i = 1 /\ Len(x) = 1
                     \/ i = Len(x) + 1 /\ Len(y) = 1
            BY <2>3, <2>4, <3>1
        <3>. SUFFICES ASSUME NEW i \in DOMAIN toPad'
                      PROVE  /\ toPad'[i].by = None
                             /\ \/ i = 1 /\ Len(x) = 1 /\ toPad'[i].screen = "idle"
                                \/ i = Len(x) + 1 /\ Len(y) = 1 /\ toPad'[i].screen = "playing"
            OBVIOUS
        <3>3. CASE i = 1 /\ Len(x) = 1
            BY <2>3, <2>4, <3>3
        <3>4. CASE i = Len(x) + 1 /\ Len(y) = 1
            BY <2>3, <2>4, <3>4
        <3>. QED BY <3>2, <3>3, <3>4
    <2>6. /\ layAsks' \in [Clients -> LayRequests \cup {None}]
          /\ \A c \in Clients : /\ layAsks'[c] # None => ~layAsks'[c].alone
                                /\ layAsks[c] = None => layAsks'[c] = None
        <3>1. \A c \in Clients : layAsks[c] # None =>
                  /\ [layAsks[c] EXCEPT !.alone = FALSE] \in LayRequests
                  /\ ~[layAsks[c] EXCEPT !.alone = FALSE].alone
            BY LayNotAlone DEF LayIInv, LayTyped
        <3>. QED BY <2>1, <3>1
    <2>7. LayTyped'
        BY <2>1, <2>4, <2>6 DEF LayIInv, LayTyped
    <2>8. LaySent'
        <3>. SUFFICES ASSUME NEW s \in Lay!Screens, held[s] # None
                      PROVE  \E j \in DOMAIN toPad' : LayLast(j, s)' /\ toPad'[j].layout = held[s]
            BY <2>1 DEF LaySent
        <3>1. CASE s = "idle"
            <4>1. 1 \in DOMAIN toPad' /\ toPad'[1].screen = s /\ toPad'[1].layout = held[s]
                BY <2>3, <2>4, <3>1
            <4>2. \A i \in DOMAIN toPad' : i > 1 => toPad'[i].screen # s
                BY <2>3, <2>5, <3>1
            <4>. QED BY <4>1, <4>2 DEF LayLast
        <3>2. CASE s = "playing"
            <4>1. /\ Len(x) + 1 \in DOMAIN toPad' /\ toPad'[Len(x) + 1].screen = s
                  /\ toPad'[Len(x) + 1].layout = held[s]
                BY <2>3, <2>4, <3>2
            <4>2. \A i \in DOMAIN toPad' : ~(i > Len(x) + 1)
                <5>1. ASSUME NEW m \in {0, 1}, NEW n \in {0, 1}, NEW i \in 1 .. m + n
                      PROVE  ~(i > m + 1)
                    OBVIOUS
                <5>. QED BY <2>3, <2>4, <5>1
            <4>3. PICK j : j = Len(x) + 1
                OBVIOUS
            <4>. QED BY <4>1, <4>2, <4>3 DEF LayLast
        <3>. QED BY <3>1, <3>2 DEF Lay!Screens
    <2>9. LayAlone'
        BY <2>6 DEF LayAlone
    <2>10. LayTold'
        BY <2>1, <2>5, <2>6, LayNone DEF LayIInv, LayTold
    <2>. QED BY <2>7, <2>8, <2>9, <2>10 DEF LayIInv
<1>. QED BY <1>1, <1>2, <1>3

LEMMA LayStep == LayIInv /\ [Lay!LayoutNext]_yvars => LayIInv'
<1>. SUFFICES ASSUME LayIInv, [Lay!LayoutNext]_yvars PROVE LayIInv'
    OBVIOUS
<1>1. CASE UNCHANGED yvars
    <2>1. UNCHANGED <<held, fw, shown, up, toPad, acks, layAsks, verdict, told>>
        BY <1>1 DEF yvars
    <2>2. LayTyped' /\ LayTold'
        BY <2>1 DEF LayIInv, LayTyped, LayTold
    <2>3. LaySent'
        BY <2>1 DEF LayIInv, LaySent, LayLast
    <2>4. LayAlone'
        BY <2>1 DEF LayIInv, LayAlone, LayOnly, LayAnswered
    <2>. QED BY <2>2, <2>3, <2>4 DEF LayIInv
<1>2. ASSUME NEW c \in Clients, Lay!SetLayout(c) PROVE LayIInv'
    <2>1. PICK s \in Lay!Screens, layout \in Lay!Layouts :
              /\ layAsks[c] = None /\ Lay!Valid(layout) /\ held' = [held EXCEPT ![s] = layout]
              /\ Lay!Waits(c, s, Lay!Wire(layout))
              /\ verdict' = [verdict EXCEPT ![c] = None] /\ told' = [told EXCEPT ![c] = None]
              /\ UNCHANGED <<fw, shown, up, acks>>
        BY <1>2 DEF Lay!SetLayout
    <2>2. layout \in LayGood
        BY <2>1 DEF LayGood
    <2>3. Lay!Wire(layout) = layout
        BY <2>2, LayCrosses
    <2>. QED BY <2>1, <2>2, <2>3, LayWaits
<1>3. ASSUME NEW c \in Clients, Lay!ResetLayout(c) PROVE LayIInv'
    <2>1. PICK s \in Lay!Screens :
              /\ layAsks[c] = None /\ held' = [held EXCEPT ![s] = None] /\ Lay!Waits(c, s, None)
              /\ verdict' = [verdict EXCEPT ![c] = None] /\ told' = [told EXCEPT ![c] = None]
              /\ UNCHANGED <<fw, shown, up, acks>>
        BY <1>3 DEF Lay!ResetLayout
    <2>. QED BY <2>1, LayWaits
<1>. QED BY <1>1, <1>2, <1>3, LayPadSets, LayAcked, LayLinks DEF Lay!LayoutNext

LEMMA LayHolds == LayIInv => Lay!LayoutsLand /\ Lay!AnswersAreTrue /\ Lay!LayoutTypeOK
<1>. SUFFICES ASSUME LayIInv PROVE Lay!LayoutsLand /\ Lay!AnswersAreTrue /\ Lay!LayoutTypeOK
    OBVIOUS
<1>1. Lay!LayoutsLand
    BY DEF LayIInv, LaySent, Lay!LayoutsLand
<1>2. Lay!AnswersAreTrue
    BY DEF LayIInv, LayTold, Lay!AnswersAreTrue
<1>3. Lay!LayoutTypeOK
    BY DEF LayIInv, LayTyped, LayGood, LayRequests, Lay!LayoutTypeOK
<1>. QED BY <1>1, <1>2, <1>3

-----------------------------------------------------------------------------
(* Rules: every crossing keeps a valid configuration valid, and the pad's record
   after the last frame is the configuration, but for what has no word *)

RulHe == [act : Nat, dz : Nat, mode : {"off", "normal", "continuous"}]
RulPadHe == [act : Nat, dz : Nat, mode : 1 .. 3]

\* The configurations the desktop's validate lets through
RulConfigs ==
    {c \in [usage : Nat, hz : Nat, bright : Nat, pin1 : Nat, pin2 : Nat,
            swipe : {"none", "next", "key"}, skey : Nat, smods : Nat, he : RulHe \cup {None}] :
        Rule!Valid(c)}

\* The pad's record, and the frames
RulPads ==
    [usage : Nat, hz : Nat, bright : Nat, pin1 : Nat, pin2 : Nat, swipe : Nat, skey : Nat,
     smods : Nat, he : RulPadHe \cup {None}]

\* A pad's record holds what the desktop would adopt
RulPadIs(p) ==
    /\ p \in RulPads
    /\ Rule!UsageOk(p.usage) /\ p.bright <= 100 /\ p.hz \in 1 .. 30
    /\ vintage = "old" => /\ p.pin1 = 0 /\ p.pin2 = 0 /\ p.swipe = 0
                          /\ p.skey = 0 /\ p.smods = 0 /\ p.he = None
    /\ vintage = "new" => /\ Rule!PinsOk(p, DesktopPins) /\ p.swipe \in {1, 3, 6}
                          /\ Rule!SwipeOk(Rule!SwipeOf(p.swipe), p.skey)
                          /\ p.smods <= 255 /\ p.he # None /\ Rule!HeOk(p.he)
RulPadOk == RulPadIs(padcfg)

RulTyped ==
    /\ kept \in RulConfigs
    /\ vintage \in {"new", "old"} /\ joinedPad \in BOOLEAN
    /\ \A i \in DOMAIN frames : \E c \in RulConfigs : frames[i] = Rule!Payload(c)
    /\ frames \in Seq(RulPads) /\ (~joinedPad => frames = <<>>)
    /\ backup # None => Rule!Restored \in RulConfigs
    /\ rbounds \in [edits : Nat, drops : Nat]

\* The last frame says what the daemon keeps, and without one the pad reports it
RulSent ==
    joinedPad /\ (vintage = "new" => Rule!PinsOk(kept, PadPins)) =>
        IF frames = <<>>
           THEN \A f \in DOMAIN kept :
                    kept[f] = Rule!DeviceConfigFrom(Rule!Reported(padcfg))[f] \/ Rule!Unsaid(f)
           ELSE frames[Len(frames)] = Rule!Payload(kept)

RulIInv == RulTyped /\ RulPadOk /\ RulSent

LEMMA RulPins == DesktopPins \subseteq Nat \ {0} /\ 14 \in DesktopPins /\ 9 \in DesktopPins
BY RulesAssumption DEF Rule!RulesConstants, Rule!Default

LEMMA RulNone == None \notin RulHe /\ None \notin RulPadHe
<1>1. None \notin [act : Nat, dz : Nat, mode : DOMAIN Rule!HeWire \cup Nat]
    BY RulesAssumption DEF Rule!RulesConstants
<1>. HIDE DEF RulHe
<1>2. RulHe \subseteq [act : Nat, dz : Nat, mode : DOMAIN Rule!HeWire \cup Nat]
    BY DEF RulHe, Rule!HeWire
<1>3. RulPadHe \subseteq [act : Nat, dz : Nat, mode : DOMAIN Rule!HeWire \cup Nat]
    BY DEF RulPadHe, Rule!HeWire
<1>. QED BY <1>1, <1>2, <1>3

LEMMA RulBudgets == RuleBudgets \subseteq [edits : Nat, drops : Nat]
BY RulesAssumption DEF Rule!RulesConstants

\* An action and a mode come back from the wire as they were
LEMMA RulSwipes ==
    /\ \A a \in {"none", "next", "key"} :
          Rule!SwipeWire[a] \in {1, 3, 6} /\ Rule!SwipeOf(Rule!SwipeWire[a]) = a
    /\ Rule!SwipeOf(0) = "next"
    /\ \A n : Rule!SwipeOf(n) \in {"none", "next", "key"}
<1>1. /\ DOMAIN Rule!SwipeWire = {"none", "next", "key"}
      /\ Rule!SwipeWire["none"] = 1 /\ Rule!SwipeWire["next"] = 3 /\ Rule!SwipeWire["key"] = 6
    BY DEF Rule!SwipeWire
<1>2. ASSUME NEW n
      PROVE  Rule!SwipeOf(n) \in {"none", "next", "key"}
    BY <1>1 DEF Rule!SwipeOf, Rule!Default
<1>3. ASSUME NEW a \in {"none", "next", "key"}
      PROVE  Rule!SwipeWire[a] \in {1, 3, 6} /\ Rule!SwipeOf(Rule!SwipeWire[a]) = a
    <2>1. \A b \in DOMAIN Rule!SwipeWire : Rule!SwipeWire[b] = Rule!SwipeWire[a] => b = a
        BY <1>1
    <2>2. Rule!SwipeWire[a] \in {1, 3, 6}
        BY <1>1
    <2>3. a \in DOMAIN Rule!SwipeWire
        BY <1>1
    <2>. QED BY <2>1, <2>2, <2>3 DEF Rule!SwipeOf
<1>4. Rule!SwipeOf(0) = "next"
    BY <1>1 DEF Rule!SwipeOf, Rule!Default
<1>. QED BY <1>2, <1>3, <1>4

LEMMA RulModes ==
    /\ \A m \in {"off", "normal", "continuous"} :
          Rule!HeWire[m] \in 1 .. 3 /\ Rule!HeOf(Rule!HeWire[m]) = m
    /\ \A n : Rule!HeOf(n) \in {"off", "normal", "continuous"}
<1>1. /\ DOMAIN Rule!HeWire = {"off", "normal", "continuous"}
      /\ Rule!HeWire["off"] = 1 /\ Rule!HeWire["normal"] = 2 /\ Rule!HeWire["continuous"] = 3
    BY DEF Rule!HeWire
<1>2. ASSUME NEW n
      PROVE  Rule!HeOf(n) \in {"off", "normal", "continuous"}
    BY <1>1 DEF Rule!HeOf
<1>3. ASSUME NEW m \in {"off", "normal", "continuous"}
      PROVE  Rule!HeWire[m] \in 1 .. 3 /\ Rule!HeOf(Rule!HeWire[m]) = m
    <2>1. \A b \in DOMAIN Rule!HeWire : Rule!HeWire[b] = Rule!HeWire[m] => b = m
        BY <1>1
    <2>2. Rule!HeWire[m] \in 1 .. 3
        BY <1>1
    <2>3. m \in DOMAIN Rule!HeWire
        BY <1>1
    <2>. QED BY <2>1, <2>2, <2>3 DEF Rule!HeOf
<1>. QED BY <1>2, <1>3

\* A Hall effect key on the wire
RulWired(k) == [act |-> k.act, dz |-> k.dz, mode |-> Rule!HeWire[k.mode]]
RulRead(k) == [act |-> k.act, dz |-> k.dz, mode |-> Rule!HeOf(k.mode)]

\* A record with its fields spelt out
RulFields(u, h, b, p, q, s, k, m, e) ==
    [usage |-> u, hz |-> h, bright |-> b, pin1 |-> p, pin2 |-> q, swipe |-> s, skey |-> k,
     smods |-> m, he |-> e]

RulOf(c) == RulFields(c.usage, c.hz, c.bright, c.pin1, c.pin2, c.swipe, c.skey, c.smods, c.he)

\* What a frame says, field by field
LEMMA RulPayload ==
    ASSUME NEW c \in RulConfigs
    PROVE  /\ c = RulOf(c)
           /\ Rule!Payload(c) =
                 RulFields(c.usage, c.hz, c.bright, c.pin1, c.pin2, Rule!SwipeWire[c.swipe], c.skey,
                           c.smods, Rule!HeToWire(c.he))
           /\ Rule!HeToWire(c.he) \in RulPadHe \cup {None}
           /\ c.he = None <=> Rule!HeToWire(c.he) = None
           /\ Rule!HeFromWire(Rule!HeToWire(c.he)) = c.he
           /\ c.he # None => /\ Rule!HeToWire(c.he).act = c.he.act
                             /\ Rule!HeToWire(c.he).dz = c.he.dz
           /\ Rule!Payload(c) \in RulPads
<1>1. /\ c = RulOf(c)
      /\ c.usage \in Nat /\ c.hz \in Nat /\ c.bright \in Nat /\ c.pin1 \in Nat /\ c.pin2 \in Nat
      /\ c.swipe \in {"none", "next", "key"} /\ c.skey \in Nat /\ c.smods \in Nat
      /\ c.he \in RulHe \cup {None}
    BY DEF RulConfigs, RulOf, RulFields
<1>2. Rule!SwipeWire[c.swipe] \in Nat
    BY <1>1, RulSwipes
<1>3. ASSUME NEW k \in RulHe
      PROVE  /\ Rule!HeToWire(k) = [act |-> k.act, dz |-> k.dz, mode |-> Rule!HeWire[k.mode]]
             /\ Rule!HeToWire(k) \in RulPadHe
             /\ Rule!HeFromWire(Rule!HeToWire(k)) = k
    <2>1. /\ k = [act |-> k.act, dz |-> k.dz, mode |-> k.mode]
          /\ k.act \in Nat /\ k.dz \in Nat /\ k.mode \in {"off", "normal", "continuous"}
          /\ k # None
        BY RulNone DEF RulHe
    <2>2. Rule!HeToWire(k) = [act |-> k.act, dz |-> k.dz, mode |-> Rule!HeWire[k.mode]]
        BY <2>1 DEF Rule!HeToWire
    <2>3. Rule!HeToWire(k) \in RulPadHe
        BY <2>1, <2>2, RulModes DEF RulPadHe
    <2>4. PICK w : w = Rule!HeWire[k.mode] /\ Rule!HeOf(w) = k.mode
        BY <2>1, RulModes
    <2>5. Rule!HeToWire(k) # None
        BY <2>3, RulNone
    <2>6. Rule!HeFromWire(Rule!HeToWire(k)) = [act |-> k.act, dz |-> k.dz, mode |-> k.mode]
        BY <2>2, <2>4, <2>5 DEF Rule!HeFromWire
    <2>. QED BY <2>1, <2>2, <2>3, <2>6
<1>4. c.he = None => Rule!HeToWire(c.he) = None /\ Rule!HeFromWire(Rule!HeToWire(c.he)) = c.he
    BY DEF Rule!HeToWire, Rule!HeFromWire
<1>5. /\ Rule!HeToWire(c.he) \in RulPadHe \cup {None}
      /\ c.he = None <=> Rule!HeToWire(c.he) = None
      /\ Rule!HeFromWire(Rule!HeToWire(c.he)) = c.he
      /\ c.he # None => Rule!HeToWire(c.he).act = c.he.act /\ Rule!HeToWire(c.he).dz = c.he.dz
    BY <1>1, <1>3, <1>4, RulNone
<1>6. Rule!Payload(c) =
          RulFields(c.usage, c.hz, c.bright, c.pin1, c.pin2, Rule!SwipeWire[c.swipe], c.skey,
                    c.smods, Rule!HeToWire(c.he))
    <2> DEFINE r == [c EXCEPT !.swipe = Rule!SwipeWire[c.swipe]]
    <2>1. Rule!Payload(c) = [r EXCEPT !.he = Rule!HeToWire(c.he)]
        BY DEF Rule!Payload
    <2>2. r = RulFields(c.usage, c.hz, c.bright, c.pin1, c.pin2, Rule!SwipeWire[c.swipe], c.skey,
                        c.smods, c.he)
        BY <1>1 DEF RulOf, RulFields
    <2>. HIDE DEF r
    <2>. QED BY <2>1, <2>2 DEF RulFields
<1>7. Rule!Payload(c) \in RulPads
    BY <1>1, <1>2, <1>5, <1>6 DEF RulPads, RulFields
<1>. QED BY <1>1, <1>5, <1>6, <1>7

\* What the daemon adopts of a pad's record
LEMMA RulAdopted ==
    ASSUME NEW p \in RulPads
    PROVE  /\ p = RulOf(p)
           /\ Rule!DeviceConfigFrom(Rule!Reported(p)) =
                 RulFields(p.usage, IF p.hz = 0 THEN 10 ELSE p.hz, p.bright,
                           IF p.pin1 = 0 THEN 14 ELSE p.pin1, IF p.pin2 = 0 THEN 9 ELSE p.pin2,
                           Rule!SwipeOf(p.swipe), p.skey, p.smods, Rule!HeFromWire(p.he))
<1>1. p = RulOf(p)
    BY DEF RulPads, RulOf, RulFields
<1>. DEFINE z == IF p.hz = 0 THEN 10 ELSE p.hz
            a == IF p.pin1 = 0 THEN 14 ELSE p.pin1
            b == IF p.pin2 = 0 THEN 9 ELSE p.pin2
            q == Rule!Reported(p)
<1>2. q = RulFields(p.usage, z, p.bright, p.pin1, p.pin2, p.swipe, p.skey, p.smods, p.he)
    <2>1. q = [p EXCEPT !.hz = z]
        BY DEF Rule!Reported
    <2>. HIDE DEF z, q
    <2>. QED BY <1>1, <2>1 DEF RulOf, RulFields
<1>3. Rule!Default.pin1 = 14 /\ Rule!Default.pin2 = 9
    BY DEF Rule!Default
<1>4. q.pin1 = p.pin1 /\ q.pin2 = p.pin2 /\ q.swipe = p.swipe /\ q.he = p.he
    BY <1>2 DEF RulFields
<1>. HIDE DEF q
<1>. DEFINE r1 == [q EXCEPT !.pin1 = a]
            r2 == [r1 EXCEPT !.pin2 = b]
            r3 == [r2 EXCEPT !.swipe = Rule!SwipeOf(p.swipe)]
<1>5. Rule!DeviceConfigFrom(q) = [r3 EXCEPT !.he = Rule!HeFromWire(p.he)]
    BY <1>3, <1>4 DEF Rule!DeviceConfigFrom
<1>. HIDE DEF z, a, b
<1>6. r1 = RulFields(p.usage, z, p.bright, a, p.pin2, p.swipe, p.skey, p.smods, p.he)
    BY <1>2 DEF RulFields
<1>. HIDE DEF r1
<1>7. r2 = RulFields(p.usage, z, p.bright, a, b, p.swipe, p.skey, p.smods, p.he)
    BY <1>6 DEF RulFields
<1>. HIDE DEF r2
<1>8. r3 = RulFields(p.usage, z, p.bright, a, b, Rule!SwipeOf(p.swipe), p.skey, p.smods, p.he)
    BY <1>7 DEF RulFields
<1>. HIDE DEF r3
<1>9. Rule!DeviceConfigFrom(q) =
          RulFields(p.usage, z, p.bright, a, b, Rule!SwipeOf(p.swipe), p.skey, p.smods,
                    Rule!HeFromWire(p.he))
    BY <1>5, <1>8 DEF RulFields
<1>. QED BY <1>1, <1>9 DEF a, b, q, z

\* What validate says of a configuration
LEMMA RulValid ==
    ASSUME NEW c \in RulConfigs
    PROVE  /\ c.usage \in 4 .. 231 /\ c.hz \in 1 .. 30 /\ c.bright \in 0 .. 100
           /\ c.pin1 \in DesktopPins /\ c.pin2 \in DesktopPins /\ c.pin1 # c.pin2
           /\ c.pin1 \in Nat /\ c.pin1 # 0 /\ c.pin2 \in Nat /\ c.pin2 # 0
           /\ c.swipe \in {"none", "next", "key"} /\ c.skey \in Nat /\ Rule!SwipeOk(c.swipe, c.skey)
           /\ c.smods \in 0 .. 255
           /\ c.he \in RulHe \cup {None} /\ Rule!HeOk(c.he)
BY RulPins DEF RulConfigs, Rule!Valid, Rule!UsageOk, Rule!PinsOk

\* A frame of a valid configuration says everything but a key of 0, no Hall effect
\* key and an actuation of 0; firmware before them reads its first three fields.
RulMergedHe(c) ==
    IF c.he = None THEN padcfg.he
    ELSE [act |-> Rule!Or(c.he.act, padcfg.he.act), dz |-> c.he.dz, mode |-> Rule!HeToWire(c.he).mode]

LEMMA RulMerged ==
    ASSUME RulPadOk, NEW c \in RulConfigs
    PROVE  Rule!Merged(padcfg, Rule!Payload(c)) =
               IF vintage = "old"
                  THEN RulFields(c.usage, c.hz, c.bright, padcfg.pin1, padcfg.pin2, padcfg.swipe,
                                 padcfg.skey, padcfg.smods, padcfg.he)
                  ELSE RulFields(c.usage, c.hz, c.bright, c.pin1, c.pin2, Rule!SwipeWire[c.swipe],
                                 Rule!Or(c.skey, padcfg.skey), c.smods, RulMergedHe(c))
<1>. DEFINE f == Rule!Payload(c)
<1>1. /\ f.usage = c.usage /\ f.hz = c.hz /\ f.bright = c.bright /\ f.pin1 = c.pin1
      /\ f.pin2 = c.pin2 /\ f.swipe = Rule!SwipeWire[c.swipe] /\ f.skey = c.skey
      /\ f.smods = c.smods /\ f.he = Rule!HeToWire(c.he)
    BY RulPayload DEF RulFields
<1>2. /\ c.he = None <=> f.he = None
      /\ c.he # None => f.he.act = c.he.act /\ f.he.dz = c.he.dz
    BY <1>1, RulPayload
<1>. HIDE DEF f
<1>3. padcfg = RulOf(padcfg)
    BY RulAdopted DEF RulPadOk, RulPadIs
<1>4. /\ Rule!Or(f.usage, padcfg.usage) = c.usage /\ Rule!Or(f.hz, padcfg.hz) = c.hz
      /\ Rule!Or(f.pin1, padcfg.pin1) = c.pin1 /\ Rule!Or(f.pin2, padcfg.pin2) = c.pin2
      /\ Rule!Or(f.swipe, padcfg.swipe) = Rule!SwipeWire[c.swipe]
      /\ Rule!Or(f.skey, padcfg.skey) = Rule!Or(c.skey, padcfg.skey)
      /\ f.smods % 256 = c.smods
    BY <1>1, RulValid, RulSwipes DEF Rule!Or
<1>. DEFINE b1 == [padcfg EXCEPT !.usage = c.usage]
            b2 == [b1 EXCEPT !.hz = c.hz]
            b3 == [b2 EXCEPT !.bright = c.bright]
<1>5. Rule!Basics(padcfg, f) = b3
    BY <1>1, <1>4 DEF Rule!Basics
<1>6. b1 = RulFields(c.usage, padcfg.hz, padcfg.bright, padcfg.pin1, padcfg.pin2, padcfg.swipe,
                     padcfg.skey, padcfg.smods, padcfg.he)
    BY <1>3 DEF RulOf, RulFields
<1>. HIDE DEF b1
<1>7. b2 = RulFields(c.usage, c.hz, padcfg.bright, padcfg.pin1, padcfg.pin2, padcfg.swipe,
                     padcfg.skey, padcfg.smods, padcfg.he)
    BY <1>6 DEF RulFields
<1>. HIDE DEF b2
<1>8. b3 = RulFields(c.usage, c.hz, c.bright, padcfg.pin1, padcfg.pin2, padcfg.swipe,
                     padcfg.skey, padcfg.smods, padcfg.he)
    BY <1>7 DEF RulFields
<1>. HIDE DEF b3
<1>9. CASE vintage = "old"
    BY <1>5, <1>8, <1>9 DEF Rule!Merged, f
<1>10. CASE vintage # "old"
    <2>0. /\ b3.pin1 = padcfg.pin1 /\ b3.pin2 = padcfg.pin2 /\ b3.swipe = padcfg.swipe
          /\ b3.skey = padcfg.skey /\ b3.he = padcfg.he
        BY <1>8 DEF RulFields
    <2>1. (IF f.he = None THEN b3.he
           ELSE [act |-> Rule!Or(f.he.act, b3.he.act), dz |-> f.he.dz, mode |-> f.he.mode]) =
              RulMergedHe(c)
        BY <1>1, <1>2, <2>0 DEF RulMergedHe
    <2>. DEFINE m1 == [b3 EXCEPT !.pin1 = c.pin1]
                m2 == [m1 EXCEPT !.pin2 = c.pin2]
                m3 == [m2 EXCEPT !.swipe = Rule!SwipeWire[c.swipe]]
                m4 == [m3 EXCEPT !.skey = Rule!Or(c.skey, padcfg.skey)]
                m5 == [m4 EXCEPT !.smods = c.smods]
                m6 == [m5 EXCEPT !.he = RulMergedHe(c)]
    <2>2. Rule!Merged(padcfg, f) = m6
        <3>1. Rule!Merged(padcfg, f) =
                  [b3 EXCEPT !.pin1 = Rule!Or(f.pin1, b3.pin1), !.pin2 = Rule!Or(f.pin2, b3.pin2),
                             !.swipe = Rule!Or(f.swipe, b3.swipe), !.skey = Rule!Or(f.skey, b3.skey),
                             !.smods = f.smods % 256,
                             !.he = IF f.he = None THEN b3.he
                                    ELSE [act |-> Rule!Or(f.he.act, b3.he.act), dz |-> f.he.dz,
                                          mode |-> f.he.mode]]
            BY <1>5, <1>10 DEF Rule!Merged
        <3>. QED BY <1>4, <2>0, <2>1, <3>1
    <2>3. m1 = RulFields(c.usage, c.hz, c.bright, c.pin1, padcfg.pin2, padcfg.swipe,
                         padcfg.skey, padcfg.smods, padcfg.he)
        BY <1>8 DEF RulFields
    <2>. HIDE DEF m1
    <2>4. m2 = RulFields(c.usage, c.hz, c.bright, c.pin1, c.pin2, padcfg.swipe,
                         padcfg.skey, padcfg.smods, padcfg.he)
        BY <2>3 DEF RulFields
    <2>. HIDE DEF m2
    <2>5. m3 = RulFields(c.usage, c.hz, c.bright, c.pin1, c.pin2, Rule!SwipeWire[c.swipe],
                         padcfg.skey, padcfg.smods, padcfg.he)
        BY <2>4 DEF RulFields
    <2>. HIDE DEF m3
    <2>6. m4 = RulFields(c.usage, c.hz, c.bright, c.pin1, c.pin2, Rule!SwipeWire[c.swipe],
                         Rule!Or(c.skey, padcfg.skey), padcfg.smods, padcfg.he)
        BY <2>5 DEF RulFields
    <2>. HIDE DEF m4
    <2>7. m5 = RulFields(c.usage, c.hz, c.bright, c.pin1, c.pin2, Rule!SwipeWire[c.swipe],
                         Rule!Or(c.skey, padcfg.skey), c.smods, padcfg.he)
        BY <2>6 DEF RulFields
    <2>. HIDE DEF m5
    <2>8. m6 = RulFields(c.usage, c.hz, c.bright, c.pin1, c.pin2, Rule!SwipeWire[c.swipe],
                         Rule!Or(c.skey, padcfg.skey), c.smods, RulMergedHe(c))
        BY <2>7 DEF RulFields
    <2>. HIDE DEF m6
    <2>. QED BY <1>10, <2>2, <2>8 DEF f
<1>. QED BY <1>9, <1>10

\* The record a frame leaves is one the desktop would adopt, if the pad takes it, and
\* the pad takes what is on its pins; then it reports what the frame said.
LEMMA RulTakes ==
    ASSUME RulPadOk, vintage \in {"new", "old"}, NEW c \in RulConfigs, NEW p,
           p = Rule!Merged(padcfg, Rule!Payload(c))
    PROVE  /\ RulPadIs(p)
           /\ (vintage = "new" => Rule!PinsOk(c, PadPins)) => Rule!PadValid(p)
<1>1. /\ c.usage \in 4 .. 231 /\ c.hz \in 1 .. 30 /\ c.bright \in 0 .. 100
      /\ c.pin1 \in DesktopPins /\ c.pin2 \in DesktopPins /\ c.pin1 # c.pin2
      /\ c.pin1 \in Nat /\ c.pin2 \in Nat
      /\ c.swipe \in {"none", "next", "key"} /\ c.skey \in Nat /\ Rule!SwipeOk(c.swipe, c.skey)
      /\ c.smods \in 0 .. 255
      /\ c.he \in RulHe \cup {None} /\ Rule!HeOk(c.he)
    BY RulValid
<1>2. /\ padcfg.pin1 \in Nat /\ padcfg.pin2 \in Nat /\ padcfg.swipe \in Nat
      /\ padcfg.skey \in Nat /\ padcfg.smods \in Nat /\ padcfg.he \in RulPadHe \cup {None}
    BY DEF RulPadOk, RulPadIs, RulPads
<1>3. CASE vintage = "old"
    <2>1. p = RulFields(c.usage, c.hz, c.bright, padcfg.pin1, padcfg.pin2, padcfg.swipe,
                        padcfg.skey, padcfg.smods, padcfg.he)
        BY <1>3, RulMerged
    <2>2. p \in RulPads
        BY <1>1, <1>2, <2>1 DEF RulFields, RulPads
    <2>3. /\ p.usage = c.usage /\ p.hz = c.hz /\ p.bright = c.bright /\ p.pin1 = padcfg.pin1
          /\ p.pin2 = padcfg.pin2 /\ p.swipe = padcfg.swipe /\ p.skey = padcfg.skey
          /\ p.smods = padcfg.smods /\ p.he = padcfg.he
        BY <2>1 DEF RulFields
    <2>. QED BY <1>1, <1>3, <2>2, <2>3 DEF RulPadOk, RulPadIs, Rule!UsageOk, Rule!PadValid
<1>4. CASE vintage = "new"
    <2>1. p = RulFields(c.usage, c.hz, c.bright, c.pin1, c.pin2, Rule!SwipeWire[c.swipe],
                        Rule!Or(c.skey, padcfg.skey), c.smods, RulMergedHe(c))
        BY <1>4, RulMerged
    <2>2. RulMergedHe(c) \in RulPadHe /\ Rule!HeOk(RulMergedHe(c))
        <3>1. padcfg.he \in RulPadHe /\ Rule!HeOk(padcfg.he) /\ padcfg.he # None
            BY <1>2, <1>4 DEF RulPadOk, RulPadIs
        <3>2. CASE c.he = None
            BY <3>1, <3>2 DEF RulMergedHe
        <3>3. CASE c.he # None
            <4>1. c.he \in RulHe /\ Rule!HeToWire(c.he).mode \in 1 .. 3
                BY <1>1, <3>3, RulPayload DEF RulPadHe
            <4>2. c.he.act \in Nat /\ c.he.dz \in Nat /\ c.he.act <= 1000 /\ c.he.dz <= 1000
                BY <1>1, <3>3, <4>1 DEF RulHe, Rule!HeOk
            <4>3. padcfg.he.act \in Nat /\ padcfg.he.act <= 1000
                BY <3>1 DEF RulPadHe, Rule!HeOk
            <4>4. PICK act : act = Rule!Or(c.he.act, padcfg.he.act) /\ act \in Nat /\ act <= 1000
                BY <4>2, <4>3 DEF Rule!Or
            <4>5. RulMergedHe(c) = [act |-> act, dz |-> c.he.dz, mode |-> Rule!HeToWire(c.he).mode]
                BY <3>3, <4>4 DEF RulMergedHe
            <4>. QED BY <4>1, <4>2, <4>4, <4>5 DEF RulPadHe, Rule!HeOk
        <3>. QED BY <3>2, <3>3
    <2>3. PICK k : /\ k = Rule!Or(c.skey, padcfg.skey) /\ k \in Nat
                   /\ Rule!SwipeOk(c.swipe, k)
        BY <1>1, <1>2, <1>4 DEF RulPadOk, RulPadIs, Rule!Or, Rule!SwipeOk
    <2>4. PICK w : /\ w = Rule!SwipeWire[c.swipe] /\ w \in {1, 3, 6}
                   /\ Rule!SwipeOf(w) = c.swipe
        BY <1>1, RulSwipes
    <2>5. PICK h \in RulPadHe : h = RulMergedHe(c) /\ Rule!HeOk(h)
        BY <2>2
    <2>6. p = RulFields(c.usage, c.hz, c.bright, c.pin1, c.pin2, w, k, c.smods, h)
        BY <2>1, <2>3, <2>4, <2>5
    <2>7. p \in RulPads
        BY <1>1, <2>3, <2>4, <2>5, <2>6 DEF RulFields, RulPads
    <2>8. /\ p.usage = c.usage /\ p.hz = c.hz /\ p.bright = c.bright /\ p.pin1 = c.pin1
          /\ p.pin2 = c.pin2 /\ p.swipe = w /\ p.skey = k /\ p.smods = c.smods /\ p.he = h
        BY <2>6 DEF RulFields
    <2>9. /\ Rule!UsageOk(p.usage) /\ p.bright <= 100 /\ p.hz \in 1 .. 30
          /\ Rule!PinsOk(p, DesktopPins) /\ p.swipe \in {1, 3, 6}
          /\ Rule!SwipeOk(Rule!SwipeOf(p.swipe), p.skey) /\ p.smods <= 255
          /\ p.he # None /\ Rule!HeOk(p.he)
        BY <1>1, <2>3, <2>4, <2>5, <2>8, RulNone DEF Rule!UsageOk, Rule!PinsOk
    <2>10. Rule!PinsOk(c, PadPins) => Rule!PadValid(p)
        BY <1>1, <2>8, <2>9 DEF Rule!PinsOk, Rule!PadValid
    <2>. QED BY <1>4, <2>7, <2>9, <2>10 DEF RulPadIs
<1>. QED BY <1>3, <1>4

\* What the pad would report of the record a frame left is what the frame said, but
\* for what the protocol cannot say
LEMMA RulLands ==
    ASSUME RulPadOk, vintage \in {"new", "old"}, kept \in RulConfigs, NEW p,
           p = Rule!Merged(padcfg, Rule!Payload(kept)), NEW f \in DOMAIN kept
    PROVE  kept[f] = Rule!DeviceConfigFrom(Rule!Reported(p))[f] \/ Rule!Unsaid(f)
<1>1. /\ kept.usage \in 4 .. 231 /\ kept.hz \in 1 .. 30 /\ kept.pin1 \in Nat /\ kept.pin1 # 0
      /\ kept.pin2 \in Nat /\ kept.pin2 # 0
      /\ kept.swipe \in {"none", "next", "key"} /\ kept.he \in RulHe \cup {None}
    BY RulValid
<1>2. f \in {"usage", "hz", "bright", "pin1", "pin2", "swipe", "skey", "smods", "he"}
    <2>1. DOMAIN kept = {"usage", "hz", "bright", "pin1", "pin2", "swipe", "skey", "smods", "he"}
        BY RulPayload DEF RulOf, RulFields
    <2>. QED BY <2>1
<1>3. p \in RulPads
    BY RulTakes DEF RulPadIs
<1>4. PICK d : /\ d = Rule!DeviceConfigFrom(Rule!Reported(p))
               /\ d.usage = p.usage /\ d.hz = (IF p.hz = 0 THEN 10 ELSE p.hz)
               /\ d.bright = p.bright /\ d.pin1 = (IF p.pin1 = 0 THEN 14 ELSE p.pin1)
               /\ d.pin2 = (IF p.pin2 = 0 THEN 9 ELSE p.pin2)
               /\ d.swipe = Rule!SwipeOf(p.swipe) /\ d.skey = p.skey
               /\ d.smods = p.smods /\ d.he = Rule!HeFromWire(p.he)
    BY <1>3, RulAdopted DEF RulFields
<1>5. CASE vintage = "old"
    <2>1. p.usage = kept.usage /\ p.hz = kept.hz /\ p.bright = kept.bright
        BY <1>5, RulMerged DEF RulFields
    <2>2. f \in {"usage", "hz", "bright"} => kept[f] = d[f]
        BY <1>1, <1>4, <2>1
    <2>3. f \notin {"usage", "hz", "bright"} => Rule!Unsaid(f)
        BY <1>2, <1>5 DEF Rule!Unsaid, Rule!NewFields
    <2>. QED BY <1>4, <2>2, <2>3
<1>6. CASE vintage = "new"
    <2>1. /\ p.usage = kept.usage /\ p.hz = kept.hz /\ p.bright = kept.bright
          /\ p.pin1 = kept.pin1 /\ p.pin2 = kept.pin2 /\ p.swipe = Rule!SwipeWire[kept.swipe]
          /\ p.skey = Rule!Or(kept.skey, padcfg.skey) /\ p.smods = kept.smods
          /\ p.he = RulMergedHe(kept)
        BY <1>6, RulMerged DEF RulFields
    <2>2. f \in {"usage", "hz", "bright", "pin1", "pin2", "smods"} => kept[f] = d[f]
        BY <1>1, <1>4, <2>1
    <2>3. f = "swipe" => kept[f] = d[f]
        BY <1>1, <1>4, <2>1, RulSwipes
    <2>4. f = "skey" => kept[f] = d[f] \/ Rule!Unsaid(f)
        BY <1>4, <2>1 DEF Rule!Or, Rule!Unsaid
    <2>5. CASE f = "he" /\ kept.he # None /\ kept.he.act # 0
        <3>1. kept.he \in RulHe
            BY <1>1, <2>5
        <3>2. PICK w \in RulPadHe : /\ w = Rule!HeToWire(kept.he) /\ w.act = kept.he.act
                                    /\ w.dz = kept.he.dz /\ Rule!HeFromWire(w) = kept.he
            BY <2>5, <3>1, RulPayload
        <3>3. RulMergedHe(kept) = [act |-> w.act, dz |-> w.dz, mode |-> w.mode]
            BY <2>5, <3>2 DEF RulMergedHe, Rule!Or
        <3>4. w = [act |-> w.act, dz |-> w.dz, mode |-> w.mode]
            BY DEF RulPadHe
        <3>. QED BY <1>4, <2>1, <2>5, <3>2, <3>3, <3>4
    <2>6. CASE f = "he" /\ (kept.he = None \/ kept.he.act = 0)
        BY <2>6 DEF Rule!Unsaid
    <2>. QED BY <1>2, <1>4, <2>2, <2>3, <2>4, <2>5, <2>6
<1>. QED BY <1>5, <1>6

\* What a pad reports is a configuration the desktop would let through
LEMMA RulReports ==
    ASSUME RulPadOk, vintage \in {"new", "old"}
    PROVE  Rule!DeviceConfigFrom(Rule!Reported(padcfg)) \in RulConfigs
<1>0. /\ padcfg \in RulPads
      /\ padcfg.usage \in 4 .. 231 /\ padcfg.bright \in Nat /\ padcfg.bright <= 100
      /\ padcfg.hz \in 1 .. 30 /\ padcfg.pin1 \in Nat /\ padcfg.pin2 \in Nat
      /\ padcfg.swipe \in Nat /\ padcfg.skey \in Nat /\ padcfg.smods \in Nat
      /\ padcfg.he \in RulPadHe \cup {None}
    BY DEF RulPadOk, RulPadIs, RulPads, Rule!UsageOk
<1>1. PICK h : h = Rule!HeFromWire(padcfg.he) /\ h \in RulHe \cup {None} /\ Rule!HeOk(h)
    <2>1. CASE padcfg.he = None
        BY <2>1 DEF Rule!HeFromWire, Rule!HeOk
    <2>2. CASE padcfg.he # None
        <3>1. vintage = "new" /\ padcfg.he \in RulPadHe
            BY <1>0, <2>2 DEF RulPadOk, RulPadIs
        <3>2. /\ padcfg.he = [act |-> padcfg.he.act, dz |-> padcfg.he.dz, mode |-> padcfg.he.mode]
              /\ padcfg.he.act \in Nat /\ padcfg.he.dz \in Nat
            BY <3>1 DEF RulPadHe
        <3>3. padcfg.he.act <= 1000 /\ padcfg.he.dz <= 1000
            BY <2>2, <3>1 DEF RulPadOk, RulPadIs, Rule!HeOk
        <3>4. PICK m \in {"off", "normal", "continuous"} : m = Rule!HeOf(padcfg.he.mode)
            BY RulModes
        <3>5. Rule!HeFromWire(padcfg.he) = [act |-> padcfg.he.act, dz |-> padcfg.he.dz, mode |-> m]
            BY <2>2, <3>2, <3>4 DEF Rule!HeFromWire
        <3>. QED BY <3>2, <3>3, <3>4, <3>5 DEF RulHe, Rule!HeOk
    <2>. QED BY <2>1, <2>2
<1>2. PICK a, b, s : /\ a = (IF padcfg.pin1 = 0 THEN 14 ELSE padcfg.pin1)
                     /\ b = (IF padcfg.pin2 = 0 THEN 9 ELSE padcfg.pin2)
                     /\ s = Rule!SwipeOf(padcfg.swipe)
    OBVIOUS
<1>3. /\ a \in DesktopPins /\ b \in DesktopPins /\ a # b /\ a \in Nat /\ b \in Nat
    <2>1. CASE vintage = "old"
        BY <1>0, <1>2, <2>1, RulPins DEF RulPadOk, RulPadIs
    <2>2. CASE vintage = "new"
        BY <1>0, <1>2, <2>2, RulPins DEF RulPadOk, RulPadIs, Rule!PinsOk
    <2>. QED BY <2>1, <2>2
<1>4. s \in {"none", "next", "key"} /\ Rule!SwipeOk(s, padcfg.skey) /\ padcfg.smods <= 255
    <2>1. CASE vintage = "old"
        BY <1>2, <2>1, RulSwipes DEF RulPadOk, RulPadIs, Rule!SwipeOk
    <2>2. CASE vintage = "new"
        BY <1>2, <2>2, RulSwipes DEF RulPadOk, RulPadIs
    <2>. QED BY <2>1, <2>2
<1>5. PICK d : /\ d = Rule!DeviceConfigFrom(Rule!Reported(padcfg))
               /\ d = RulFields(padcfg.usage, padcfg.hz, padcfg.bright, a, b, s, padcfg.skey,
                                padcfg.smods, h)
    BY <1>0, <1>1, <1>2, RulAdopted
<1>6. d \in [usage : Nat, hz : Nat, bright : Nat, pin1 : Nat, pin2 : Nat,
             swipe : {"none", "next", "key"}, skey : Nat, smods : Nat, he : RulHe \cup {None}]
    BY <1>0, <1>1, <1>3, <1>4, <1>5 DEF RulFields
<1>7. /\ d.usage = padcfg.usage /\ d.hz = padcfg.hz /\ d.bright = padcfg.bright /\ d.pin1 = a
      /\ d.pin2 = b /\ d.swipe = s /\ d.skey = padcfg.skey /\ d.smods = padcfg.smods /\ d.he = h
    BY <1>5 DEF RulFields
<1>8. Rule!Valid(d)
    BY <1>0, <1>1, <1>3, <1>4, <1>7 DEF Rule!Valid, Rule!UsageOk, Rule!PinsOk
<1>. QED BY <1>5, <1>6, <1>8 DEF RulConfigs

LEMMA RulDefault == Rule!Default \in RulConfigs
<1>1. Rule!Default = RulFields(29, 10, 100, 14, 9, "next", 0, 0, None)
    BY DEF Rule!Default, RulFields
<1>2. Rule!Default \in [usage : Nat, hz : Nat, bright : Nat, pin1 : Nat, pin2 : Nat,
                        swipe : {"none", "next", "key"}, skey : Nat, smods : Nat,
                        he : RulHe \cup {None}]
    BY <1>1 DEF RulFields
<1>3. PICK d : d = Rule!Default
    OBVIOUS
<1>4. /\ d.usage = 29 /\ d.hz = 10 /\ d.bright = 100 /\ d.pin1 = 14 /\ d.pin2 = 9
      /\ d.swipe = "next" /\ d.skey = 0 /\ d.smods = 0 /\ d.he = None
    BY <1>1, <1>3 DEF RulFields
<1>5. Rule!Valid(d)
    BY <1>4, RulPins DEF Rule!Valid, Rule!UsageOk, Rule!SwipeOk, Rule!HeOk, Rule!PinsOk
<1>. QED BY <1>2, <1>3, <1>5 DEF RulConfigs

LEMMA RulInitial ==
    ASSUME Rule!RulesInit
    PROVE  RulIInv
<1>. DEFINE c == Rule!Default
            f == Rule!Payload(c)
<1>1. c \in RulConfigs
    BY RulDefault
<1>2. f = RulFields(29, 10, 100, 14, 9, 3, 0, 0, None)
    <2>1. /\ c.usage = 29 /\ c.hz = 10 /\ c.bright = 100 /\ c.pin1 = 14 /\ c.pin2 = 9
          /\ c.swipe = "next" /\ c.skey = 0 /\ c.smods = 0 /\ c.he = None
        BY DEF Rule!Default
    <2>2. Rule!SwipeWire["next"] = 3 /\ Rule!HeToWire(None) = None
        BY DEF Rule!SwipeWire, Rule!HeToWire
    <2>. QED BY <1>1, <2>1, <2>2, RulPayload
<1>. HIDE DEF c, f
<1>3. RulPadOk
    <2>1. CASE vintage = "new"
        <3>1. PICK h : h = [Rule!StockHe EXCEPT !.mode = 1] /\ h = [act |-> 500, dz |-> 0, mode |-> 1]
            <4>1. PICK off : Rule!StockHe = [act |-> 500, dz |-> 0, mode |-> off]
                BY DEF Rule!StockHe
            <4>2. \A v : [Rule!StockHe EXCEPT !.mode = v] = [act |-> 500, dz |-> 0, mode |-> v]
                BY <4>1
            <4>. QED BY <4>2
        <3>2. padcfg = [f EXCEPT !.he = h]
            BY <2>1, <3>1 DEF Rule!RulesInit, c, f
        <3>3. padcfg = RulFields(29, 10, 100, 14, 9, 3, 0, 0, h)
            BY <1>2, <3>2 DEF RulFields
        <3>4. h \in RulPadHe /\ Rule!HeOk(h)
            <4>1. h = [act |-> 500, dz |-> 0, mode |-> 1]
                BY <3>1
            <4>2. h \in RulPadHe
                BY <4>1 DEF RulPadHe
            <4>3. h.act = 500 /\ h.dz = 0
                BY <4>1
            <4>. QED BY <4>2, <4>3 DEF Rule!HeOk
        <3>5. padcfg \in RulPads
            BY <3>3, <3>4 DEF RulFields, RulPads
        <3>6. /\ padcfg.usage = 29 /\ padcfg.hz = 10 /\ padcfg.bright = 100 /\ padcfg.pin1 = 14
              /\ padcfg.pin2 = 9 /\ padcfg.swipe = 3 /\ padcfg.skey = 0 /\ padcfg.smods = 0
              /\ padcfg.he = h
            BY <3>3 DEF RulFields
        <3>7. Rule!SwipeOk(Rule!SwipeOf(3), 0)
            <4>1. Rule!SwipeOf(3) = "next"
                <5>1. Rule!SwipeWire["next"] = 3
                    BY DEF Rule!SwipeWire
                <5>. QED BY <5>1, RulSwipes
            <4>. QED BY <4>1 DEF Rule!SwipeOk
        <3>. QED BY <2>1, <3>4, <3>5, <3>6, <3>7, RulPins, RulNone
             DEF RulPadOk, RulPadIs, Rule!UsageOk, Rule!PinsOk
    <2>2. CASE vintage = "old"
        <3>. DEFINE m1 == [f EXCEPT !.pin1 = 0]
                    m2 == [m1 EXCEPT !.pin2 = 0]
        <3>1. padcfg = [m2 EXCEPT !.swipe = 0]
            BY <2>2 DEF Rule!RulesInit, c, f
        <3>2. m1 = RulFields(29, 10, 100, 0, 9, 3, 0, 0, None)
            BY <1>2 DEF RulFields
        <3>. HIDE DEF m1
        <3>3. m2 = RulFields(29, 10, 100, 0, 0, 3, 0, 0, None)
            BY <3>2 DEF RulFields
        <3>. HIDE DEF m2
        <3>4. padcfg = RulFields(29, 10, 100, 0, 0, 0, 0, 0, None)
            BY <3>1, <3>3 DEF RulFields
        <3>5. padcfg \in RulPads
            BY <3>4 DEF RulFields, RulPads
        <3>6. /\ padcfg.usage = 29 /\ padcfg.hz = 10 /\ padcfg.bright = 100 /\ padcfg.pin1 = 0
              /\ padcfg.pin2 = 0 /\ padcfg.swipe = 0 /\ padcfg.skey = 0 /\ padcfg.smods = 0
              /\ padcfg.he = None
            BY <3>4 DEF RulFields
        <3>. QED BY <2>2, <3>5, <3>6 DEF RulPadOk, RulPadIs, Rule!UsageOk
    <2>. QED BY <2>1, <2>2 DEF Rule!RulesInit
<1>4. RulTyped
    <2>1. kept \in RulConfigs
        BY <1>1 DEF Rule!RulesInit, c
    <2>2. frames = <<>> /\ joinedPad \in BOOLEAN
        BY DEF Rule!RulesInit
    <2>4. frames \in Seq(RulPads)
        BY <2>2
    <2>3. rbounds \in [edits : Nat, drops : Nat]
        BY RulBudgets DEF Rule!RulesInit
    <2>. QED BY <2>1, <2>2, <2>3, <2>4 DEF Rule!RulesInit, RulTyped
<1>5. RulSent
    BY DEF Rule!RulesInit, RulSent
<1>. QED BY <1>3, <1>4, <1>5 DEF RulIInv

\* A configuration is kept, and sent to the pad that is there
LEMMA RulKeeps ==
    ASSUME RulIInv, NEW c \in RulConfigs, Rule!Keeps(c), rbounds' \in [edits : Nat, drops : Nat],
           UNCHANGED <<padcfg, vintage, joinedPad, backup>>
    PROVE  RulIInv'
<1>1. kept' = c /\ frames' = IF joinedPad THEN Append(frames, Rule!Payload(c)) ELSE frames
    BY DEF Rule!Keeps
<1>2. PICK f \in RulPads : f = Rule!Payload(c)
    BY RulPayload
<1>3. frames \in Seq(RulPads)
    BY DEF RulIInv, RulTyped
<1>4. RulPadOk'
    BY DEF RulIInv, RulPadOk, RulPadIs
<1>5. joinedPad => /\ frames' \in Seq(RulPads) /\ frames' # <<>> /\ frames'[Len(frames')] = f
                   /\ \A i \in DOMAIN frames' : \E e \in RulConfigs : frames'[i] = Rule!Payload(e)
    <2>. SUFFICES ASSUME joinedPad
                  PROVE  /\ frames' \in Seq(RulPads) /\ frames' # <<>> /\ frames'[Len(frames')] = f
                         /\ \A i \in DOMAIN frames' :
                               \E e \in RulConfigs : frames'[i] = Rule!Payload(e)
        OBVIOUS
    <2>1. frames' = Append(frames, f)
        BY <1>1, <1>2
    <2>2. /\ frames' \in Seq(RulPads) /\ frames' # <<>> /\ frames'[Len(frames')] = f
          /\ \A i \in DOMAIN frames' : \/ i \in DOMAIN frames /\ frames'[i] = frames[i]
                                       \/ frames'[i] = f
        BY <1>3, <2>1
    <2>. QED BY <1>2, <2>2 DEF RulIInv, RulTyped
<1>6. ~joinedPad => frames' = frames
    BY <1>1
<1>7. RulTyped'
    <2>1. backup' # None => Rule!Restored' \in RulConfigs
        BY DEF RulIInv, RulTyped, Rule!Restored
    <2>. QED BY <1>1, <1>5, <1>6, <2>1 DEF RulIInv, RulTyped
<1>8. RulSent'
    BY <1>1, <1>2, <1>5 DEF RulSent
<1>. QED BY <1>4, <1>7, <1>8 DEF RulIInv

LEMMA RulCounts ==
    ASSUME RulTyped, NEW what \in {"edits", "drops"}, Rule!CountRule(what)
    PROVE  rbounds' \in [edits : Nat, drops : Nat]
BY DEF RulTyped, Rule!CountRule

\* A field the forms, the CLI or a client may set
LEMMA RulEntries ==
    ASSUME kept \in RulConfigs, NEW f \in DOMAIN Rule!Entries, NEW v \in Rule!Entries[f],
           Rule!Valid([kept EXCEPT ![f] = v])
    PROVE  [kept EXCEPT ![f] = v] \in RulConfigs
<1>. DEFINE All == [usage : Nat, hz : Nat, bright : Nat, pin1 : Nat, pin2 : Nat,
                    swipe : {"none", "next", "key"}, skey : Nat, smods : Nat,
                    he : RulHe \cup {None}]
<1>1. kept \in All
    BY DEF RulConfigs
<1>2. \/ f \in {"usage", "hz", "bright", "pin1", "pin2", "skey", "smods"} /\ v \in Nat
      \/ f = "swipe" /\ v \in {"none", "next", "key"}
      \/ f = "he" /\ v \in RulHe
    <2>1. Rule!Entries =
              [usage |-> {0, 39, 44}, hz |-> {10, 60}, bright |-> {0, 100}, pin1 |-> {7, 8, 9},
               pin2 |-> {9}, swipe |-> {"none", "next", "key"}, skey |-> {0, 44},
               smods |-> {0, 1, 256},
               he |-> [act : {0, 300}, dz : {0}, mode : {"off", "continuous"}]]
        BY DEF Rule!Entries
    <2>2. [act : {0, 300}, dz : {0}, mode : {"off", "continuous"}] \subseteq RulHe
        BY DEF RulHe
    <2>3. f \in {"usage", "hz", "bright", "pin1", "pin2", "swipe", "skey", "smods", "he"}
        BY <2>1
    <2>4. f \in {"usage", "hz", "bright", "pin1", "pin2", "skey", "smods"} => v \in Nat
        BY <2>1
    <2>5. f = "swipe" => v \in {"none", "next", "key"}
        BY <2>1
    <2>6. f = "he" => v \in RulHe
        BY <2>1, <2>2
    <2>. QED BY <2>3, <2>4, <2>5, <2>6
<1>3. [kept EXCEPT ![f] = v] \in All
    <2>1. CASE f = "usage" /\ v \in Nat
        BY <1>1, <2>1
    <2>2. CASE f = "hz" /\ v \in Nat
        BY <1>1, <2>2
    <2>3. CASE f = "bright" /\ v \in Nat
        BY <1>1, <2>3
    <2>4. CASE f = "pin1" /\ v \in Nat
        BY <1>1, <2>4
    <2>5. CASE f = "pin2" /\ v \in Nat
        BY <1>1, <2>5
    <2>6. CASE f = "skey" /\ v \in Nat
        BY <1>1, <2>6
    <2>7. CASE f = "smods" /\ v \in Nat
        BY <1>1, <2>7
    <2>8. CASE f = "swipe" /\ v \in {"none", "next", "key"}
        BY <1>1, <2>8
    <2>9. CASE f = "he" /\ v \in RulHe
        BY <1>1, <2>9
    <2>. QED BY <1>2, <2>1, <2>2, <2>3, <2>4, <2>5, <2>6, <2>7, <2>8, <2>9
<1>. QED BY <1>3 DEF RulConfigs

\* A key's name in a backup is read as the key
LEMMA RulNames == \A u \in 4 .. 231 : Rule!KeyNamed(Rule!KeyName(u)) = u
<1>. SUFFICES ASSUME NEW u \in 4 .. 231 PROVE Rule!KeyNamed(Rule!KeyName(u)) = u
    OBVIOUS
<1>1. CASE u \in 4 .. 29
    <2>1. Rule!KeyName(u) = <<"letter", u - 4>>
        BY <1>1 DEF Rule!KeyName
    <2>. QED BY <1>1, <2>1 DEF Rule!KeyNamed
<1>2. CASE u \in 30 .. 39
    <2>1. Rule!KeyName(u) = <<"digit", (u - 29) % 10>>
        BY <1>2 DEF Rule!KeyName
    <2>2. Rule!KeyNamed(<<"digit", (u - 29) % 10>>) =
              IF (u - 29) % 10 = 0 THEN 39 ELSE ((u - 29) % 10) + 29
        BY DEF Rule!KeyNamed
    <2>3. (u - 29) % 10 = IF u = 39 THEN 0 ELSE u - 29
        BY <1>2
    <2>. QED BY <1>2, <2>1, <2>2, <2>3
<1>3. CASE u \notin 4 .. 29 /\ u \notin 30 .. 39
    <2>1. Rule!KeyName(u) = <<"hex", u>>
        BY <1>3 DEF Rule!KeyName
    <2>. QED BY <2>1 DEF Rule!KeyNamed
<1>. QED BY <1>1, <1>2, <1>3

LEMMA RulExports ==
    ASSUME RulIInv, Rule!Exports
    PROVE  RulIInv'
<1>1. /\ backup' = [kept EXCEPT !.usage = Rule!KeyName(kept.usage), !.he = None]
      /\ UNCHANGED <<kept, padcfg, vintage, joinedPad, frames, rbounds>>
    BY DEF Rule!Exports
<1>2. kept \in RulConfigs
    BY DEF RulIInv, RulTyped
<1>3. PICK d : d = Rule!Restored' /\ d = [backup' EXCEPT !.usage = Rule!KeyNamed(backup'.usage)]
    BY DEF Rule!Restored
<1>4. d = RulFields(kept.usage, kept.hz, kept.bright, kept.pin1, kept.pin2, kept.swipe, kept.skey,
                    kept.smods, None)
    <2>1. PICK n : n = Rule!KeyName(kept.usage) /\ Rule!KeyNamed(n) = kept.usage
        BY <1>2, RulNames, RulValid
    <2>. DEFINE r == [kept EXCEPT !.usage = n]
    <2>2. backup' = [r EXCEPT !.he = None]
        BY <1>1, <2>1
    <2>3. r = RulFields(n, kept.hz, kept.bright, kept.pin1, kept.pin2, kept.swipe, kept.skey,
                        kept.smods, kept.he)
        <3>1. kept = RulOf(kept)
            BY <1>2, RulPayload
        <3>. QED BY <3>1 DEF RulOf, RulFields
    <2>. HIDE DEF r
    <2>4. backup' = RulFields(n, kept.hz, kept.bright, kept.pin1, kept.pin2, kept.swipe, kept.skey,
                              kept.smods, None)
        BY <2>2, <2>3 DEF RulFields
    <2>5. d = [backup' EXCEPT !.usage = kept.usage]
        BY <1>3, <2>1, <2>4 DEF RulFields
    <2>. QED BY <2>4, <2>5 DEF RulFields
<1>5. d \in RulConfigs
    <2>1. /\ d.usage = kept.usage /\ d.hz = kept.hz /\ d.bright = kept.bright
          /\ d.pin1 = kept.pin1 /\ d.pin2 = kept.pin2 /\ d.swipe = kept.swipe
          /\ d.skey = kept.skey /\ d.smods = kept.smods /\ d.he = None
        BY <1>4 DEF RulFields
    <2>2. Rule!Valid(d)
        BY <1>2, <2>1 DEF RulConfigs, Rule!Valid, Rule!HeOk, Rule!PinsOk
    <2>3. d \in [usage : Nat, hz : Nat, bright : Nat, pin1 : Nat, pin2 : Nat,
                 swipe : {"none", "next", "key"}, skey : Nat, smods : Nat, he : RulHe \cup {None}]
        BY <1>2, <1>4 DEF RulConfigs, RulFields
    <2>. QED BY <2>2, <2>3 DEF RulConfigs
<1>6. RulTyped'
    BY <1>1, <1>3, <1>5 DEF RulIInv, RulTyped
<1>7. RulPadOk' /\ RulSent'
    <2>1. RulPadOk'
        BY <1>1 DEF RulIInv, RulPadOk, RulPadIs
    <2>2. RulSent'
        BY <1>1 DEF RulIInv, RulSent, Rule!Unsaid
    <2>. QED BY <2>1, <2>2
<1>. QED BY <1>6, <1>7 DEF RulIInv

\* The pad reads a frame
LEMMA RulSetConfig ==
    ASSUME RulIInv, Rule!SetConfig
    PROVE  RulIInv'
<1>. DEFINE f == Head(frames)
            p == Rule!Merged(padcfg, f)
<1>1. /\ frames # <<>> /\ frames' = Tail(frames)
      /\ padcfg' = IF Rule!PadValid(p) THEN p ELSE padcfg
      /\ UNCHANGED <<kept, vintage, joinedPad, backup, rbounds>>
    BY DEF Rule!SetConfig
<1>2. /\ frames \in Seq(RulPads) /\ vintage \in {"new", "old"} /\ kept \in RulConfigs
      /\ joinedPad /\ RulPadOk
    BY <1>1 DEF RulIInv, RulTyped
<1>3. PICK n \in Nat : /\ n = Len(frames) /\ n >= 1 /\ DOMAIN frames = 1 .. n
                       /\ f = frames[1] /\ frames' \in Seq(RulPads) /\ Len(frames') = n - 1
                       /\ DOMAIN frames' = 1 .. n - 1
                       /\ \A i \in 1 .. n - 1 : frames'[i] = frames[i + 1]
    BY <1>1, <1>2
<1>4. PICK c \in RulConfigs : f = Rule!Payload(c)
    BY <1>3 DEF RulIInv, RulTyped
<1>. HIDE DEF f
<1>5. PICK q : q = p
    OBVIOUS
<1>6. q = Rule!Merged(padcfg, Rule!Payload(c))
    BY <1>4, <1>5
<1>. HIDE DEF p
<1>7. RulPadOk'
    <2>1. CASE Rule!PadValid(q)
        <3>1. padcfg' = q
            BY <1>1, <1>5, <2>1
        <3>2. vintage' = vintage
            BY <1>1
        <3>3. RulPadIs(q)
            BY <1>2, <1>6, RulTakes
        <3>. QED BY <3>1, <3>2, <3>3 DEF RulPadOk, RulPadIs
    <2>2. CASE ~Rule!PadValid(q)
        <3>1. UNCHANGED <<padcfg, vintage>>
            BY <1>1, <1>5, <2>2
        <3>. QED BY <1>2, <3>1 DEF RulPadOk, RulPadIs
    <2>. QED BY <2>1, <2>2
<1>8. RulTyped'
    BY <1>1, <1>2, <1>3 DEF RulIInv, RulTyped, Rule!Restored
<1>9. RulSent'
    <2>. SUFFICES ASSUME vintage = "new" => Rule!PinsOk(kept, PadPins)
                  PROVE  IF frames' = <<>>
                            THEN \A g \in DOMAIN kept :
                                    \/ kept[g] = Rule!DeviceConfigFrom(Rule!Reported(padcfg'))[g]
                                    \/ Rule!Unsaid(g)
                            ELSE frames'[Len(frames')] = Rule!Payload(kept)
        BY <1>1 DEF RulSent, Rule!Unsaid
    <2>1. frames[n] = Rule!Payload(kept)
        BY <1>1, <1>2, <1>3 DEF RulIInv, RulSent
    <2>2. CASE n = 1
        <3>1. q = Rule!Merged(padcfg, Rule!Payload(kept))
            BY <1>3, <1>5, <2>1, <2>2 DEF p
        <3>2. padcfg' = q
            BY <1>1, <1>2, <1>5, <3>1, RulTakes
        <3>3. frames' = <<>>
            BY <1>3, <2>2
        <3>. QED BY <1>2, <3>1, <3>2, <3>3, RulLands
    <2>3. CASE n # 1
        <3>1. frames' # <<>> /\ frames'[Len(frames')] = frames[n]
            BY <1>3, <2>3
        <3>. QED BY <2>1, <3>1
    <2>. QED BY <2>2, <2>3
<1>. QED BY <1>7, <1>8, <1>9 DEF RulIInv

LEMMA RulLinks ==
    ASSUME RulIInv, Rule!Joins \/ Rule!Leaves
    PROVE  RulIInv'
<1>1. CASE Rule!Joins
    <2>1. /\ ~joinedPad /\ joinedPad' = TRUE
          /\ kept' = Rule!DeviceConfigFrom(Rule!Reported(padcfg))
          /\ UNCHANGED <<padcfg, vintage, frames, backup, rbounds>>
        BY <1>1 DEF Rule!Joins
    <2>2. kept' \in RulConfigs /\ frames = <<>> /\ joinedPad' \in BOOLEAN
        BY <2>1, RulReports DEF RulIInv, RulTyped
    <2>3. RulPadOk'
        BY <2>1 DEF RulIInv, RulPadOk, RulPadIs
    <2>4. RulTyped'
        BY <2>1, <2>2 DEF RulIInv, RulTyped, Rule!Restored
    <2>5. RulSent'
        BY <2>1, <2>2 DEF RulSent
    <2>. QED BY <2>3, <2>4, <2>5 DEF RulIInv
<1>2. CASE Rule!Leaves
    <2>1. /\ joinedPad' = FALSE /\ frames' = <<>>
          /\ UNCHANGED <<kept, padcfg, vintage, backup>>
        BY <1>2 DEF Rule!Leaves
    <2>2. rbounds' \in [edits : Nat, drops : Nat]
        BY <1>2, RulCounts DEF RulIInv, Rule!Leaves
    <2>3. RulPadOk'
        BY <2>1 DEF RulIInv, RulPadOk, RulPadIs
    <2>4. RulTyped'
        <3>1. joinedPad' \in BOOLEAN
            BY <2>1
        <3>2. frames' \in Seq(RulPads) /\ DOMAIN frames' = {}
            BY <2>1
        <3>. QED BY <2>1, <2>2, <3>1, <3>2 DEF RulIInv, RulTyped, Rule!Restored
    <2>5. RulSent'
        BY <2>1 DEF RulSent
    <2>. QED BY <2>3, <2>4, <2>5 DEF RulIInv
<1>. QED BY <1>1, <1>2

LEMMA RulStep == RulIInv /\ [Rule!RulesNext]_jvars => RulIInv'
<1>. SUFFICES ASSUME RulIInv, [Rule!RulesNext]_jvars PROVE RulIInv'
    OBVIOUS
<1>1. CASE UNCHANGED jvars
    <2>1. UNCHANGED <<kept, padcfg, vintage, joinedPad, frames, backup, rbounds>>
        BY <1>1 DEF jvars
    <2>2. RulTyped'
        BY <2>1 DEF RulIInv, RulTyped, Rule!Restored
    <2>3. RulPadOk'
        BY <2>1 DEF RulIInv, RulPadOk, RulPadIs
    <2>4. RulSent'
        BY <2>1 DEF RulIInv, RulSent, Rule!Unsaid
    <2>. QED BY <2>2, <2>3, <2>4 DEF RulIInv
<1>2. CASE Rule!Edits
    <2>1. PICK f \in DOMAIN Rule!Entries : \E v \in Rule!Entries[f] :
              /\ Rule!CountRule("edits")
              /\ Rule!Valid([kept EXCEPT ![f] = v])
              /\ Rule!Keeps([kept EXCEPT ![f] = v])
              /\ UNCHANGED <<padcfg, vintage, joinedPad, backup>>
        BY <1>2 DEF Rule!Edits
    <2>2. PICK v \in Rule!Entries[f] :
              /\ Rule!CountRule("edits")
              /\ Rule!Valid([kept EXCEPT ![f] = v])
              /\ Rule!Keeps([kept EXCEPT ![f] = v])
              /\ UNCHANGED <<padcfg, vintage, joinedPad, backup>>
        BY <2>1
    <2>3. [kept EXCEPT ![f] = v] \in RulConfigs
        BY <2>2, RulEntries DEF RulIInv, RulTyped
    <2>4. rbounds' \in [edits : Nat, drops : Nat]
        BY <2>2, RulCounts DEF RulIInv
    <2>. QED BY <2>2, <2>3, <2>4, RulKeeps
<1>3. CASE Rule!Imports
    <2>1. Rule!Restored \in RulConfigs
        BY <1>3 DEF Rule!Imports, RulIInv, RulTyped
    <2>2. rbounds' \in [edits : Nat, drops : Nat]
        BY <1>3, RulCounts DEF RulIInv, Rule!Imports
    <2>3. Rule!Keeps(Rule!Restored) /\ UNCHANGED <<padcfg, vintage, joinedPad, backup>>
        BY <1>3 DEF Rule!Imports
    <2>. QED BY <2>1, <2>2, <2>3, RulKeeps
<1>. QED BY <1>1, <1>2, <1>3, RulExports, RulSetConfig, RulLinks DEF Rule!RulesNext

LEMMA RulHolds == RulIInv => Rule!SettingsLand /\ Rule!RulesTypeOK
<1>. SUFFICES ASSUME RulIInv PROVE Rule!SettingsLand /\ Rule!RulesTypeOK
    OBVIOUS
<1>1. Rule!SettingsLand
    BY DEF RulIInv, RulSent, Rule!SettingsLand
<1>2. padcfg.bright \in 0 .. 100
    BY DEF RulIInv, RulPadOk, RulPadIs, RulPads
<1>3. ASSUME NEW i \in DOMAIN frames PROVE frames[i].bright \in 0 .. 100
    <2>1. PICK c \in RulConfigs : frames[i] = Rule!Payload(c)
        BY DEF RulIInv, RulTyped
    <2>2. frames[i].bright = c.bright
        BY <2>1, RulPayload DEF RulFields
    <2>. QED BY <2>2, RulValid
<1>4. Rule!Valid(kept) /\ (backup # None => Rule!Valid(Rule!Restored))
    BY DEF RulIInv, RulTyped, RulConfigs
<1>5. \A b \in DOMAIN rbounds : rbounds[b] \in Nat
    BY DEF RulIInv, RulTyped
<1>6. vintage \in {"new", "old"} /\ joinedPad \in BOOLEAN
    BY DEF RulIInv, RulTyped
<1>. QED BY <1>1, <1>2, <1>3, <1>4, <1>5, <1>6 DEF Rule!RulesTypeOK

-----------------------------------------------------------------------------
(* The board test: a report of one wiring is what that wiring gives *)

BrdPins == {Brd!Carrier, Brd!HandPins}
BrdModules == {"none", "mx", "he"}
BrdWirings == {w \in Brd!Wirings : Brd!Plausible(w)}

\* Whether a key line is low, with or without a key held
BrdLow(w, hold, i, pin) ==
    \/ hold /\ i = 1 /\ (pin = Brd!Carrier[1] \/ ~Brd!Powered(w))
    \/ w.fault = "gnd" /\ i = 1 /\ pin = Brd!Carrier[1]

BrdUp(w, hold, ran, pins) == {i \in 1 .. 2 : ran /\ ~BrdLow(w, hold, i, pins[i])}
BrdDown(w, hold, ran, pins) ==
    {i \in 1 .. 2 : ran /\ Brd!PullUp(w, i, pins[i]) /\ ~BrdLow(w, hold, i, pins[i])}

\* The report of a wiring
BrdId(w) == IF heOn THEN None ELSE Brd!IdOf(w)
BrdModule(w) == IF heOn THEN bootmod ELSE Brd!ModuleFromId(BrdId(w))
BrdSpares(w) == IF BrdModule(w) = "none" THEN {} ELSE Brd!Spares

BrdReports(r, w, hold) ==
    /\ r.ran \in BOOLEAN /\ (heOn => ~r.ran) /\ r.pins \in BrdPins
    /\ r.boot = bootmod /\ r.module = BrdModule(w) /\ r.id = BrdId(w)
    /\ r.probe = IF BrdModule(w) = "none" /\ w.reversed THEN 1500 ELSE 0
    /\ r.up = BrdUp(w, hold, r.ran, r.pins) /\ r.down = BrdDown(w, hold, r.ran, r.pins)
    /\ r.spares = BrdSpares(w) /\ r.spareUp = BrdSpares(w) \ Brd!SpareGnd(w)
    /\ r.spareDown = BrdSpares(w) \cap Brd!Spare3V3(w)
    /\ r.bridged = BrdSpares(w) \cap Brd!SpareBridge(w)

BrdTyped ==
    /\ wiring \in BrdWirings /\ pressed \in BOOLEAN /\ bootmod \in BrdModules
    /\ heOn \in BOOLEAN /\ inputOn \in BOOLEAN /\ keysOff \in BOOLEAN /\ kpins \in BrdPins
    /\ tbudget \in [tests : Nat, rewires : Nat]
    /\ report # None => report.up \subseteq 1 .. 2 /\ report.down \subseteq 1 .. 2

\* With a Hall effect board at power-on the keys are not on the input of the line test
BrdInput ==
    /\ heOn => bootmod = "he"
    /\ bootmod = "he" => ~inputOn /\ (lines # None => ~lines.ran)

BrdLines ==
    lines # None =>
        /\ lines.wiring \in BrdWirings /\ lines.held \in BOOLEAN /\ lines.ran \in BOOLEAN
        /\ lines.up = BrdUp(lines.wiring, lines.held, lines.ran, kpins)
        /\ lines.down = BrdDown(lines.wiring, lines.held, lines.ran, kpins)

BrdTrue ==
    truth # None =>
        /\ truth.wiring \in BrdWirings /\ truth.held \in BOOLEAN
        /\ BrdReports(report, truth.wiring, truth.held)

BrdIInv == BrdTyped /\ BrdInput /\ BrdLines /\ BrdTrue

LEMMA BrdBudgets == BoardBudgets \subseteq [tests : Nat, rewires : Nat]
BY BoardAssumption DEF Brd!BoardConstants

LEMMA BrdNone ==
    /\ \A w \in BrdWirings, hold \in BOOLEAN : [wiring |-> w, held |-> hold] # None
    /\ \A w : Brd!IdOf(w) # None
<1>1. None \notin Nat \X Nat /\ None \notin [wiring : Brd!Wirings, held : BOOLEAN]
    BY BoardAssumption DEF Brd!BoardConstants
<1>2. ASSUME NEW w PROVE Brd!IdOf(w) \in Nat \X Nat
    BY DEF Brd!IdOf
<1>3. ASSUME NEW w \in BrdWirings, NEW hold \in BOOLEAN
      PROVE  [wiring |-> w, held |-> hold] \in [wiring : Brd!Wirings, held : BOOLEAN]
    BY <1>3 DEF BrdWirings
<1>. QED BY <1>1, <1>2, <1>3

LEMMA BrdModuleOf ==
    ASSUME NEW w \in BrdWirings
    PROVE  /\ Brd!ModuleFromId(Brd!IdOf(w)) \in BrdModules
           /\ Brd!ModuleFromId(Brd!IdOf(w)) =
                 IF w.module = "none" \/ w.reversed \/ w.fault = "id" THEN "none" ELSE w.module
           /\ Brd!IdOf(w)[1] = IF w.module = "none" \/ w.reversed THEN 20
                               ELSE IF w.fault = "id" THEN 3300
                               ELSE IF w.module = "mx" THEN 300 ELSE 1060
           /\ Brd!IdOf(w)[2] = IF w.module = "none" \/ w.reversed THEN 0
                               ELSE IF w.fault = "id" THEN 3300
                               ELSE IF w.module = "mx" THEN 250 ELSE 600
<1>0. /\ w.module \in {"none", "mx", "he"} /\ w.reversed \in BOOLEAN
      /\ w.module = "none" => ~w.reversed /\ w.fault = "none"
      /\ w.reversed => w.fault = "none"
    BY DEF BrdWirings, Brd!Wirings, Brd!Plausible
<1>1. CASE w.module = "none" \/ w.reversed
    <2>1. Brd!IdOf(w) = <<20, 0>>
        BY <1>0, <1>1 DEF Brd!IdOf
    <2>2. Brd!ModuleFromId(<<20, 0>>) = "none"
        BY DEF Brd!ModuleFromId
    <2>. QED BY <1>1, <2>1, <2>2 DEF BrdModules
<1>2. CASE ~(w.module = "none" \/ w.reversed) /\ w.fault = "id"
    <2>1. Brd!IdOf(w) = <<3300, 3300>>
        BY <1>0, <1>2 DEF Brd!IdOf
    <2>2. Brd!ModuleFromId(<<3300, 3300>>) = "none"
        BY DEF Brd!ModuleFromId
    <2>. QED BY <1>2, <2>1, <2>2 DEF BrdModules
<1>3. CASE ~(w.module = "none" \/ w.reversed) /\ w.fault # "id" /\ w.module = "mx"
    <2>1. Brd!IdOf(w) = <<300, 250>>
        BY <1>3 DEF Brd!IdOf
    <2>2. Brd!ModuleFromId(<<300, 250>>) = "mx"
        BY DEF Brd!ModuleFromId
    <2>. QED BY <1>3, <2>1, <2>2 DEF BrdModules
<1>4. CASE ~(w.module = "none" \/ w.reversed) /\ w.fault # "id" /\ w.module = "he"
    <2>1. Brd!IdOf(w) = <<1060, 600>>
        BY <1>4 DEF Brd!IdOf
    <2>2. Brd!ModuleFromId(<<1060, 600>>) = "he"
        BY DEF Brd!ModuleFromId
    <2>. QED BY <1>4, <2>1, <2>2 DEF BrdModules
<1>. QED BY <1>0, <1>1, <1>2, <1>3, <1>4

LEMMA BrdInitial ==
    ASSUME Brd!BoardInit
    PROVE  BrdIInv
<1>1. wiring \in BrdWirings /\ bootmod = Brd!ModuleFromId(Brd!IdOf(wiring))
    BY DEF Brd!BoardInit, BrdWirings
<1>2. bootmod \in BrdModules
    BY <1>1, BrdModuleOf
<1>3. inputOn = (bootmod # "he") /\ lines = None /\ report = None /\ truth = None
    BY DEF Brd!BoardInit
<1>4. heOn \in BOOLEAN /\ (heOn => bootmod = "he")
    <2>1. heOn \in (IF bootmod = "he" THEN BOOLEAN ELSE {FALSE})
        BY DEF Brd!BoardInit
    <2>2. CASE bootmod = "he"
        BY <2>1, <2>2
    <2>3. CASE bootmod # "he"
        BY <2>1, <2>3
    <2>. QED BY <2>2, <2>3
<1>5. pressed \in BOOLEAN /\ keysOff \in BOOLEAN /\ kpins \in BrdPins
    BY DEF Brd!BoardInit, BrdPins
<1>6. inputOn \in BOOLEAN
    BY <1>3, Zenon
<1>7. tbudget \in [tests : Nat, rewires : Nat]
    BY BrdBudgets DEF Brd!BoardInit
<1>8. BrdTyped
    BY <1>1, <1>2, <1>3, <1>4, <1>5, <1>6, <1>7 DEF BrdTyped
<1>9. BrdInput
    BY <1>3, <1>4 DEF BrdInput
<1>10. BrdLines /\ BrdTrue
    BY <1>3 DEF BrdLines, BrdTrue
<1>. QED BY <1>8, <1>9, <1>10 DEF BrdIInv

LEMMA BrdCounts ==
    ASSUME BrdTyped, NEW what \in {"tests", "rewires"}, Brd!CountBoard(what)
    PROVE  tbudget' \in [tests : Nat, rewires : Nat]
BY DEF BrdTyped, Brd!CountBoard

LEMMA BrdLineTest ==
    ASSUME BrdIInv, Brd!LineTest
    PROVE  BrdIInv'
<1>1. /\ lines = None /\ inputOn' = FALSE
      /\ lines' = [ran |-> inputOn, wiring |-> wiring, held |-> pressed,
                   up   |-> {i \in 1 .. 2 : inputOn /\ ~Brd!Low(wiring, i, kpins[i])},
                   down |-> {i \in 1 .. 2 : /\ inputOn /\ Brd!PullUp(wiring, i, kpins[i])
                                            /\ ~Brd!Low(wiring, i, kpins[i])}]
      /\ UNCHANGED <<wiring, pressed, bootmod, heOn, keysOff, kpins, report, truth>>
    BY DEF Brd!LineTest
<1>2. \A i, pin : Brd!Low(wiring, i, pin) <=> BrdLow(wiring, pressed, i, pin)
    BY DEF Brd!Low, BrdLow
<1>3. PICK u : u = BrdUp(wiring, pressed, inputOn, kpins)
    OBVIOUS
<1>4. PICK d : d = BrdDown(wiring, pressed, inputOn, kpins)
    OBVIOUS
<1>5. PICK on, hold : on = inputOn /\ hold = pressed
    OBVIOUS
<1>6. {i \in 1 .. 2 : inputOn /\ ~Brd!Low(wiring, i, kpins[i])} = u
    BY <1>2, <1>3 DEF BrdUp
<1>7. {i \in 1 .. 2 : inputOn /\ Brd!PullUp(wiring, i, kpins[i])
                         /\ ~Brd!Low(wiring, i, kpins[i])} = d
    BY <1>2, <1>4 DEF BrdDown
<1>8. lines' = [ran |-> on, wiring |-> wiring, held |-> hold, up |-> u, down |-> d]
    BY <1>1, <1>5, <1>6, <1>7
<1>9. /\ lines'.ran = inputOn /\ lines'.wiring = wiring /\ lines'.held = pressed
      /\ lines'.up = u /\ lines'.down = d
    BY <1>5, <1>8
<1>10. BrdTyped'
    <2>1. tbudget' \in [tests : Nat, rewires : Nat]
        BY BrdCounts DEF BrdIInv, Brd!LineTest
    <2>2. inputOn' \in BOOLEAN
        BY <1>1
    <2>. QED BY <1>1, <2>1, <2>2 DEF BrdIInv, BrdTyped
<1>11. BrdInput'
    BY <1>1, <1>9 DEF BrdIInv, BrdInput
<1>12. BrdLines'
    BY <1>1, <1>3, <1>4, <1>9 DEF BrdIInv, BrdTyped, BrdLines
<1>13. BrdTrue'
    BY <1>1 DEF BrdIInv, BrdTrue, BrdReports, BrdSpares, BrdModule, BrdId
<1>. QED BY <1>10, <1>11, <1>12, <1>13 DEF BrdIInv

LEMMA BrdTestRun ==
    ASSUME BrdIInv, Brd!BoardTestRun
    PROVE  BrdIInv'
<1>1. /\ lines # None /\ lines' = None
      /\ truth' = IF lines.wiring = wiring THEN [wiring |-> wiring, held |-> lines.held] ELSE None
      /\ inputOn' = IF lines.ran THEN TRUE ELSE inputOn
      /\ UNCHANGED <<wiring, pressed, bootmod, heOn, keysOff, kpins, tbudget>>
    BY DEF Brd!BoardTestRun
<1>. DEFINE id == BrdId(wiring)
            m == BrdModule(wiring)
            on == BrdSpares(wiring)
            probe == IF m = "none" /\ wiring.reversed THEN 1500 ELSE 0
            sup == on \ Brd!SpareGnd(wiring)
            sdown == on \cap Brd!Spare3V3(wiring)
            bridge == on \cap Brd!SpareBridge(wiring)
<1>3. report' = [boot |-> bootmod, module |-> m, id |-> id, probe |-> probe,
                 pins |-> kpins, ran |-> lines.ran, up |-> lines.up, down |-> lines.down,
                 spares |-> on, spareUp |-> sup, spareDown |-> sdown, bridged |-> bridge]
    BY DEF Brd!BoardTestRun, BrdId, BrdModule, BrdSpares
<1>. HIDE DEF id, m, on, probe, sup, sdown, bridge
<1>4. /\ report'.boot = bootmod /\ report'.module = m /\ report'.id = id /\ report'.probe = probe
      /\ report'.pins = kpins /\ report'.ran = lines.ran /\ report'.up = lines.up
      /\ report'.down = lines.down /\ report'.spares = on /\ report'.spareUp = sup
      /\ report'.spareDown = sdown /\ report'.bridged = bridge
    BY <1>3
<1>5. /\ lines.wiring \in BrdWirings /\ lines.held \in BOOLEAN /\ lines.ran \in BOOLEAN
      /\ lines.up = BrdUp(lines.wiring, lines.held, lines.ran, kpins)
      /\ lines.down = BrdDown(lines.wiring, lines.held, lines.ran, kpins)
      /\ kpins \in BrdPins /\ (heOn => ~lines.ran) /\ (bootmod = "he" => ~lines.ran)
    BY <1>1 DEF BrdIInv, BrdLines, BrdTyped, BrdInput
<1>6. lines.up \subseteq 1 .. 2 /\ lines.down \subseteq 1 .. 2
    BY <1>5 DEF BrdUp, BrdDown
<1>7. inputOn' \in BOOLEAN
    BY <1>1 DEF BrdIInv, BrdTyped
<1>8. BrdTyped'
    BY <1>1, <1>4, <1>6, <1>7 DEF BrdIInv, BrdTyped
<1>9. BrdInput'
    BY <1>1, <1>5 DEF BrdIInv, BrdInput
<1>10. BrdLines'
    BY <1>1 DEF BrdLines
<1>11. BrdTrue'
    <2>. SUFFICES ASSUME truth' # None
                  PROVE  /\ truth'.wiring \in BrdWirings /\ truth'.held \in BOOLEAN
                         /\ BrdReports(report, truth.wiring, truth.held)'
        BY DEF BrdTrue
    <2>1. PICK hold \in BOOLEAN : hold = lines.held
        BY <1>5
    <2>2. lines.wiring = wiring /\ truth' = [wiring |-> wiring, held |-> hold]
        BY <1>1, <2>1
    <2>3. truth'.wiring = wiring /\ truth'.held = hold
        BY <2>2
    <2>4. /\ BrdId(wiring)' = BrdId(wiring) /\ BrdModule(wiring)' = BrdModule(wiring)
          /\ BrdSpares(wiring)' = BrdSpares(wiring)
        BY <1>1 DEF BrdId, BrdModule, BrdSpares
    <2>5. BrdReports(report, wiring, hold)'
        BY <1>1, <1>4, <1>5, <2>1, <2>2, <2>4 DEF BrdReports, id, m, on, probe, sup, sdown, bridge
    <2>. QED BY <1>1, <1>5, <2>2, <2>3, <2>5 DEF BrdReports
<1>. QED BY <1>8, <1>9, <1>10, <1>11 DEF BrdIInv

\* The module monitor and the user change neither the report nor its history
LEMMA BrdAround ==
    ASSUME BrdIInv, UNCHANGED <<bootmod, heOn, lines, report, truth>>,
           \/ Brd!ModuleMonitor
           \/ Brd!Hold
           \/ Brd!Rewire
           \/ Brd!UseCarrierKeyPins
           \/ UNCHANGED brdvars
    PROVE  BrdIInv'
<1>1. /\ wiring' \in BrdWirings /\ pressed' \in BOOLEAN /\ keysOff' \in BOOLEAN
      /\ kpins' \in BrdPins /\ (lines # None => kpins' = kpins)
      /\ inputOn' \in BOOLEAN /\ (bootmod = "he" => ~inputOn')
      /\ tbudget' \in [tests : Nat, rewires : Nat]
    <2>0. /\ wiring \in BrdWirings /\ pressed \in BOOLEAN /\ keysOff \in BOOLEAN
          /\ kpins \in BrdPins /\ inputOn \in BOOLEAN /\ (bootmod = "he" => ~inputOn)
          /\ tbudget \in [tests : Nat, rewires : Nat]
        BY DEF BrdIInv, BrdTyped, BrdInput
    <2>1. CASE Brd!ModuleMonitor
        <3>1. UNCHANGED <<wiring, pressed, kpins, tbudget>>
            BY <2>1 DEF Brd!ModuleMonitor
        <3>2. \/ keysOff' = TRUE /\ inputOn' = FALSE
              \/ keysOff' = FALSE /\ inputOn' = (IF bootmod = "he" THEN inputOn ELSE TRUE)
            BY <2>1 DEF Brd!ModuleMonitor
        <3>3. keysOff' \in BOOLEAN /\ inputOn' \in BOOLEAN /\ (bootmod = "he" => ~inputOn')
            BY <2>0, <3>2
        <3>. QED BY <2>0, <3>1, <3>3
    <2>2. CASE Brd!Hold
        <3>1. UNCHANGED <<wiring, keysOff, kpins, inputOn, tbudget>> /\ pressed' = ~pressed
            BY <2>2 DEF Brd!Hold
        <3>2. pressed' \in BOOLEAN
            BY <3>1, Zenon
        <3>. QED BY <2>0, <3>1, <3>2
    <2>3. CASE Brd!Rewire
        <3>1. UNCHANGED <<pressed, keysOff, kpins, inputOn>> /\ wiring' \in BrdWirings
            BY <2>3 DEF Brd!Rewire, BrdWirings
        <3>2. tbudget' \in [tests : Nat, rewires : Nat]
            BY <2>3, BrdCounts DEF BrdIInv, Brd!Rewire
        <3>. QED BY <2>0, <3>1, <3>2
    <2>4. CASE Brd!UseCarrierKeyPins
        BY <2>0, <2>4 DEF Brd!UseCarrierKeyPins, BrdPins
    <2>5. CASE UNCHANGED brdvars
        BY <2>0, <2>5 DEF brdvars
    <2>. QED BY <2>1, <2>2, <2>3, <2>4, <2>5
<1>2. BrdTyped'
    BY <1>1 DEF BrdIInv, BrdTyped
<1>3. BrdInput'
    BY <1>1 DEF BrdIInv, BrdInput
<1>4. BrdLines'
    BY <1>1 DEF BrdIInv, BrdLines
<1>5. BrdTrue'
    BY DEF BrdIInv, BrdTrue, BrdReports, BrdSpares, BrdModule, BrdId
<1>. QED BY <1>2, <1>3, <1>4, <1>5 DEF BrdIInv

LEMMA BrdStep == BrdIInv /\ [Brd!BoardNext]_brdvars => BrdIInv'
<1>. SUFFICES ASSUME BrdIInv, [Brd!BoardNext]_brdvars PROVE BrdIInv'
    OBVIOUS
<1>1. CASE UNCHANGED brdvars
    <2>1. UNCHANGED <<bootmod, heOn, lines, report, truth>>
        BY <1>1 DEF brdvars
    <2>. QED BY <1>1, <2>1, BrdAround
<1>2. CASE Brd!ModuleMonitor \/ Brd!Hold \/ Brd!Rewire \/ Brd!UseCarrierKeyPins
    <2>1. UNCHANGED <<bootmod, heOn, lines, report, truth>>
        BY <1>2 DEF Brd!ModuleMonitor, Brd!Hold, Brd!Rewire, Brd!UseCarrierKeyPins
    <2>. QED BY <1>2, <2>1, BrdAround
<1>. QED BY <1>1, <1>2, BrdLineTest, BrdTestRun DEF Brd!BoardNext

\* The worst of the checks
BrdGrades == {"skip", "pass", "warn", "fail"}

LEMMA BrdOverall ==
    ASSUME NEW checks \in SUBSET BrdGrades, checks # {}
    PROVE  /\ Brd!Overall(checks) \in checks
           /\ \A t \in checks : Brd!Status[t] <= Brd!Status[Brd!Overall(checks)]
           /\ "fail" \in checks \/ "warn" \in checks => Brd!Overall(checks) \in {"warn", "fail"}
           /\ checks \subseteq {"skip", "pass"} /\ "pass" \in checks => Brd!Overall(checks) = "pass"
<1>1. /\ Brd!Status["skip"] = 0 /\ Brd!Status["pass"] = 1
      /\ Brd!Status["warn"] = 2 /\ Brd!Status["fail"] = 3
    BY DEF Brd!Status
<1>2. \E s \in checks : \A t \in checks : Brd!Status[t] <= Brd!Status[s]
    <2>1. CASE "fail" \in checks
        BY <1>1, <2>1 DEF BrdGrades
    <2>2. CASE "fail" \notin checks /\ "warn" \in checks
        BY <1>1, <2>2 DEF BrdGrades
    <2>3. CASE "fail" \notin checks /\ "warn" \notin checks /\ "pass" \in checks
        BY <1>1, <2>3 DEF BrdGrades
    <2>4. CASE checks = {"skip"}
        BY <1>1, <2>4
    <2>. QED BY <2>1, <2>2, <2>3, <2>4 DEF BrdGrades
<1>3. /\ Brd!Overall(checks) \in checks
      /\ \A t \in checks : Brd!Status[t] <= Brd!Status[Brd!Overall(checks)]
    BY <1>2 DEF Brd!Overall
<1>4. PICK o \in checks : o = Brd!Overall(checks) /\ \A t \in checks : Brd!Status[t] <= Brd!Status[o]
    BY <1>3
<1>5. "fail" \in checks \/ "warn" \in checks => o \in {"warn", "fail"}
    BY <1>1, <1>4 DEF BrdGrades
<1>6. checks \subseteq {"skip", "pass"} /\ "pass" \in checks => o = "pass"
    BY <1>1, <1>4
<1>. QED BY <1>3, <1>4, <1>5, <1>6

LEMMA BrdChecks ==
    ASSUME NEW r
    PROVE  Brd!Evaluate(r) \in SUBSET BrdGrades /\ Brd!ModuleCheck(r) \in Brd!Evaluate(r)
<1>1. Brd!ModuleCheck(r) \in BrdGrades
    BY DEF Brd!ModuleCheck, BrdGrades
<1>2. Brd!SpareCheck(r) \in BrdGrades
    BY DEF Brd!SpareCheck, BrdGrades
<1>3. ASSUME NEW i, NEW mx PROVE Brd!KeyLineCheck(r, i, mx) \in BrdGrades
    BY DEF Brd!KeyLineCheck, BrdGrades
<1>. QED BY <1>1, <1>2, <1>3 DEF Brd!Evaluate, BrdGrades

\* A check that does not pass is in the verdict
LEMMA BrdFails ==
    ASSUME NEW r,
           \/ Brd!ModuleCheck(r) = "fail"
           \/ Brd!SpareCheck(r) = "warn"
           \/ \E i \in 1 .. 2 : Brd!KeyLineCheck(r, i, Brd!UsesMx(r)) = "fail"
           \/ Brd!UsesMx(r) /\ ~Brd!OnCarrier(r)
    PROVE  Brd!Overall(Brd!Evaluate(r)) \in {"warn", "fail"}
<1>1. "fail" \in Brd!Evaluate(r) \/ "warn" \in Brd!Evaluate(r)
    BY DEF Brd!Evaluate
<1>2. PICK e \in SUBSET BrdGrades : e = Brd!Evaluate(r) /\ e # {}
    BY BrdChecks
<1>3. Brd!Overall(e) \in {"warn", "fail"}
    BY <1>1, <1>2, BrdOverall
<1>. QED BY <1>2, <1>3

LEMMA BrdCarries ==
    /\ Brd!Carrier[1] = 10 /\ Brd!Carrier[2] = 7 /\ Brd!HandPins[1] = 14 /\ Brd!HandPins[2] = 9
    /\ Brd!Carrier # Brd!HandPins
BY DEF Brd!Carrier, Brd!HandPins

\* Every fault of an MX board, and a held key, fails a check
LEMMA BrdFaults ==
    ASSUME NEW w \in BrdWirings, NEW hold \in BOOLEAN, NEW r, BrdReports(r, w, hold),
           w.module = "mx", r.ran, w # Brd!Sound \/ (hold /\ r.pins = Brd!Carrier)
    PROVE  Brd!Overall(Brd!Evaluate(r)) \in {"warn", "fail"}
<1>1. /\ w \in Brd!Wirings /\ w.reversed \in BOOLEAN /\ (w.reversed => w.fault = "none")
      /\ w.fault \in {"none", "id", "open", "gnd", "spareGnd", "spare3V3", "bridge"}
    BY DEF BrdWirings, Brd!Wirings, Brd!Plausible
<1>2. /\ ~heOn /\ r.id = Brd!IdOf(w) /\ r.id # None /\ r.module = Brd!ModuleFromId(Brd!IdOf(w))
      /\ r.pins \in BrdPins
      /\ r.up = BrdUp(w, hold, r.ran, r.pins) /\ r.down = BrdDown(w, hold, r.ran, r.pins)
    BY BrdNone DEF BrdReports, BrdId, BrdModule
<1>3. /\ r.module = (IF w.reversed \/ w.fault = "id" THEN "none" ELSE "mx")
      /\ r.id[1] = (IF w.reversed THEN 20 ELSE IF w.fault = "id" THEN 3300 ELSE 300)
      /\ r.id[2] = (IF w.reversed THEN 0 ELSE IF w.fault = "id" THEN 3300 ELSE 250)
    BY <1>2, BrdModuleOf
<1>4. CASE w.reversed
    <2>1. r.probe = 1500 /\ r.module = "none"
        BY <1>2, <1>3, <1>4 DEF BrdReports, BrdModule, BrdId
    <2>2. Brd!ModuleCheck(r) = "fail"
        BY <1>2, <2>1 DEF Brd!ModuleCheck
    <2>. QED BY <2>2, BrdFails
<1>5. CASE ~w.reversed /\ w.fault = "id"
    <2>1. r.module = "none" /\ r.id[1] = 3300 /\ r.id[2] = 3300
        BY <1>3, <1>5
    <2>2. Brd!ModuleCheck(r) = "fail"
        BY <1>2, <2>1 DEF Brd!ModuleCheck
    <2>. QED BY <2>2, BrdFails
<1>6. CASE ~w.reversed /\ w.fault # "id"
    <2>1. r.module = "mx" /\ Brd!UsesMx(r) /\ BrdModule(w) = "mx" /\ BrdSpares(w) = Brd!Spares
        BY <1>2, <1>3, <1>6 DEF Brd!UsesMx, BrdModule, BrdId, BrdSpares
    <2>2. CASE r.pins = Brd!HandPins
        <3>1. ~Brd!OnCarrier(r)
            BY <2>2, BrdCarries DEF Brd!OnCarrier
        <3>. QED BY <2>1, <3>1, BrdFails
    <2>3. CASE r.pins = Brd!Carrier
        <3>1. CASE hold \/ w.fault = "gnd"
            <4>1. BrdLow(w, hold, 1, r.pins[1])
                BY <2>3, <3>1 DEF BrdLow
            <4>2. 1 \notin r.up
                BY <1>2, <4>1 DEF BrdUp
            <4>3. Brd!KeyLineCheck(r, 1, Brd!UsesMx(r)) = "fail"
                BY <4>2 DEF Brd!KeyLineCheck
            <4>. QED BY <4>3, BrdFails
        <3>2. CASE ~hold /\ w.fault = "open"
            <4>1. ~BrdLow(w, hold, 2, r.pins[2]) /\ ~Brd!PullUp(w, 2, r.pins[2])
                BY <3>2 DEF BrdLow, Brd!PullUp
            <4>2. 2 \in r.up /\ 2 \notin r.down
                BY <1>2, <4>1 DEF BrdUp, BrdDown
            <4>3. Brd!KeyLineCheck(r, 2, Brd!UsesMx(r)) = "fail"
                BY <2>1, <2>3, <4>2 DEF Brd!KeyLineCheck
            <4>. QED BY <4>3, BrdFails
        <3>3. CASE w.fault = "spareGnd"
            <4>1. r.spares = {6, 4, 2} /\ 6 \notin r.spareUp
                BY <2>1, <3>3 DEF BrdReports, Brd!Spares, Brd!SpareGnd
            <4>2. Brd!SpareCheck(r) = "warn"
                BY <4>1 DEF Brd!SpareCheck
            <4>. QED BY <4>2, BrdFails
        <3>4. CASE w.fault = "spare3V3"
            <4>1. r.spares = {6, 4, 2} /\ 4 \in r.spareDown
                BY <2>1, <3>4 DEF BrdReports, Brd!Spares, Brd!Spare3V3
            <4>2. Brd!SpareCheck(r) = "warn"
                BY <4>1 DEF Brd!SpareCheck
            <4>. QED BY <4>2, BrdFails
        <3>5. CASE w.fault = "bridge"
            <4>1. r.spares = {6, 4, 2} /\ r.bridged = {4, 2}
                BY <2>1, <3>5 DEF BrdReports, Brd!Spares, Brd!SpareBridge
            <4>2. Brd!Cardinality(r.bridged) = 2
                <5>1. Cardinality({4} \cup {2}) = 2
                    <6>1. IsFiniteSet({4}) /\ Cardinality({4}) = 1
                        BY FS_Singleton
                    <6>. QED BY <6>1, FS_AddElement
                <5>2. {4} \cup {2} = r.bridged
                    BY <4>1
                <5>. QED BY <5>1, <5>2 DEF Brd!Cardinality, Cardinality
            <4>3. Brd!SpareCheck(r) = "warn"
                BY <4>1, <4>2 DEF Brd!SpareCheck
            <4>. QED BY <4>3, BrdFails
        <3>6. CASE ~hold /\ w.fault = "none"
            <4>1. w = Brd!Sound
                BY <1>1, <1>6, <3>6 DEF Brd!Wirings, Brd!Sound
            <4>. QED BY <3>6, <4>1
        <3>. QED BY <1>1, <1>6, <3>1, <3>2, <3>3, <3>4, <3>5, <3>6
    <2>. QED BY <1>2, <2>2, <2>3 DEF BrdPins
<1>. QED BY <1>1, <1>4, <1>5, <1>6

\* Checks of a healthy pad
LEMMA BrdPasses ==
    ASSUME NEW r, r.boot = r.module,
           Brd!ModuleCheck(r) \in {"pass", "skip"}, Brd!SpareCheck(r) \in {"pass", "skip"},
           \A i \in 1 .. 2 : Brd!KeyLineCheck(r, i, Brd!UsesMx(r)) = "pass",
           Brd!UsesMx(r) => Brd!OnCarrier(r)
    PROVE  Brd!Overall(Brd!Evaluate(r)) = "pass"
<1>1. PICK e : e = Brd!Evaluate(r)
    OBVIOUS
<1>2. e \subseteq {"skip", "pass"} /\ "pass" \in e /\ e \in SUBSET BrdGrades
    <2>1. e \subseteq {"skip", "pass"} /\ "pass" \in e
        BY <1>1 DEF Brd!Evaluate
    <2>. QED BY <2>1 DEF BrdGrades
<1>3. Brd!Overall(e) = "pass"
    BY <1>2, BrdOverall
<1>. QED BY <1>1, <1>3

LEMMA BrdHealthy ==
    ASSUME BrdInput, bootmod \in BrdModules, heOn \in BOOLEAN,
           NEW w \in BrdWirings, NEW r, BrdReports(r, w, FALSE), r.ran, r.boot = r.module,
           \/ w = Brd!Sound /\ r.pins = Brd!Carrier
           \/ w.module = "none" /\ r.pins = Brd!HandPins
    PROVE  Brd!Overall(Brd!Evaluate(r)) = "pass"
<1>1. /\ ~heOn /\ r.id = Brd!IdOf(w) /\ r.id # None /\ r.module = Brd!ModuleFromId(Brd!IdOf(w))
      /\ BrdModule(w) = r.module
      /\ r.up = BrdUp(w, FALSE, r.ran, r.pins) /\ r.down = BrdDown(w, FALSE, r.ran, r.pins)
    BY BrdNone DEF BrdReports, BrdId, BrdModule
<1>2. CASE w = Brd!Sound /\ r.pins = Brd!Carrier
    <2>1. w.module = "mx" /\ ~w.reversed /\ w.fault = "none"
        BY <1>2 DEF Brd!Sound
    <2>2. r.module = "mx" /\ r.id[1] = 300 /\ Brd!UsesMx(r) /\ Brd!OnCarrier(r)
        BY <1>1, <1>2, <2>1, BrdModuleOf DEF Brd!UsesMx, Brd!OnCarrier
    <2>3. Brd!ModuleCheck(r) = "pass"
        BY <1>1, <2>2 DEF Brd!ModuleCheck
    <2>4. /\ r.spares = {6, 4, 2} /\ r.spareUp = {6, 4, 2} /\ r.spareDown = {} /\ r.bridged = {}
        BY <1>1, <2>1, <2>2 DEF BrdReports, BrdSpares, Brd!Spares, Brd!SpareGnd, Brd!Spare3V3,
                                Brd!SpareBridge
    <2>5. Brd!Cardinality(r.bridged) = 0
        <3>1. Cardinality({}) = 0
            BY FS_EmptySet
        <3>. QED BY <2>4, <3>1 DEF Brd!Cardinality, Cardinality
    <2>6. Brd!SpareCheck(r) = "pass"
        BY <2>4, <2>5 DEF Brd!SpareCheck
    <2>7. ASSUME NEW i \in 1 .. 2 PROVE Brd!KeyLineCheck(r, i, Brd!UsesMx(r)) = "pass"
        <3>1. ~BrdLow(w, FALSE, i, r.pins[i])
            BY <2>1 DEF BrdLow
        <3>2. Brd!PullUp(w, i, r.pins[i])
            BY <1>2, <2>1 DEF Brd!PullUp, Brd!Powered
        <3>3. i \in r.up /\ i \in r.down
            BY <1>1, <3>1, <3>2 DEF BrdUp, BrdDown
        <3>. QED BY <1>2, <3>3 DEF Brd!KeyLineCheck
    <2>. QED BY <2>2, <2>3, <2>6, <2>7, BrdPasses
<1>3. CASE w.module = "none" /\ r.pins = Brd!HandPins
    <2>1. ~w.reversed /\ w.fault = "none"
        BY <1>3 DEF BrdWirings, Brd!Plausible
    <2>2. r.module = "none" /\ r.id[1] = 20 /\ r.id[2] = 0 /\ ~Brd!UsesMx(r) /\ ~Brd!OnCarrier(r)
        BY <1>1, <1>3, <2>1, BrdModuleOf, BrdCarries DEF Brd!UsesMx, Brd!OnCarrier
    <2>3. r.probe = 0 /\ r.spares = {}
        BY <1>1, <2>1, <2>2 DEF BrdReports, BrdSpares
    <2>4. Brd!ModuleCheck(r) = "skip"
        BY <1>1, <2>2, <2>3 DEF Brd!ModuleCheck
    <2>5. Brd!SpareCheck(r) = "skip"
        BY <2>3 DEF Brd!SpareCheck
    <2>6. ASSUME NEW i \in 1 .. 2 PROVE Brd!KeyLineCheck(r, i, Brd!UsesMx(r)) = "pass"
        <3>1. ~BrdLow(w, FALSE, i, r.pins[i])
            BY <2>1 DEF BrdLow
        <3>2. i \in r.up
            BY <1>1, <3>1 DEF BrdUp
        <3>. QED BY <2>2, <3>2 DEF Brd!KeyLineCheck
    <2>. QED BY <2>2, <2>4, <2>5, <2>6, BrdPasses
<1>. QED BY <1>2, <1>3

LEMMA BrdHolds == BrdIInv => Brd!VerdictsHold /\ Brd!BoardTypeOK
<1>. SUFFICES ASSUME BrdIInv PROVE Brd!VerdictsHold /\ Brd!BoardTypeOK
    OBVIOUS
<1>1. Brd!FaultShows
    <2>. SUFFICES ASSUME truth # None, truth.wiring.module = "mx", report.ran,
                         truth.wiring # Brd!Sound \/ (truth.held /\ report.pins = Brd!Carrier)
                  PROVE  Brd!Overall(Brd!Evaluate(report)) \in {"warn", "fail"}
        BY DEF Brd!FaultShows, Brd!Measured
    <2>. QED BY BrdFaults DEF BrdIInv, BrdTrue
<1>2. Brd!HealthyPasses
    <2>. SUFFICES ASSUME truth # None, ~truth.held, report.ran, report.boot = report.module,
                         \/ truth.wiring = Brd!Sound /\ report.pins = Brd!Carrier
                         \/ truth.wiring.module = "none" /\ report.pins = Brd!HandPins
                  PROVE  Brd!Overall(Brd!Evaluate(report)) = "pass"
        BY DEF Brd!HealthyPasses, Brd!Measured
    <2>1. truth.wiring \in BrdWirings /\ BrdReports(report, truth.wiring, FALSE)
        <3>1. truth.held = FALSE
            BY DEF BrdIInv, BrdTrue
        <3>. QED BY <3>1 DEF BrdIInv, BrdTrue
    <2>. QED BY <2>1, BrdHealthy DEF BrdIInv, BrdTyped
<1>3. Brd!BoardTypeOK
    BY DEF BrdIInv, BrdTyped, BrdWirings, BrdModules, BrdPins, Brd!BoardTypeOK
<1>. QED BY <1>1, <1>2, <1>3 DEF Brd!VerdictsHold

-----------------------------------------------------------------------------
(* The parts *)

DeskInv ==
    /\ part = "ownership" => IInv
    /\ part = "backups"   => BakIInv
    /\ part = "shell"     => ShellIInv
    /\ part = "designer"  => DesIInv
    /\ part = "dialogs"   => DlgIInv
    /\ part = "updates"   => UpdIInv /\ UpdNoted
    /\ part = "plays"     => TapIInv
    /\ part = "layouts"   => LayIInv
    /\ part = "rules"     => RulIInv
    /\ part = "board"     => BrdIInv

\* The part that moves keeps its invariant, the others stand still.
LEMMA DeskInductive == Spec => []DeskInv
<1>0. OwnConstants
    BY OwnAssumption DEF OwnAssumption
<1>1. Init => DeskInv
    BY <1>0, InitIInv, BakInitial, ShellInitial, DesInitial, DlgInitial, UpdInitial,
       TapInitial, LayInitial, RulInitial, BrdInitial
    DEF OwnConstants, Init, DeskInv
<1>2. DeskInv /\ [Next]_vars => DeskInv'
    <2>. SUFFICES ASSUME DeskInv, [Next]_vars PROVE DeskInv'
        OBVIOUS
    <2>0. part' = part
        BY DEF Next, vars
    <2>1. ASSUME part = "ownership" PROVE IInv'
        <3>1. IInv /\ [OwnNext]_ovars
            BY <2>1 DEF DeskInv, Next, vars
        <3>. QED BY <1>0, <3>1, Step
    <2>2. ASSUME part = "backups" PROVE BakIInv'
        <3>1. BakIInv /\ [Bak!BackupNext]_bvars
            BY <2>2 DEF DeskInv, Next, vars
        <3>. QED BY <3>1, BakStep
    <2>3. ASSUME part = "shell" PROVE ShellIInv'
        <3>1. ShellIInv /\ [Shell!ShellNext]_svars
            BY <2>3 DEF DeskInv, Next, vars
        <3>. QED BY <3>1, ShellStep
    <2>4. ASSUME part = "designer" PROVE DesIInv'
        <3>1. DesIInv /\ [Des!DesignerNext]_gvars
            BY <2>4 DEF DeskInv, Next, vars
        <3>. QED BY <3>1, DesStep
    <2>5. ASSUME part = "dialogs" PROVE DlgIInv'
        <3>1. DlgIInv /\ [Dlg!DialogsNext]_dvars
            BY <2>5 DEF DeskInv, Next, vars
        <3>. QED BY <3>1, DlgStep
    <2>6. ASSUME part = "updates" PROVE (UpdIInv /\ UpdNoted)'
        <3>1. UpdIInv /\ UpdNoted /\ [Upd!UpdateNext]_uvars
            BY <2>6 DEF DeskInv, Next, vars
        <3>. QED BY <3>1, UpdStep, UpdNotedStep
    <2>7. ASSUME part = "plays" PROVE TapIInv'
        <3>1. TapIInv /\ [Tap!TapNext]_tvars
            BY <2>7 DEF DeskInv, Next, vars
        <3>. QED BY <3>1, TapStep
    <2>8. ASSUME part = "layouts" PROVE LayIInv'
        <3>1. LayIInv /\ [Lay!LayoutNext]_yvars
            BY <2>8 DEF DeskInv, Next, vars
        <3>. QED BY <3>1, LayStep
    <2>9. ASSUME part = "rules" PROVE RulIInv'
        <3>1. RulIInv /\ [Rule!RulesNext]_jvars
            BY <2>9 DEF DeskInv, Next, vars
        <3>. QED BY <3>1, RulStep
    <2>10. ASSUME part = "board" PROVE BrdIInv'
        <3>1. BrdIInv /\ [Brd!BoardNext]_brdvars
            BY <2>10 DEF DeskInv, Next, vars
        <3>. QED BY <3>1, BrdStep
    <2>. QED BY <2>0, <2>1, <2>2, <2>3, <2>4, <2>5, <2>6, <2>7, <2>8, <2>9, <2>10
        DEF DeskInv
<1>. QED BY <1>1, <1>2, PTL DEF Spec

\* No pad and no row gets presses its pad never counted, unless the user chose
\* so, whatever plugs, wipes, lost frames and answers come.
THEOREM CountsStay == Spec => []CountsAreThePads
<1>1. IInv => PadCountsOnlyItsOwn
    BY DEF IInv, CountsFit, Fits, ChoiceKept, Chosen, OwnCountsOnly, ChoiceHolds,
           PadCountsOnlyItsOwn
<1>2. DeskInv => CountsAreThePads
    BY <1>1 DEF DeskInv, CountsAreThePads
<1>. QED BY <1>2, DeskInductive, PTL

\* A pad of another install changes by its own presses only, until it is taken
\* over.
THEOREM ForeignStay == Spec => ForeignPadsStay
<1>1. DeskInv /\ [Next]_vars => [part = "ownership" => ForeignLeftAlone]_vars
    <2>. SUFFICES ASSUME DeskInv, [Next]_vars, part = "ownership" PROVE ForeignLeftAlone
        OBVIOUS
    <2>1. IInv /\ [OwnNext]_ovars
        BY DEF DeskInv, Next, vars
    <2>2. OwnConstants
        BY OwnAssumption DEF OwnAssumption
    <2>. QED BY <2>1, <2>2, ForeignStep
<1>. QED BY <1>1, DeskInductive, PTL DEF Spec, ForeignPadsStay

\* One GUI runs, however many launches race for the socket, and it can be
\* reached; the designer's selection is a widget and its marks are what the pad
\* has; a consent flashes once.
THEOREM WindowStays == Spec => []WindowHolds
<1>1. DeskInv => WindowHolds
    BY ShellIs, DesIs, DlgIs DEF DeskInv, WindowHolds
<1>. QED BY <1>1, DeskInductive, PTL

\* Whatever is published, fails or dies in the middle, the tosu that runs is the
\* one on disk, none runs while its files are swapped unless pause() gave up, and
\* VERSION names nothing that did not reach the disk; the newest whole backup
\* outlives every prune and every kill while the clock goes forward, and a rollback
\* is imported only where it was agreed to for that file, with any number of
\* backups kept and any number of previews under way.
THEOREM FilesStay == Spec => []FilesAreWhole
<1>1. DeskInv => FilesAreWhole
    BY UpdIs, BakHolds DEF DeskInv, FilesAreWhole
<1>. QED BY <1>1, DeskInductive, PTL

\* An install that a restart cut short is said to have succeeded exactly when its
\* version runs then.
THEOREM ResultsStay == Spec => UpdateResultsAreTrue
<1>1. DeskInv /\ [Next]_vars => [part = "updates" => Upd!ResultIsTrue]_vars
    <2>. SUFFICES ASSUME DeskInv, [Next]_vars, part = "updates" PROVE Upd!ResultIsTrue
        OBVIOUS
    <2>1. UpdIInv /\ [Upd!UpdateNext]_uvars
        BY DEF DeskInv, Next, vars
    <2>. QED BY <2>1, ResultStep
<1>. QED BY <1>1, DeskInductive, PTL DEF Spec, UpdateResultsAreTrue

\* What goes to the tap history was pressed by the player in the attempt it names,
\* in whatever order the pad's late presses, tosu's counts and its state frames
\* come, with any number of plays, retries, replays and lost connections; and a
\* play is celebrated once.
THEOREM PlaysStay == Spec => []PlaysAreYours
<1>1. DeskInv => PlaysAreYours
    BY DEF DeskInv, PlaysAreYours, TapIInv, TapEarned, Tap!AnimationPerPlay
<1>. QED BY <1>1, DeskInductive, PTL

\* What the pad applied, keeps and reports is what the PC last sent of a
\* configuration and of a layout; the daemon's answers are of the request they
\* answer, though the acknowledgement carries no number; and what a board test says
\* of the parts is so of the board it tested, for any pins, modules and faults.
THEOREM RulesStay == Spec => []RulesAgree
<1>1. DeskInv => RulesAgree
    BY RulHolds, BrdHolds, LayHolds DEF DeskInv, RulesAgree
<1>. QED BY <1>1, DeskInductive, PTL

\* Every part stays within its types, whatever the bounds: a process under
\* supervision is in one place, the files of one second are one file, a layout has
\* no more widgets than the pad takes, and whatever crosses the cable is of a kind
\* its reader knows.
THEOREM TypesStay == Spec => []DeskTypeOK
<1>1. IInv => OwnTypeOK
    BY DEF IInv, Types, PadsOK, HostOK, PromptsOK, Linked, OwnTypeOK, MaybePad, PadRecords
<1>2. BakIInv => Bak!BackupTypeOK
    BY DEF BakIInv, Filed, Backups, Bak!BackupTypeOK
<1>3. TapIInv => Tap!TapTypeOK
    BY DEF TapIInv, TapTyped, TapHolds, TapHeard, TapGame, TapAttempts, Tap!TapTypeOK
<1>4. DlgIInv => Dlg!DialogsTypeOK
    BY DEF DlgIInv
<1>5. DeskInv => DeskTypeOK
    BY <1>1, <1>2, <1>3, <1>4, UpdTyped, ShellTyped, DesTyped, RulHolds, BrdHolds, LayHolds
    DEF DeskInv, DeskTypeOK
<1>. QED BY <1>5, DeskInductive, PTL
=============================================================================
