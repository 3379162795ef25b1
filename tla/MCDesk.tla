------------------------------- MODULE MCDesk -------------------------------
(***************************************************************************)
(* The safety of the daemon's and the window's parts that do not wait for  *)
(* one another: each behaviour is of one part, chosen at the start, and    *)
(* the variables of the others are 0.  One run, so that one set of         *)
(* properties tells what a user at this desk may rely on.                  *)
(***************************************************************************)
EXTENDS PadOwnership, Integers, Sequences

CONSTANTS
    UpdateBudgets, TapBudgets, BackupBudgets, DesignerBudgets, DialogBudgets,
    RuleBudgets, BoardBudgets, LayoutBudgets, FrameBudgets,   \* what bounds each part
    Channels, Beta, Origins,                            \* UpdateWorker
    TosuOnly, MinPresses,                               \* TapPlay
    Window, Break, MinSpans, Periods, MaxTime, MaxTaps, \* TapRate
    KeepBackups,                                               \* BackupImport
    Dead, Launches, MaxClicks,                          \* GuiShell
    WidgetLimit,                                         \* GuiDesigner
    DesktopPins, PadPins,                               \* ConfigRules
    Clients                                             \* LayoutRules

-----------------------------------------------------------------------------
VARIABLE part   \* the part this behaviour is of

\* PadOwnership itself
PadOwnershipOff == pads = 0 /\ plugged = 0 /\ info = 0 /\ conn = 0 /\ mem = 0
        /\ pc = 0 /\ known = 0 /\ rows = 0 /\ takeover = 0 /\ foreign = 0
        /\ replacement = 0 /\ auto = 0 /\ job = 0 /\ obounds = 0 /\ made = 0
        /\ asker = 0 /\ granted = 0 /\ choice = 0

VARIABLES
    origin, served, umode, sched, wanted, feed, work, bundled, tosud, port,
    app, inprog, result, ubounds, late
uvars == <<origin, served, umode, sched, wanted, feed, work, bundled, tosud,
           port, app, inprog, result, ubounds, late>>
Upd == INSTANCE UpdateWorker
UpdOff == origin = 0 /\ served = 0 /\ umode = 0 /\ sched = 0 /\ wanted = 0
        /\ feed = 0 /\ work = 0 /\ bundled = 0 /\ tosud = 0 /\ port = 0
        /\ app = 0 /\ inprog = 0 /\ result = 0 /\ ubounds = 0 /\ late = 0

VARIABLES
    game, linked, timed, wire, playing, no, rewound, lastFailed, lastKeys,
    attempt, source, pending, ended, armed, onResults, since, earned, tbounds
tvars == <<game, linked, timed, wire, playing, no, rewound, lastFailed,
           lastKeys, attempt, source, pending, ended, armed, onResults, since,
           earned, tbounds>>
Tap == INSTANCE TapPlay
TapOff == game = 0 /\ linked = 0 /\ timed = 0 /\ wire = 0 /\ playing = 0
        /\ no = 0 /\ rewound = 0 /\ lastFailed = 0 /\ lastKeys = 0
        /\ attempt = 0 /\ source = 0 /\ pending = 0 /\ ended = 0 /\ armed = 0
        /\ onResults = 0 /\ since = 0 /\ earned = 0 /\ tbounds = 0

VARIABLES
    clock, minSpan, lastPress, nowMs, window, recent, peak, valid, sum,
    started, rateRows, taps
rvars == <<clock, minSpan, lastPress, nowMs, window, recent, peak, valid, sum,
           started, rateRows, taps>>
Rate == INSTANCE TapRate WITH rows <- rateRows
RateOff == clock = 0 /\ minSpan = 0 /\ lastPress = 0 /\ nowMs = 0
        /\ window = 0 /\ recent = 0 /\ peak = 0 /\ valid = 0 /\ sum = 0
        /\ started = 0 /\ rateRows = 0 /\ taps = 0

VARIABLES
    bakClock, dir, writer, count, busy, dialog, asks, newest, wound, bbounds
bvars == <<bakClock, dir, writer, count, busy, dialog, asks, newest, wound,
           bbounds>>
Bak == INSTANCE BackupImport WITH clock <- bakClock
BakOff == bakClock = 0 /\ dir = 0 /\ writer = 0 /\ count = 0 /\ busy = 0
        /\ dialog = 0 /\ asks = 0 /\ newest = 0 /\ wound = 0 /\ bbounds = 0

VARIABLES
    gpath, gui, clicks, refused
svars == <<gpath, gui, clicks, refused>>
Shell == INSTANCE GuiShell
ShellOff == gpath = 0 /\ gui = 0 /\ clicks = 0 /\ refused = 0

VARIABLES
    dlayouts, screen, working, applied, selected, drag, desBusy, calls,
    gbounds, crossed, astray
gvars == <<dlayouts, screen, working, applied, selected, drag, desBusy, calls,
           gbounds, crossed, astray>>
Des == INSTANCE GuiDesigner WITH busy <- desBusy
DesOff == dlayouts = 0 /\ screen = 0 /\ working = 0 /\ applied = 0
        /\ selected = 0 /\ drag = 0 /\ desBusy = 0 /\ calls = 0 /\ gbounds = 0
        /\ crossed = 0 /\ astray = 0

VARIABLES
    offered, firmware, erase, recovery, drawn, queue, sentTo, opened, asked,
    dbounds
dvars == <<offered, firmware, erase, recovery, drawn, queue, sentTo, opened,
           asked, dbounds>>
Dlg == INSTANCE GuiDialogs
DlgOff == offered = 0 /\ firmware = 0 /\ erase = 0 /\ recovery = 0
        /\ drawn = 0 /\ queue = 0 /\ sentTo = 0 /\ opened = 0 /\ asked = 0
        /\ dbounds = 0

VARIABLES
    kept, padcfg, vintage, joinedPad, frames, backup, rbounds
jvars == <<kept, padcfg, vintage, joinedPad, frames, backup, rbounds>>
Rule == INSTANCE ConfigRules
RuleOff == kept = 0 /\ padcfg = 0 /\ vintage = 0 /\ joinedPad = 0
        /\ frames = 0 /\ backup = 0 /\ rbounds = 0

VARIABLES
    wiring, pressed, bootmod, heOn, inputOn, keysOff, kpins, lines, report,
    truth, tbudget
brdvars == <<wiring, pressed, bootmod, heOn, inputOn, keysOff, kpins, lines,
             report, truth, tbudget>>
Brd == INSTANCE BoardTest
BrdOff == wiring = 0 /\ pressed = 0 /\ bootmod = 0 /\ heOn = 0 /\ inputOn = 0
        /\ keysOff = 0 /\ kpins = 0 /\ lines = 0 /\ report = 0 /\ truth = 0
        /\ tbudget = 0

VARIABLES
    held, fw, shown, up, toPad, acks, layAsks, verdict, told, lbudget
yvars == <<held, fw, shown, up, toPad, acks, layAsks, verdict, told, lbudget>>
Lay == INSTANCE LayoutRules WITH asks <- layAsks
LayOff == held = 0 /\ fw = 0 /\ shown = 0 /\ up = 0 /\ toPad = 0 /\ acks = 0
        /\ layAsks = 0 /\ verdict = 0 /\ told = 0 /\ lbudget = 0

VARIABLES
    side, framing, line, buf, accept, sent, got, noisy, fbudget
fpvars == <<side, framing, line, buf, accept, sent, got, noisy, fbudget>>
Frm == INSTANCE FrameParser
FrmOff == side = 0 /\ framing = 0 /\ line = 0 /\ buf = 0 /\ accept = 0
        /\ sent = 0 /\ got = 0 /\ noisy = 0 /\ fbudget = 0

-----------------------------------------------------------------------------
vars == <<part, ovars, uvars, tvars, rvars, bvars, svars, gvars, dvars, jvars,
          brdvars, yvars, fpvars>>

Init ==
    /\ part \in {"ownership", "updates", "plays", "rates", "backups", "shell",
                "designer", "dialogs", "rules", "board", "layouts", "frames"}
    /\ IF part = "ownership" THEN OwnInit ELSE PadOwnershipOff
    /\ IF part = "updates" THEN Upd!UpdateInit ELSE UpdOff
    /\ IF part = "plays" THEN Tap!TapInit ELSE TapOff
    /\ IF part = "rates" THEN Rate!RateInit ELSE RateOff
    /\ IF part = "backups" THEN Bak!BackupInit ELSE BakOff
    /\ IF part = "shell" THEN Shell!ShellInit ELSE ShellOff
    /\ IF part = "designer" THEN Des!DesignerInit ELSE DesOff
    /\ IF part = "dialogs" THEN Dlg!DialogsInit ELSE DlgOff
    /\ IF part = "rules" THEN Rule!RulesInit ELSE RuleOff
    /\ IF part = "board" THEN Brd!BoardInit ELSE BrdOff
    /\ IF part = "layouts" THEN Lay!LayoutInit ELSE LayOff
    /\ IF part = "frames" THEN Frm!FrameInit ELSE FrmOff

\* The part moves, the others stay as they are
Next ==
    /\ UNCHANGED part
    /\ IF part = "ownership" THEN OwnNext ELSE UNCHANGED ovars
    /\ IF part = "updates" THEN Upd!UpdateNext ELSE UNCHANGED uvars
    /\ IF part = "plays" THEN Tap!TapNext ELSE UNCHANGED tvars
    /\ IF part = "rates" THEN Rate!RateNext ELSE UNCHANGED rvars
    /\ IF part = "backups" THEN Bak!BackupNext ELSE UNCHANGED bvars
    /\ IF part = "shell" THEN Shell!ShellNext ELSE UNCHANGED svars
    /\ IF part = "designer" THEN Des!DesignerNext ELSE UNCHANGED gvars
    /\ IF part = "dialogs" THEN Dlg!DialogsNext ELSE UNCHANGED dvars
    /\ IF part = "rules" THEN Rule!RulesNext ELSE UNCHANGED jvars
    /\ IF part = "board" THEN Brd!BoardNext ELSE UNCHANGED brdvars
    /\ IF part = "layouts" THEN Lay!LayoutNext ELSE UNCHANGED yvars
    /\ IF part = "frames" THEN Frm!FrameNext ELSE UNCHANGED fpvars

Spec == Init /\ [][Next]_vars

-----------------------------------------------------------------------------
\* What the proofs ask of the parts' constants holds of these
ASSUME OwnAssumption == OwnConstants
ASSUME BackupAssumption == Bak!BackupConstants
ASSUME ShellAssumption == Shell!ShellConstants
ASSUME DesignerAssumption == Des!DesignerConstants
ASSUME DialogAssumption == Dlg!DialogConstants
ASSUME TapAssumption == Tap!TapConstants
ASSUME RulesAssumption == Rule!RulesConstants
ASSUME BoardAssumption == Brd!BoardConstants
ASSUME LayoutAssumption == Lay!LayoutConstants

DeskTypeOK ==
    /\ part = "ownership" => OwnTypeOK
    /\ part = "updates"   => Upd!UpdateTypeOK
    /\ part = "plays"     => Tap!TapTypeOK
    /\ part = "backups"   => Bak!BackupTypeOK
    /\ part = "shell"     => Shell!ShellTypeOK
    /\ part = "designer"  => Des!DesignerTypeOK
    /\ part = "dialogs"   => Dlg!DialogsTypeOK
    /\ part = "rules"     => Rule!RulesTypeOK
    /\ part = "board"     => Brd!BoardTypeOK
    /\ part = "layouts"   => Lay!LayoutTypeOK

\* No pad and no row gets presses its pad never counted, unless the user chose
\* so; and what was chosen for a pad stays (runtime.rs, sync.rs, ipc_handlers.rs).
CountsAreThePads == part = "ownership" => PadCountsOnlyItsOwn

\* A pad of another install changes by its own presses only, until it is taken
\* over (DaemonState.pad_guard and its callers).
ForeignPadsStay == [][part = "ownership" => ForeignLeftAlone]_vars

\* What is said of an app update holds after the restart it caused (updater.rs).
UpdateResultsAreTrue == [][part = "updates" => Upd!ResultIsTrue]_vars

\* What goes to the tap history are this player's own presses in the attempt
\* they name, and a play is celebrated once (runtime.rs).
PlaysAreYours == part = "plays" => Tap!HistoryIsYours /\ Tap!AnimationPerPlay

\* Files are whole wherever their writing was cut: the tosu that runs is the one
\* on disk, never one being swapped, and VERSION never names what is not there
\* (updater.rs, tosu.rs); the newest backup survives every prune and crash, and an
\* import rolls counters back only as far as the user agreed to (backup.rs,
\* ipc_handlers.rs).
FilesAreWhole ==
    /\ part = "updates" => Upd!TosuIsTheOneInstalled /\ Upd!VersionIsOnDisk
    /\ part = "backups" => Bak!BackupsHold

\* There is one window and it can be reached; the designer's marks are of what
\* the pad has; a consent flashes once (the GUI's main.rs, designer, tray).
WindowHolds ==
    /\ part = "shell"    => Shell!ShellHolds
    /\ part = "designer" => Des!DesignerHolds
    /\ part = "dialogs"  => Dlg!OneFlashPerConsent /\ Dlg!FlashingIsUnderWay

\* What crosses the cable is taken for what was meant: the pad uses what the PC
\* sent, answers are of the request they answer, board verdicts are of the board
\* (opad-model, opad-layout, protocol.c, board_test.c).
RulesAgree ==
    /\ part = "rules"   => Rule!SettingsLand
    /\ part = "board"   => Brd!VerdictsHold
    /\ part = "layouts" => Lay!LayoutsLand /\ Lay!AnswersAreTrue

\* What is computed byte by byte and press by press is what its reference says: a
\* clean line loses no frame, and peaks and averages are of taps made
\* (frame_parser.c, tap_rate.rs).
StreamsAreExact ==
    /\ part = "rates"  => Rate!RateTypeOK /\ Rate!RatesHold
    /\ part = "frames" =>
        Frm!FrameTypeOK /\ Frm!CleanLineLosesNothing /\ Frm!DaemonLosesNothing

UpdatesAlone == part = "updates" /\ Spec

\* docs/specs/packaging-distribution.md, U-1: "An update never happens during a
\* map."  The mode is read before the download.
NoSwapInMap == [][umode = "map" => bundled' = bundled]_bundled

-----------------------------------------------------------------------------
(* Bounds: each set holds behaviours with different mixes of events *)

MCOwnBudgets ==
    {[presses |-> 1, plugs |-> 3, lost |-> 0, wipes |-> 0],
     [presses |-> 0, plugs |-> 2, lost |-> 1, wipes |-> 1],
     [presses |-> 0, plugs |-> 1, lost |-> 0, wipes |-> 2]}
MCUpdateBudgets ==
    {[publishes |-> 1, maps |-> 1, deaths |-> 1, failures |-> 0, commands |-> 1],
     [publishes |-> 1, maps |-> 0, deaths |-> 1, failures |-> 1, commands |-> 0]}
MCTapBudgets ==
    {[plays |-> 2, presses |-> 2, drops |-> 0], [plays |-> 1, presses |-> 3, drops |-> 1],
     [plays |-> 1, presses |-> 0, drops |-> 2]}
MCBackupBudgets ==
    {[ticks |-> 2, backs |-> 0, presses |-> 1, writes |-> 3, dies |-> 1, imports |-> 0],
     [ticks |-> 1, backs |-> 1, presses |-> 1, writes |-> 1, dies |-> 0, imports |-> 2]}
MCDesignerBudgets ==
    {[edits |-> 2, asks |-> 1, fails |-> 0, others |-> 0],
     [edits |-> 1, asks |-> 2, fails |-> 0, others |-> 1],
     [edits |-> 1, asks |-> 1, fails |-> 1, others |-> 0]}
MCDialogBudgets == {[clicks |-> 5, doubles |-> 2]}
MCRuleBudgets == {[edits |-> 3, drops |-> 0], [edits |-> 2, drops |-> 1]}
MCBoardBudgets == {[tests |-> 2, rewires |-> 1]}
MCLayoutBudgets ==
    {[edits |-> 1, odd |-> 1, drops |-> 1, slow |-> 0],
     [edits |-> 2, odd |-> 0, drops |-> 0, slow |-> 1]}
MCFrameBudgets == {[frames |-> 2, noises |-> 1, quiets |-> 1]}

\* One new release, and one map that may begin at any step of its update
OneMap == {[publishes |-> 1, maps |-> 1, deaths |-> 0, failures |-> 0, commands |-> 0]}
=============================================================================
