------------------------------ MODULE MCSettle ------------------------------
(***************************************************************************)
(* The parts that poll, retry or wait until both sides agree: each         *)
(* behaviour is of one part, chosen at the start, and the variables of the *)
(* others are 0.  All of them share one liveness property, so the run has  *)
(* one temporal formula to check.                                          *)
(***************************************************************************)
EXTENDS Naturals, Sequences, FiniteSets

CONSTANTS
    HistoryBudgets, FormBudgets, LogBudgets, CalBudgets, InfoOf, FeedBudgets,
    PanelBudgets, CheckBudgets, TesterBudgets, MonitorBudgets,   \* what bounds each part
    None,
    Days,                                      \* TapHistory
    SchemaFaults,                              \* StorageSchema
    MaxPolls,                                  \* GuiForms
    RingMax, Limit,                            \* GuiLogs
    Pad, Other, Sockets, Names, MaxPlugs,      \* PadPorts
    Stable, Beta, Tags, First, Pre, Unusable, Life,   \* ReleaseFeed, GuiUpdates
    A1, A2rc, A2, T1, T2,                      \* the releases
    Pins,                                      \* PadChecks
    Bounce, Wobble, Chord,                     \* SwitchTester
    MaxLines, ShortMs, RepressMs, Wrap         \* HeMonitor

-----------------------------------------------------------------------------
VARIABLE part   \* the part this behaviour is of

VARIABLES
    play, ended, sql, snap, work, stats, calls, overtaken, hbounds
hvars == <<play, ended, sql, snap, work, stats, calls, overtaken, hbounds>>
Hist == INSTANCE TapHistory
HistOff == play = 0 /\ ended = 0 /\ sql = 0 /\ snap = 0 /\ work = 0
        /\ stats = 0 /\ calls = 0 /\ overtaken = 0 /\ hbounds = 0

VARIABLES
    file, open, tx, was, faults
svars == <<file, open, tx, was, faults>>
Schema == INSTANCE StorageSchema
SchemaOff == file = 0 /\ open = 0 /\ tx = 0 /\ was = 0 /\ faults = 0

VARIABLES
    dconf, plugd, view, form, keys, polls, saves, mbounds, touched, typed
mvars == <<dconf, plugd, view, form, keys, polls, saves, mbounds, touched,
           typed>>
Forms == INSTANCE GuiForms
FormsOff == dconf = 0 /\ plugd = 0 /\ view = 0 /\ form = 0 /\ keys = 0
        /\ polls = 0 /\ saves = 0 /\ mbounds = 0 /\ touched = 0 /\ typed = 0

VARIABLES
    hub, cursor, logs, fetches, lbounds, from, restarted
lvars == <<hub, cursor, logs, fetches, lbounds, from, restarted>>
Logs == INSTANCE GuiLogs
LogsOff == hub = 0 /\ cursor = 0 /\ logs = 0 /\ fetches = 0 /\ lbounds = 0
        /\ from = 0 /\ restarted = 0

VARIABLES
    pad, outbox, cable, cmds, rx, latest, known, page, asks, lastReport,
    unseen, kbounds
kvars == <<pad, outbox, cable, cmds, rx, latest, known, page, asks,
           lastReport, unseen, kbounds>>
Cal == INSTANCE Calibration
CalOff == pad = 0 /\ outbox = 0 /\ cable = 0 /\ cmds = 0 /\ rx = 0
        /\ latest = 0 /\ known = 0 /\ page = 0 /\ asks = 0 /\ lastReport = 0
        /\ unseen = 0 /\ kbounds = 0

VARIABLES
    plat, dev, probes, held, flash, came, plugs
pvars == <<plat, dev, probes, held, flash, came, plugs>>
Ports == INSTANCE PadPorts
PortsOff == plat = 0 /\ dev = 0 /\ probes = 0 /\ held = 0 /\ flash = 0
        /\ came = 0 /\ plugs = 0

VARIABLES
    feedHub, policy, week, run, serial, site, stale, inst, zbounds
zvars == <<feedHub, policy, week, run, serial, site, stale, inst, zbounds>>
Feed == INSTANCE ReleaseFeed WITH hub <- feedHub
FeedOff == feedHub = 0 /\ policy = 0 /\ week = 0 /\ run = 0 /\ serial = 0
        /\ site = 0 /\ stale = 0 /\ inst = 0 /\ zbounds = 0

VARIABLES
    stored, worker, feed, task, queue, inmap, asked, panel, busy, age, shown,
    wbounds
wvars == <<stored, worker, feed, task, queue, inmap, asked, panel, busy, age,
           shown, wbounds>>
Panel == INSTANCE GuiUpdates
PanelOff == stored = 0 /\ worker = 0 /\ feed = 0 /\ task = 0 /\ queue = 0
        /\ inmap = 0 /\ asked = 0 /\ panel = 0 /\ busy = 0 /\ age = 0
        /\ shown = 0 /\ wbounds = 0

VARIABLES
    joined, detecting, testing, formPin, handlers, topad, tohost, req,
    waiting, scan, found, test, xbounds
xvars == <<joined, detecting, testing, formPin, handlers, topad, tohost, req,
           waiting, scan, found, test, xbounds>>
Checks == INSTANCE PadChecks
ChecksOff == joined = 0 /\ detecting = 0 /\ testing = 0 /\ formPin = 0
        /\ handlers = 0 /\ topad = 0 /\ tohost = 0 /\ req = 0 /\ waiting = 0
        /\ scan = 0 /\ found = 0 /\ test = 0 /\ xbounds = 0

VARIABLES
    switch, clock, plugged, testShown, device, queued, last, sent, heard,
    tester, edges, whole, tbounds
tstvars == <<switch, clock, plugged, testShown, device, queued, last, sent,
             heard, tester, edges, whole, tbounds>>
Tester == INSTANCE SwitchTester WITH shown <- testShown
TesterOff == switch = 0 /\ clock = 0 /\ plugged = 0 /\ testShown = 0
        /\ device = 0 /\ queued = 0 /\ last = 0 /\ sent = 0 /\ heard = 0
        /\ tester = 0 /\ edges = 0 /\ whole = 0 /\ tbounds = 0

VARIABLES
    ms, pressed, strokes, files, there, written, followed, pos, len, judge,
    news, he, cleared, seen, start, monHbounds
hevars == <<ms, pressed, strokes, files, there, written, followed, pos, len,
            judge, news, he, cleared, seen, start, monHbounds>>
Monitor == INSTANCE HeMonitor WITH hbounds <- monHbounds
MonitorOff == ms = 0 /\ pressed = 0 /\ strokes = 0 /\ files = 0 /\ there = 0
        /\ written = 0 /\ followed = 0 /\ pos = 0 /\ len = 0 /\ judge = 0
        /\ news = 0 /\ he = 0 /\ cleared = 0 /\ seen = 0 /\ start = 0
        /\ monHbounds = 0

-----------------------------------------------------------------------------
vars == <<part, hvars, svars, mvars, lvars, kvars, pvars, zvars, wvars, xvars,
          tstvars, hevars>>

Init ==
    /\ part \in {"history", "schema", "forms", "logs", "calibration", "ports",
                "releases", "panel", "checks", "switches", "monitor"}
    /\ IF part = "history" THEN Hist!HistoryInit ELSE HistOff
    /\ IF part = "schema" THEN Schema!SchemaInit ELSE SchemaOff
    /\ IF part = "forms" THEN Forms!FormsInit ELSE FormsOff
    /\ IF part = "logs" THEN Logs!LogsInit ELSE LogsOff
    /\ IF part = "calibration" THEN Cal!CalInit ELSE CalOff
    /\ IF part = "ports" THEN Ports!PortsInit ELSE PortsOff
    /\ IF part = "releases" THEN Feed!FeedInit ELSE FeedOff
    /\ IF part = "panel" THEN Panel!PanelInit ELSE PanelOff
    /\ IF part = "checks" THEN Checks!ChecksInit ELSE ChecksOff
    /\ IF part = "switches" THEN Tester!TesterInit ELSE TesterOff
    /\ IF part = "monitor" THEN Monitor!MonitorInit ELSE MonitorOff

\* The part moves, the others stay as they are
Next ==
    /\ UNCHANGED part
    /\ IF part = "history" THEN Hist!HistoryNext ELSE UNCHANGED hvars
    /\ IF part = "schema" THEN Schema!SchemaNext ELSE UNCHANGED svars
    /\ IF part = "forms" THEN Forms!FormsNext ELSE UNCHANGED mvars
    /\ IF part = "logs" THEN Logs!LogsNext ELSE UNCHANGED lvars
    /\ IF part = "calibration" THEN Cal!CalNext ELSE UNCHANGED kvars
    /\ IF part = "ports" THEN Ports!PortsNext ELSE UNCHANGED pvars
    /\ IF part = "releases" THEN Feed!FeedNext ELSE UNCHANGED zvars
    /\ IF part = "panel" THEN Panel!PanelNext ELSE UNCHANGED wvars
    /\ IF part = "checks" THEN Checks!ChecksNext ELSE UNCHANGED xvars
    /\ IF part = "switches" THEN Tester!TesterNext ELSE UNCHANGED tstvars
    /\ IF part = "monitor" THEN Monitor!MonitorNext ELSE UNCHANGED hevars

(***************************************************************************)
(* The fairness each module states, under the part it is of: the loops,    *)
(* the threads, the timers and the calls under way run; users, cables and  *)
(* releases owe nothing.  Two actions are strongly fair, because steps     *)
(* that recur disable them: the daemon's tick of the tap history, and a    *)
(* look at a site whose next deployment may be under way.                  *)
(***************************************************************************)
HistoryFairness ==
    /\ WF_hvars(part = "history" /\ Hist!Plays /\ play)
    /\ SF_hvars(part = "history" /\ Hist!HistoryTick)
    /\ WF_hvars(part = "history" /\ Hist!WorkStep)
    /\ WF_hvars(part = "history" /\ Hist!PollStats)
    /\ WF_hvars(part = "history" /\ Hist!BackoffOver)
    /\ WF_hvars(part = "history" /\ \E c \in calls : Hist!PeriodQueries(c) \/ Hist!PeriodApplies(c))
    /\ WF_hvars(part = "history" /\ \E c \in calls : Hist!GetTapStats(c))
    /\ WF_hvars(part = "history" /\ \E c \in calls, fails \in BOOLEAN : Hist!Received(c, fails))
    /\ WF_hvars(part = "history" /\ \E c \in calls, fails \in BOOLEAN : Hist!PeriodSet(c, fails))

SchemaFairness ==
    WF_svars(part = "schema" /\ (Schema!Opens \/ Schema!Begins \/ Schema!Statement \/ Schema!Commits))

FormsFairness ==
    /\ WF_mvars(part = "forms" /\ Forms!Poll)
    /\ WF_mvars(part = "forms" /\ \E call \in polls : Forms!Serve(call))
    /\ WF_mvars(part = "forms" /\ \E call \in polls : Forms!Status(call))
    /\ WF_mvars(part = "forms" /\ \E conf \in saves : Forms!Stored(conf))

LogsFairness ==
    /\ WF_lvars(part = "logs" /\ Logs!PollLogs)
    /\ WF_lvars(part = "logs" /\ \E f \in fetches : Logs!Serves(f))
    /\ WF_lvars(part = "logs" /\ \E f \in fetches : Logs!Received(f))

CalFairness ==
    /\ WF_kvars(part = "calibration" /\ Cal!PadStart)
    /\ WF_kvars(part = "calibration" /\ Cal!PadCancel)
    /\ WF_kvars(part = "calibration" /\ Cal!PadSends)
    /\ WF_kvars(part = "calibration" /\ Cal!LinkReturns)
    /\ WF_kvars(part = "calibration" /\ Cal!Handles)
    /\ \A kind \in {"progress", "status"} :
         /\ WF_kvars(part = "calibration" /\ Cal!Polls(kind))
         /\ WF_kvars(part = "calibration" /\ \E a \in asks :
               a.kind = kind /\ (Cal!Reads(a) \/ Cal!CalAnswer(a) \/ Cal!StatusAnswer(a)))
    /\ WF_kvars(part = "calibration" /\ \E a \in asks :
          Cal!StartArrives(a) \/ Cal!StartEnqueues(a) \/ Cal!CancelArrives(a))
    /\ WF_kvars(part = "calibration" /\ \E a \in asks :
          a.kind \in {"start", "cancel"} /\ Cal!CalAnswer(a))

PortsFairness ==
    /\ WF_pvars(part = "ports" /\ Ports!Boots)
    /\ WF_pvars(part = "ports" /\ Ports!Enumerates)
    /\ WF_pvars(part = "ports" /\ Ports!Discover)
    /\ \A n \in Names : WF_pvars(part = "ports" /\ Ports!DueAgain(n))
    /\ WF_pvars(part = "ports" /\ Ports!Lost)
    /\ WF_pvars(part = "ports" /\ Ports!FlashSteps)

FeedFairness ==
    /\ WF_zvars(part = "releases" /\ Feed!Build)
    /\ WF_zvars(part = "releases" /\ Feed!Deploy)
    /\ SF_zvars(part = "releases" /\ Feed!CheckSite)
    /\ WF_zvars(part = "releases" /\ Feed!Install)

PanelFairness ==
    /\ WF_wvars(part = "panel" /\ Panel!Served)
    /\ WF_wvars(part = "panel" /\ Panel!Works)
    /\ WF_wvars(part = "panel" /\ Panel!Answered)
    /\ WF_wvars(part = "panel" /\ Panel!Ages)
    /\ WF_wvars(part = "panel" /\ Panel!PollTick)

ChecksFairness ==
    /\ WF_xvars(part = "checks" /\ \E c \in handlers : Checks!Sends(c))
    /\ WF_xvars(part = "checks" /\ \E c \in handlers : Checks!TimesOut(c))
    /\ WF_xvars(part = "checks" /\ \E c \in handlers : Checks!PinDetected(c) \/ Checks!BoardTestDone(c))

TesterFairness ==
    /\ WF_tstvars(part = "switches" /\ Tester!Handle)
    /\ WF_tstvars(part = "switches" /\ Tester!HandleKeyboard)
    /\ WF_tstvars(part = "switches" /\ Tester!Opens)
    /\ WF_tstvars(part = "switches" /\ Tester!Fetches)
    /\ WF_tstvars(part = "switches" /\ Tester!Lost)
    /\ WF_tstvars(part = "switches" /\ Tester!Samples)

MonitorFairness ==
    /\ WF_hevars(part = "monitor" /\ Monitor!Follows)
    /\ WF_hevars(part = "monitor" /\ Monitor!HandleHeEvent)
    /\ WF_hevars(part = "monitor" /\ Monitor!Creates)

Fairness ==
    /\ HistoryFairness /\ SchemaFairness /\ FormsFairness /\ LogsFairness /\ CalFairness
    /\ PortsFairness /\ FeedFairness /\ PanelFairness /\ ChecksFairness
    /\ TesterFairness /\ MonitorFairness

Spec == Init /\ [][Next]_vars /\ Fairness

-----------------------------------------------------------------------------
\* What the proofs ask of the parts' constants holds of these
ASSUME PortAssumption == Ports!PortConstants
ASSUME LogAssumption == Logs!LogConstants
ASSUME SchemaAssumption == Schema!SchemaConstants
ASSUME FormsAssumption == Forms!FormsConstants
ASSUME ChecksAssumption == Checks!ChecksConstants
ASSUME TesterAssumption == Tester!TesterConstants
ASSUME MonitorAssumption == Monitor!MonitorConstants

SettleTypeOK ==
    /\ part = "history"     => Hist!HistoryTypeOK
    /\ part = "schema"      => Schema!SchemaTypeOK
    /\ part = "forms"       => Forms!FormsTypeOK
    /\ part = "logs"        => Logs!LogsTypeOK
    /\ part = "calibration" => Cal!CalTypeOK
    /\ part = "ports"       => Ports!PortsTypeOK
    /\ part = "releases"    => Feed!FeedTypeOK
    /\ part = "panel"       => Panel!PanelTypeOK
    /\ part = "checks"      => Checks!ChecksTypeOK
    /\ part = "switches"    => Tester!TesterTypeOK
    /\ part = "monitor"     => Monitor!MonitorTypeOK

\* A database that opened has every row as it was, wherever earlier openings
\* were cut (migrate in opad-storage); a published history is of its period.
StoredWhole ==
    /\ part = "schema"  => Schema!OpenedIsWhole
    /\ part = "history" => Hist!HistoryIsOfThePeriod

\* What the user typed or chose is not undone by an answer that was under way,
\* and the log loses no entry (the GUI's update handlers, updater.rs).
EditsStay ==
    /\ part = "forms" => Forms!KeyEditsStay
    /\ part = "panel" => Panel!SwitchIsHonoured
    /\ part = "logs"  => Logs!CursorSkipsNothing

\* A calibration run ends with the app that started it, a pin is told to who
\* asked for it, no board test drives pins while one is searched for, and the
\* Diagnostics page charges a switch with what it did and nothing else.
ChecksAreOwned ==
    /\ part = "calibration" => Cal!NoRunWithoutItsApp
    /\ part = "checks"      => Checks!AnswersItsOwn /\ Checks!NoTestDuringScan
    /\ part = "switches"    => Tester!ChatterIsTheSwitches
    /\ part = "monitor"     => Monitor!FindingsAreTrue

\* The flasher never takes a stranger's bootloader it could tell from the pad's
\* (select_bootloader_port, flash.rs).
NeverAStranger == [][part = "ports" => Ports!NeverAStranger]_vars

\* An install never goes to a pulled or older release, nor a stable one to a
\* beta (opad-feed, manifest.rs).
InstallsStayGood == [][part = "releases" => Feed!InstallsAreGood]_vars

\* What a part's liveness property supposes of the world, and what then comes
Undisturbed ==
    /\ part = "ports"    => Ports!AppRuns
    /\ part = "releases" => Feed!Buildable

Settled ==
    /\ part = "history"     => Hist!StatsAgree
    /\ part = "schema"      => Schema!Opened
    /\ part = "forms"       => Forms!FormAgrees
    /\ part = "logs"        => Logs!CursorIsNewest
    /\ part = "calibration" => Cal!CalAgrees
    /\ part = "ports"       => Ports!Found
    /\ part = "releases"    => Feed!Current
    /\ part = "panel"       => Panel!PanelAgrees
    /\ part = "checks"      => Checks!NothingPending
    /\ part = "switches"    => Tester!DrawnAsItIs
    /\ part = "monitor"     => Monitor!AtTheEnd

\* Left alone, every part comes to rest where both its sides agree: statistics
\* and forms show what is stored, the log its newest entry, the panel what the
\* worker has, the pad is found, the newest release is installed, neither a calibration
\* nor a check is left waiting, and no key is drawn down that is up.
AllSettle == <>[]Undisturbed => <>[]Settled

-----------------------------------------------------------------------------
(* Bounds: each set holds behaviours with different mixes of events *)

MCHistoryBudgets ==
    {[plays |-> 1, sets |-> 2, faults |-> 0, errors |-> 1],
     [plays |-> 2, sets |-> 1, faults |-> 1, errors |-> 0]}
MCFormBudgets ==
    {[edits |-> 2, saves |-> 1, others |-> 0, rejects |-> 1, plugs |-> 1],
     [edits |-> 1, saves |-> 1, others |-> 1, rejects |-> 0, plugs |-> 1]}
MCLogBudgets ==
    {[entries |-> 5, restarts |-> 0, polls |-> 2], [entries |-> 4, restarts |-> 1, polls |-> 1]}
MCCalBudgets == {[clicks |-> 1, drops |-> 1], [clicks |-> 2, drops |-> 0]}
MCInfoOf ==
    [t \in Tags |->
        CASE t = A1   -> [track |-> "app", version |-> 1, pre |-> 0, revision |-> 0]
          [] t = A2rc -> [track |-> "app", version |-> 2, pre |-> 1, revision |-> 0]
          [] t = A2   -> [track |-> "app", version |-> 2, pre |-> 0, revision |-> 0]
          [] t = T1   -> [track |-> "tosu", version |-> 1, pre |-> 0, revision |-> 1]
          [] t = T2   -> [track |-> "tosu", version |-> 1, pre |-> 0, revision |-> 2]]
MCFeedBudgets ==
    {[publishes |-> 1, yanks |-> 1, rollouts |-> 0, weeks |-> 0, switches |-> 0],
     [publishes |-> 1, yanks |-> 0, rollouts |-> 1, weeks |-> 0, switches |-> 0],
     [publishes |-> 1, yanks |-> 0, rollouts |-> 0, weeks |-> 1, switches |-> 1]}
MCPanelBudgets ==
    {[clicks |-> 2, opens |-> 0, maps |-> 0, ticks |-> 0],
     [clicks |-> 1, opens |-> 1, maps |-> 0, ticks |-> 1],
     [clicks |-> 1, opens |-> 0, maps |-> 1, ticks |-> 0]}
MCCheckBudgets ==
    {[detects |-> 2, tests |-> 0, cancels |-> 0, drops |-> 0],
     [detects |-> 1, tests |-> 1, cancels |-> 0, drops |-> 0],
     [detects |-> 1, tests |-> 0, cancels |-> 1, drops |-> 1]}
MCTesterBudgets ==
    {[edges |-> 3, ticks |-> 2, breaks |-> 0, resets |-> 1, evdev |-> TRUE, focus |-> FALSE],
     [edges |-> 3, ticks |-> 1, breaks |-> 1, resets |-> 0, evdev |-> TRUE, focus |-> FALSE],
     [edges |-> 3, ticks |-> 1, breaks |-> 1, resets |-> 0, evdev |-> FALSE, focus |-> FALSE],
     [edges |-> 2, ticks |-> 0, breaks |-> 1, resets |-> 0, evdev |-> TRUE, focus |-> TRUE]}
MCMonitorBudgets ==
    {[edges |-> 4, ticks |-> 1, losses |-> 0, breaks |-> 0, keys |-> {1}, mx |-> FALSE],
     [edges |-> 3, ticks |-> 1, losses |-> 1, breaks |-> 1, keys |-> {2}, mx |-> FALSE],
     [edges |-> 3, ticks |-> 0, losses |-> 0, breaks |-> 0, keys |-> {1, 2}, mx |-> FALSE],
     [edges |-> 3, ticks |-> 1, losses |-> 1, breaks |-> 0, keys |-> {1}, mx |-> TRUE]}
=============================================================================
