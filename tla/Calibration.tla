------------------------------ MODULE Calibration ------------------------------
(***************************************************************************)
(* A Hall effect calibration from a click in the window to the keypad and  *)
(* back: the daemon's request handlers and its copy of the newest report,  *)
(* the pad's runner with its one-report mailbox, and the Calibration page  *)
(* with the epoch that tells answers of this click from older ones.        *)
(*                                                                         *)
(* The epoch is a flag on each call: fresh until the epoch moves on. The   *)
(* two key steps are one stage. Not modelled: samples, thresholds, the     *)
(* on-pad button (offered only without an app).                            *)
(***************************************************************************)
EXTENDS Naturals, Sequences, FiniteSets

CONSTANTS
    None,
    CalBudgets   \* bounds: clicks, drops of the link

Running == {"rest", "keys"}
Stages  == Running \cup {"none", "success", "failed"}

VARIABLES
    pad,       \* the runner: stage, and whether the app started it
    outbox,    \* s_progress: the report not sent yet
    cable,     \* the pad's port is open
    cmds,      \* commands on their way to the pad
    rx,        \* the device actor's events on their way to the daemon's loop
    latest,    \* latest_he_progress
    known,     \* the daemon's device_connected
    page,      \* the window: connected, cal_starting, cal_progress
    asks,      \* calls of the window under way
    lastReport,\* history: the pad's last report on this link
    unseen,    \* history: the link went and came without the window noticing
    kbounds

kvars == <<pad, outbox, cable, cmds, rx, latest, known, page, asks, lastReport, unseen, kbounds>>

TakesOne(what) == kbounds[what] > 0 /\ kbounds' = [kbounds EXCEPT ![what] = @ - 1]

CalInit ==
    /\ pad = [stage |-> "none", app |-> FALSE]
    /\ outbox = None /\ cable = TRUE /\ cmds = <<>> /\ rx = <<>>
    /\ latest = None /\ known = TRUE
    /\ page = [connected |-> TRUE, starting |-> FALSE, shown |-> None]
    /\ asks = {} /\ lastReport = None /\ unseen = FALSE
    /\ kbounds \in CalBudgets

-----------------------------------------------------------------------------
(* The pad *)

Report(stage) == outbox' = stage /\ lastReport' = stage

\* start: refused when a run is on, the pad is busy or the screen is touched
PadStart ==
    /\ cmds # <<>> /\ Head(cmds) = "start" /\ cmds' = Tail(cmds)
    /\ \/ pad.stage \notin Running /\ pad' = [stage |-> "rest", app |-> TRUE] /\ Report("rest")
       \/ UNCHANGED pad /\ Report("failed")
    /\ UNCHANGED <<cable, rx, latest, known, page, asks, unseen, kbounds>>

PadCancel ==
    /\ cmds # <<>> /\ Head(cmds) = "cancel" /\ cmds' = Tail(cmds)
    /\ pad' = [stage |-> "none", app |-> FALSE] /\ Report("none")
    /\ UNCHANGED <<cable, rx, latest, known, page, asks, unseen, kbounds>>

\* The runner's next step: the player's presses, or a measurement refused
PadSteps ==
    /\ pad.stage \in Running /\ cable
    /\ \E next \in {"failed", IF pad.stage = "rest" THEN "keys" ELSE "success"} :
           pad' = [pad EXCEPT !.stage = next] /\ Report(next)
    /\ UNCHANGED <<cable, cmds, rx, latest, known, page, asks, unseen, kbounds>>

\* protocol_poll_he_calibration
PadSends ==
    /\ outbox # None /\ cable /\ Len(rx) < 3
    /\ rx' = Append(rx, outbox) /\ outbox' = None
    /\ UNCHANGED <<pad, cable, cmds, latest, known, page, asks, lastReport, unseen, kbounds>>

\* The port closes: a run the app started ends with it
LinkDrops ==
    /\ cable /\ TakesOne("drops") /\ cable' = FALSE /\ cmds' = <<>>
    /\ pad' = IF pad.stage \in Running /\ pad.app
                THEN [stage |-> "failed", app |-> FALSE] ELSE pad
    /\ outbox' = None /\ lastReport' = None /\ rx' = Append(rx, "down")
    /\ UNCHANGED <<latest, known, page, asks, unseen>>

LinkReturns ==
    /\ ~cable /\ cable' = TRUE /\ rx' = Append(rx, "up")
    /\ UNCHANGED <<pad, outbox, cmds, latest, known, page, asks, lastReport, unseen, kbounds>>

-----------------------------------------------------------------------------
(* The daemon *)

Handles ==
    /\ rx # <<>> /\ rx' = Tail(rx)
    /\ known' = IF Head(rx) \in {"up", "down"} THEN Head(rx) = "up" ELSE known
    /\ latest' = CASE Head(rx) = "down" -> None
                   [] Head(rx) = "up"   -> latest
                   [] OTHER             -> IF known THEN Head(rx) ELSE latest
    /\ unseen' = (unseen \/ (Head(rx) = "up" /\ page.connected))
    /\ UNCHANGED <<pad, outbox, cable, cmds, page, asks, lastReport, kbounds>>

Answered(a, what) == asks' = (asks \ {a}) \cup {[a EXCEPT !.st = "ok", !.got = what]}

\* StartHeCalibration clears the report, then hands the command to the actor
StartArrives(a) ==
    /\ a.kind = "start" /\ a.st = "sent"
    /\ IF cable /\ known
         THEN latest' = None /\ asks' = (asks \ {a}) \cup {[a EXCEPT !.st = "cleared"]}
         ELSE UNCHANGED latest /\ Answered(a, "error")
    /\ UNCHANGED <<pad, outbox, cable, cmds, rx, known, page, lastReport, unseen, kbounds>>

StartEnqueues(a) ==
    /\ a.kind = "start" /\ a.st = "cleared"
    /\ cmds' = IF cable THEN Append(cmds, "start") ELSE cmds
    /\ Answered(a, IF cable THEN "started" ELSE "error")
    /\ UNCHANGED <<pad, outbox, cable, rx, latest, known, page, lastReport, unseen, kbounds>>

CancelArrives(a) ==
    /\ a.kind = "cancel" /\ a.st = "sent"
    /\ cmds' = IF cable /\ known THEN Append(cmds, "cancel") ELSE cmds
    /\ Answered(a, IF cable /\ known THEN "cancelled" ELSE "error")
    /\ UNCHANGED <<pad, outbox, cable, rx, latest, known, page, lastReport, unseen, kbounds>>

Reads(a) ==
    /\ a.kind \in {"progress", "status"} /\ a.st = "sent"
    /\ Answered(a, IF a.kind = "status" THEN IF known THEN "on" ELSE "off" ELSE latest)
    /\ UNCHANGED <<pad, outbox, cable, cmds, rx, latest, known, page, lastReport, unseen, kbounds>>

-----------------------------------------------------------------------------
(* The window *)

Asked(kind, others) == others \cup {[kind |-> kind, st |-> "sent", fresh |-> TRUE, got |-> None]}
\* The epoch moves on: the answers under way are of an older one
Staled(s) == {[a EXCEPT !.fresh = FALSE] : a \in s}

Polls(kind) ==
    /\ kind = "progress" => page.connected
    /\ \A a \in asks : a.kind # kind
    /\ asks' = Asked(kind, asks)
    /\ UNCHANGED <<pad, outbox, cable, cmds, rx, latest, known, page, lastReport, unseen, kbounds>>

\* The page offers Start before a run and after one, and Cancel during one
StartOffered  == page.connected /\ \/ page.shown \in {None, "none"} /\ ~page.starting
                                   \/ page.shown \in {"success", "failed"}
CancelOffered == page.connected /\ page.shown \in Running

ClickStart ==
    /\ StartOffered /\ TakesOne("clicks")
    /\ page' = [page EXCEPT !.starting = TRUE, !.shown = None]
    /\ asks' = Asked("start", Staled(asks))
    /\ UNCHANGED <<pad, outbox, cable, cmds, rx, latest, known, lastReport, unseen>>

ClickCancel ==
    /\ CancelOffered /\ TakesOne("clicks")
    /\ page' = [page EXCEPT !.starting = FALSE]
    /\ asks' = Asked("cancel", Staled(asks))
    /\ UNCHANGED <<pad, outbox, cable, cmds, rx, latest, known, lastReport, unseen>>

OfAnyEpoch(a) == TRUE
OfThisEpoch(a) == a.fresh

\* StartCalibrationDone, CancelCalibrationDone, CalibrationProgress
CalAnswer(a) ==
    /\ a.st = "ok" /\ a.kind # "status" /\ asks' = asks \ {a}
    /\ page' = IF ~OfThisEpoch(a) THEN page
               ELSE CASE a.kind = "start" -> [page EXCEPT !.starting = (a.got = "started")]
                      [] a.got = "cancelled" -> [page EXCEPT !.shown = None]
                      [] a.kind = "progress" ->
                             [page EXCEPT !.shown = a.got, !.starting = @ /\ a.got = None]
                      [] OTHER -> page
    /\ UNCHANGED <<pad, outbox, cable, cmds, rx, latest, known, lastReport, unseen, kbounds>>

\* Status: a pad that is gone, or just came, ends what was shown of the last one
StatusAnswer(a) ==
    LET on == a.got = "on" IN
    /\ a.st = "ok" /\ a.kind = "status"
    /\ IF ~on \/ ~page.connected
         THEN /\ page' = [connected |-> on, starting |-> FALSE, shown |-> None]
              /\ asks' = Staled(asks \ {a})
         ELSE UNCHANGED page /\ asks' = asks \ {a}
    /\ UNCHANGED <<pad, outbox, cable, cmds, rx, latest, known, lastReport, unseen, kbounds>>

-----------------------------------------------------------------------------

CalNext ==
    \/ PadStart \/ PadCancel \/ PadSteps \/ PadSends \/ LinkDrops \/ LinkReturns
    \/ Handles \/ ClickStart \/ ClickCancel
    \/ \E kind \in {"progress", "status"} : Polls(kind)
    \/ \E a \in asks : \/ StartArrives(a) \/ StartEnqueues(a) \/ CancelArrives(a) \/ Reads(a)
                       \/ CalAnswer(a) \/ StatusAnswer(a)

\* The tasks of the pad and the daemon run, calls are answered, the window
\* polls; nobody has to click and the player need not press.
CalFairness ==
    /\ WF_kvars(PadStart) /\ WF_kvars(PadCancel) /\ WF_kvars(PadSends)
    /\ WF_kvars(LinkReturns) /\ WF_kvars(Handles)
    /\ \A kind \in {"progress", "status"} :
         /\ WF_kvars(Polls(kind))
         /\ WF_kvars(\E a \in asks : a.kind = kind /\ (Reads(a) \/ CalAnswer(a) \/ StatusAnswer(a)))
    /\ WF_kvars(\E a \in asks : StartArrives(a) \/ StartEnqueues(a) \/ CancelArrives(a))
    /\ WF_kvars(\E a \in asks : a.kind \in {"start", "cancel"} /\ CalAnswer(a))

CalSpec == CalInit /\ [][CalNext]_kvars /\ CalFairness

-----------------------------------------------------------------------------
(* Properties *)

CalTypeOK ==
    /\ pad \in [stage : Stages, app : BOOLEAN]
    /\ {outbox, latest, lastReport, page.shown} \subseteq Stages \cup {None}

\* A run of the app's never goes on without it: nobody could cancel it, and the
\* keys stay silent while it lasts.
NoRunWithoutItsApp == pad.stage \in Running => cable

\* Whatever was clicked, refused, cancelled or unplugged, the page comes to
\* show the pad's last report, and never waits for a start that failed: a
\* refusal is reported once, so losing it leaves "Starting..." for good. A link
\* that went and came between two status polls is the exception: the window
\* notices neither, and a start that was lost with it keeps the button.
CalAgrees == page.connected /\ page.shown = lastReport /\ (page.starting => unseen)
===============================================================================
