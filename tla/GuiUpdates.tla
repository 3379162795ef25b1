------------------------------ MODULE GuiUpdates ------------------------------
(***************************************************************************)
(* The Settings page's updates panel: what it shows of the update worker,  *)
(* and the channel, the switch and the buttons it sends to the daemon.     *)
(* Every request is a connection of its own, so requests and polls pass    *)
(* each other; the worker takes its commands one at a time, behind         *)
(* whatever check or install it is busy with.                              *)
(*                                                                         *)
(* Not modelled: tosu's switch (the app's stands for both), the sentences, *)
(* what a check downloads (ReleaseFeed) and installs (UpdateWorker).       *)
(***************************************************************************)
EXTENDS Naturals, Sequences

CONSTANTS
    None,
    Stable, Beta,
    PanelBudgets   \* bounds: clicks, opens, maps, ticks

VARIABLES
    stored,     \* app_state: CHANNEL_KEY and APP_ENABLED_KEY
    worker,     \* UpdateStatus: channel, on (app.enabled), checking
    feed,       \* the channel of the manifest the worker holds
    task,       \* what the worker is at
    queue,      \* UpdateCommands not taken yet
    inmap,      \* the mode is not IDLE
    asked,      \* requests of the GUI: kind, arg, and how far they are
    panel,      \* App.updates
    busy,       \* update_busy
    age,        \* how long ago update_status_polled_at is
    shown,      \* the window is open
    wbounds

wvars == <<stored, worker, feed, task, queue, inmap, asked, panel, busy, age, shown, wbounds>>
dvars == <<stored, worker, feed, task, queue, inmap>>
gvars == <<panel, busy, age, shown>>

Channels == {Stable, Beta}
Idle == [st |-> "idle", channel |-> None]
Call(kind, arg, st) == [kind |-> kind, arg |-> arg, st |-> st]

PanelInit ==
    /\ stored \in [channel : {Stable}, on : {TRUE}]
    /\ worker = [channel |-> Stable, on |-> TRUE, checking |-> FALSE]
    /\ feed \in {None, Stable} /\ task = Idle /\ queue = <<>> /\ inmap \in BOOLEAN
    /\ asked = {} /\ panel = None /\ busy = FALSE /\ age = "forced" /\ shown = TRUE
    /\ wbounds \in PanelBudgets

Uses(what) == wbounds[what] > 0 /\ wbounds' = [wbounds EXCEPT ![what] = @ - 1]

-----------------------------------------------------------------------------
(* The daemon's handlers *)

\* A request leaves state st for state to, with another argument
Moves(c, arg, to) == asked' = (asked \ {c}) \cup {Call(c.kind, arg, to)}

GetUpdateStatus(c) ==
    /\ c.kind = "poll" /\ c.st = "sent" /\ Moves(c, worker, "back")
    /\ UNCHANGED <<dvars, gvars, wbounds>>

\* In a map nothing is written
SetUpdateEnabled(c) ==
    /\ c.kind = "toggle" /\ c.st = "sent" /\ Moves(c, c.arg, "back")
    /\ stored' = IF inmap THEN stored ELSE [stored EXCEPT !.on = c.arg]
    /\ UNCHANGED <<worker, feed, task, queue, inmap, gvars, wbounds>>

\* Saved, and only then told to the worker; in a map it is not saved
SetUpdateChannel(c) ==
    /\ c.kind = "channel" /\ c.st = "sent"
    /\ IF inmap THEN Moves(c, c.arg, "back") /\ UNCHANGED stored
       ELSE Moves(c, c.arg, "saved") /\ stored' = [stored EXCEPT !.channel = c.arg]
    /\ UNCHANGED <<worker, feed, task, queue, inmap, gvars, wbounds>>

ChannelSaved(c) ==
    /\ c.st = "saved" /\ Moves(c, c.arg, "back")
    /\ queue' = Append(queue, Call("channel", c.arg, "sent"))
    /\ UNCHANGED <<stored, worker, feed, task, inmap, gvars, wbounds>>

\* CheckForUpdates and InstallUpdate: put off in a map
Commands(c) ==
    /\ c.kind \in {"check", "install"} /\ c.st = "sent" /\ Moves(c, None, "back")
    /\ queue' = IF inmap THEN queue ELSE Append(queue, c)
    /\ UNCHANGED <<stored, worker, feed, task, inmap, gvars, wbounds>>

-----------------------------------------------------------------------------
(* The update worker *)

Begins == task' = [st |-> "check", channel |-> None] /\ worker' = [worker EXCEPT !.checking = TRUE]

WorkerTicks ==
    /\ task.st = "idle" /\ Uses("ticks") /\ Begins
    /\ UNCHANGED <<stored, feed, queue, inmap, asked, gvars>>

\* Check; a second one within the minute is ignored
TakesCheck ==
    /\ task.st = "idle" /\ queue # <<>> /\ Head(queue).kind = "check" /\ queue' = Tail(queue)
    /\ Begins \/ UNCHANGED <<task, worker>>
    /\ UNCHANGED <<stored, feed, inmap, asked, gvars, wbounds>>

ChannelOfCommand(command) == command.arg
ChannelOf(command) == stored.channel

\* ChannelChanged: the channel is read again, the old channel's feed dropped
TakesChannel ==
    /\ task.st = "idle" /\ queue # <<>> /\ Head(queue).kind = "channel" /\ queue' = Tail(queue)
    /\ task' = [st |-> "check", channel |-> None] /\ feed' = None
    /\ worker' = [worker EXCEPT !.channel = ChannelOf(Head(queue)), !.checking = TRUE]
    /\ UNCHANGED <<stored, inmap, asked, gvars, wbounds>>

\* Install: nothing without a feed
TakesInstall ==
    /\ task.st = "idle" /\ queue # <<>> /\ Head(queue).kind = "install" /\ queue' = Tail(queue)
    /\ task' = IF feed = None THEN task ELSE [st |-> "install", channel |-> feed]
    /\ UNCHANGED <<stored, worker, feed, inmap, asked, gvars, wbounds>>

\* check(): not in a map; the channel is read from storage here
CheckReads ==
    /\ task.st = "check" /\ task.channel = None
    /\ IF inmap THEN task' = Idle /\ worker' = [worker EXCEPT !.checking = FALSE]
       ELSE task' = [task EXCEPT !.channel = stored.channel] /\ UNCHANGED worker
    /\ UNCHANGED <<stored, feed, queue, inmap, asked, gvars, wbounds>>

\* The feed came (check_app reads the switch), or is unchanged, or the check failed
CheckEnds ==
    /\ task.st = "check" /\ task.channel # None /\ task' = Idle
    /\ \/ feed' = task.channel /\ worker' = [worker EXCEPT !.checking = FALSE, !.on = stored.on]
       \/ UNCHANGED feed /\ worker' = [worker EXCEPT !.checking = FALSE]
    /\ UNCHANGED <<stored, queue, inmap, asked, gvars, wbounds>>

InstallEnds ==
    /\ task.st = "install" /\ task' = Idle
    /\ UNCHANGED <<stored, worker, feed, queue, inmap, asked, gvars, wbounds>>

ModeChanges ==
    /\ Uses("maps") /\ inmap' = ~inmap
    /\ UNCHANGED <<stored, worker, feed, task, queue, asked, gvars>>

-----------------------------------------------------------------------------
(* The GUI *)

Ages ==
    /\ age \in {"fresh", "busy"} /\ age' = IF age = "fresh" THEN "busy" ELSE "slow"
    /\ UNCHANGED <<dvars, asked, panel, busy, shown, wbounds>>

PollDueBusy(a) == a = "forced" \/ (a = "busy" /\ (busy \/ (panel # None /\ panel.checking)))

\* 2 s while something is under way, 60 s otherwise, at once when forced
PollDue(a) == a = "slow" \/ PollDueBusy(a)

\* What poll() does for the panel when the poll before is that old
Polls(calls, a) ==
    IF shown /\ PollDue(a) THEN age' = "fresh" /\ asked' = calls \cup {Call("poll", None, "sent")}
    ELSE age' = a /\ asked' = calls

\* One poll at a time waits for the daemon, as its answer takes milliseconds
PollTick ==
    /\ shown /\ PollDue(age) /\ Polls(asked, age)
    /\ \A c \in asked : c.kind # "poll"
    /\ UNCHANGED <<dvars, panel, busy, shown, wbounds>>

\* Navigate(Settings)
OpensSettings ==
    /\ shown /\ Uses("opens") /\ Polls(asked, "forced")
    /\ UNCHANGED <<dvars, panel, busy, shown>>

\* The window is closed to the tray, and opened again
Window ==
    /\ Uses("opens") /\ shown' = ~shown
    /\ IF shown THEN UNCHANGED <<asked, age>>
       ELSE IF PollDue(age) THEN age' = "fresh" /\ asked' = asked \cup {Call("poll", None, "sent")}
            ELSE UNCHANGED <<asked, age>>
    /\ UNCHANGED <<dvars, panel, busy>>

\* UpdateStatus: an answer to whatever poll
UpdateStatus(c) ==
    /\ c.kind = "poll" /\ c.st = "back" /\ asked' = asked \ {c}
    /\ panel' = c.arg /\ busy' = FALSE
    /\ UNCHANGED <<dvars, age, shown, wbounds>>

\* ActionDone: the next poll is forced
ActionDone(c) ==
    /\ c.kind # "poll" /\ c.st = "back" /\ Polls(asked \ {c}, "forced")
    /\ UNCHANGED <<dvars, panel, busy, shown, wbounds>>

Clicks(kind, arg) ==
    /\ shown /\ panel # None /\ Uses("clicks")
    /\ asked' = asked \cup {Call(kind, arg, "sent")}
    /\ UNCHANGED <<dvars, age, shown>>

\* ToggleUpdater: reflected at once
ToggleUpdater ==
    /\ Clicks("toggle", ~panel.on) /\ panel' = [panel EXCEPT !.on = ~@] /\ UNCHANGED busy

CheckForUpdates ==
    /\ Clicks("check", None) /\ ~panel.checking
    /\ panel' = [panel EXCEPT !.checking = TRUE] /\ busy' = TRUE

PicksChannel(ch) ==
    /\ Clicks("channel", ch)
    /\ panel' = [panel EXCEPT !.channel = ch, !.checking = TRUE] /\ busy' = TRUE

InstallUpdate == Clicks("install", None) /\ busy' = TRUE /\ UNCHANGED panel

Served ==
    \E c \in asked : GetUpdateStatus(c) \/ SetUpdateEnabled(c) \/ SetUpdateChannel(c)
                     \/ ChannelSaved(c) \/ Commands(c)
Works == TakesCheck \/ TakesChannel \/ TakesInstall \/ CheckReads \/ CheckEnds \/ InstallEnds
Answered == \E c \in asked : UpdateStatus(c) \/ ActionDone(c)

PanelNext ==
    \/ \E c \in asked : GetUpdateStatus(c)
    \/ \E c \in asked : SetUpdateEnabled(c)
    \/ \E c \in asked : SetUpdateChannel(c)
    \/ \E c \in asked : ChannelSaved(c)
    \/ \E c \in asked : Commands(c)
    \/ WorkerTicks \/ TakesCheck \/ TakesChannel \/ TakesInstall
    \/ CheckReads \/ CheckEnds \/ InstallEnds \/ ModeChanges
    \/ Ages \/ PollTick \/ OpensSettings \/ Window
    \/ \E c \in asked : UpdateStatus(c)
    \/ \E c \in asked : ActionDone(c)
    \/ ToggleUpdater \/ CheckForUpdates \/ InstallUpdate
    \/ \E ch \in Channels : PicksChannel(ch)

\* The executor serves requests and worker; the GUI's timer runs while it does
PanelFairness ==
    /\ WF_wvars(Served) /\ WF_wvars(Works) /\ WF_wvars(Answered)
    /\ WF_wvars(Ages) /\ WF_wvars(PollTick)
PanelSpec == PanelInit /\ [][PanelNext]_wvars /\ PanelFairness

-----------------------------------------------------------------------------
\* The panel is what the worker says of itself or what the user just picked
Statuses == [channel : Channels, on : BOOLEAN, checking : BOOLEAN]

PanelTypeOK ==
    /\ stored \in [channel : Channels, on : BOOLEAN]
    /\ worker \in Statuses /\ panel \in {None} \cup Statuses
    /\ feed \in Channels \cup {None} /\ task.st \in {"idle", "check", "install"}
    /\ inmap \in BOOLEAN /\ busy \in BOOLEAN /\ shown \in BOOLEAN
    /\ age \in {"forced", "fresh", "busy", "slow"}
    /\ \A c \in asked : /\ c.kind \in {"poll", "toggle", "channel", "check", "install"}
                        /\ c.kind = "poll" /\ c.st = "back" => c.arg \in Statuses

Switching ==
    \/ \E c \in asked : c.st = "saved"
    \/ \E i \in DOMAIN queue : queue[i].kind = "channel"

\* Once every switch has reached the worker, the worker follows the channel
\* that was saved last, and holds, fetches and installs no other one's feed,
\* in whatever order two switches were saved and sent.
SwitchIsHonoured ==
    ~Switching => /\ worker.channel = stored.channel
                  /\ feed \in {None, stored.channel}
                  /\ task.st = "check" => task.channel \in {None, stored.channel}

\* An open panel ends up showing the worker as it is, whichever answer came
\* last: the channel, and a check that is over lets go of the button.
PanelAgrees == shown => panel = worker
=============================================================================
