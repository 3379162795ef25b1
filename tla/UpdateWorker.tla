----------------------------- MODULE UpdateWorker -----------------------------
(***************************************************************************)
(* The update worker of the daemon and the tosu supervisor it stops for a  *)
(* swap: one channel's signed feed, the bundled tosu that updates itself,  *)
(* the app that waits for Install.                                         *)
(*                                                                         *)
(* The worker awaits the feed, the artifact, the supervisor and the apply  *)
(* step; a map may start at each of these, and the daemon die.  SQLite     *)
(* takes no write in a map (DaemonRuntime), and the worker goes on.        *)
(*                                                                         *)
(* Abstractions.  A feed is its serial and its versions; its ETag is the   *)
(* serial.  A signature or hash that does not fit is a failed fetch.  The  *)
(* install owns its files, and there is an artifact for it.  A tosu build  *)
(* (version and revision) is one number, kept in two files.  The daily     *)
(* interval and the backoff are `due`.                                     *)
(***************************************************************************)
EXTENDS Naturals, FiniteSets

CONSTANTS
    None,
    Channels,       \* STABLE and BETA
    Beta,           \* the one that ignores rollout percentages
    Origins,        \* how the app may have been installed
    UpdateBudgets   \* bounds: publishes, maps, deaths, failures, commands

VARIABLES
    origin,     \* InstallOrigin::detect(), beside the binary
    served,     \* per channel, the feed the server has
    umode,      \* RuntimeMode: "idle", "map" or "sync"
    sched,      \* SCHEDULE_KEY: CheckSchedule
    wanted,     \* CHANNEL_KEY, and whether ChannelChanged waits
    feed,       \* manifest: the last verified feed, as this install sees it
    work,       \* where the worker is
    bundled,    \* the tosu directory: the binary, REVISION, VERSION
    tosud,      \* supervise(): where it is, its child, `paused`, `stopped`
    port,       \* somebody else's tosu listens
    app,        \* the version on disk and the one running
    inprog,     \* IN_PROGRESS_KEY: the version being installed
    result,     \* LAST_RESULT_KEY of the app: the version, and how it went
    ubounds,
    late        \* history: a pause timed out

store  == <<sched, inprog, result>>
uvars  == <<origin, served, umode, sched, wanted, feed, work, bundled, tosud, port, app,
            inprog, result, ubounds, late>>

Spent(what) == ubounds[what] > 0 /\ ubounds' = [ubounds EXCEPT ![what] = @ - 1]
Fails(ok) == IF ok THEN UNCHANGED ubounds ELSE Spent("failures")

Gate == umode = "idle"          \* may_update_now
Stored == umode # "map"         \* check_writes_allowed

\* InstallOrigin::apply_policy
ApplyPolicy ==
    CASE origin = "windows" -> "Installer"
      [] origin \in {"deb", "rpm"} -> "PackageManager"
      [] origin \in {"appimage", "user"} -> "DirectReplace"
      [] OTHER -> "NotifyOnly"

\* Elsewhere a package manager owns the bundled tosu
OwnsBundledTosu == origin \in {"windows", "user", "appimage"}

Waiting == [at |-> "wait"]

NewSchedule == [chan |-> None, due |-> TRUE, etag |-> 0, serials |-> [c \in Channels |-> 0]]

UpdateInit ==
    /\ origin \in Origins
    /\ served = [c \in Channels |-> [serial |-> 1, chan |-> c, tosu |-> 1, app |-> 1, offered |-> TRUE]]
    /\ umode = "idle"
    /\ sched = NewSchedule
    /\ wanted \in [chan : Channels \ {Beta}, told : {FALSE}]
    /\ feed = None /\ work = Waiting
    /\ bundled \in {[bin |-> 1, rev |-> 1, ver |-> v] : v \in {0, 1}}
    /\ tosud = [at |-> "top", child |-> 0, paused |-> FALSE, stopped |-> TRUE]
    /\ port = FALSE
    /\ app = [disk |-> 1, runs |-> 1]
    /\ inprog = 0 /\ result = None
    /\ ubounds \in UpdateBudgets
    /\ late = FALSE

-----------------------------------------------------------------------------
(* The world *)

\* A release: of one component, to all installs or to others first
Released(f, what, toAll) == [f EXCEPT ![what] = @ + 1, !.serial = @ + 1, !.offered = toAll]

Publish(c) ==
    /\ Spent("publishes")
    /\ \E what \in {"tosu", "app"}, toAll \in BOOLEAN :
           served' = [served EXCEPT ![c] = Released(served[c], what, toAll)]
    /\ UNCHANGED <<origin, umode, store, wanted, feed, work, bundled, tosud, port, app, late>>

MapStarts ==
    /\ umode # "map" /\ Spent("maps") /\ umode' = "map"
    /\ UNCHANGED <<origin, served, store, wanted, feed, work, bundled, tosud, port, app, late>>

MapEnds ==
    /\ umode # "idle"
    /\ umode' = IF umode = "map" THEN "sync" ELSE "idle"
    /\ UNCHANGED <<origin, served, store, wanted, feed, work, bundled, tosud, port, app, ubounds, late>>

DayPasses ==
    /\ ~sched.due
    /\ sched' = [sched EXCEPT !.due = TRUE]
    /\ UNCHANGED <<origin, served, umode, wanted, feed, work, bundled, tosud, port, app, inprog,
                   result, ubounds, late>>

-----------------------------------------------------------------------------
(* Checking *)

\* CheckSchedule::switch_channel
Switched(s, c) ==
    IF s.chan = c THEN s ELSE [s EXCEPT !.chan = c, !.etag = 0, !.due = TRUE]

SetChannel(c) ==
    /\ c # wanted.chan /\ Stored /\ Spent("commands")
    /\ wanted' = [chan |-> c, told |-> TRUE]
    /\ UNCHANGED <<origin, served, umode, store, feed, work, bundled, tosud, port, app, late>>

\* check() up to the request
Starts(forced) ==
    LET s == Switched(sched, wanted.chan)
    IN  work' = IF Gate /\ (forced \/ s.due)
                THEN [at |-> "fetch", sched |-> s, chan |-> wanted.chan, cached |-> feed' # None]
                ELSE Waiting

\* The ticker, or Check now
CheckStarts(force) ==
    /\ work.at = "wait"
    /\ IF force THEN Spent("commands") ELSE UNCHANGED ubounds
    /\ feed' = feed
    /\ Starts(force)
    /\ UNCHANGED <<origin, served, umode, store, wanted, bundled, tosud, port, app, late>>

\* The old channel's feed says nothing about the new one
ChannelChanged ==
    /\ work.at = "wait" /\ wanted.told
    /\ wanted' = [wanted EXCEPT !.told = FALSE]
    /\ feed' = None
    /\ Starts(TRUE)
    /\ UNCHANGED <<origin, served, umode, store, bundled, tosud, port, app, ubounds, late>>

\* check_feed: not older than one seen on this channel
Checked(f, s) == f.serial >= s.serials[f.chan]

\* conditional_etag
NotModified == work.cached /\ work.sched.etag = served[work.chan].serial

\* record_success, record_failure
Recorded(etag) ==
    [work.sched EXCEPT !.due = FALSE, !.etag = etag,
                       !.serials[work.chan] = IF etag > @ THEN etag ELSE @]
Backoff == [work.sched EXCEPT !.due = FALSE]

\* rollout::for_install: what is being rolled out to others is left out
ForInstall(f) == IF f.chan = Beta \/ f.offered THEN f ELSE [f EXCEPT !.tosu = 0, !.app = 0]

\* fetch_manifest, and the schedule saved whatever came of it
Fetched(ok) ==
    /\ work.at = "fetch"
    /\ Fails(ok)
    /\ LET f == served[work.chan]
           news == ok /\ ~NotModified /\ Checked(f, work.sched)
           s == IF news THEN Recorded(f.serial) ELSE IF ok /\ NotModified THEN Recorded(work.sched.etag) ELSE Backoff
       IN  /\ sched' = IF Stored THEN s ELSE sched
           /\ work' = IF news THEN [at |-> "plan", feed |-> ForInstall(f), asked |-> FALSE]
                      ELSE Waiting
    /\ UNCHANGED <<origin, served, umode, wanted, feed, bundled, tosud, port, app, inprog, result, late>>

\* update_tosu is over: check_app follows in a check, and the worker keeps the feed
After == IF work.asked THEN Waiting ELSE [at |-> "app", feed |-> work.feed]

-----------------------------------------------------------------------------
(* tosu *)

\* A build newer than the one the files name
NewerTosu(f) == f.tosu > 0 /\ f.tosu > bundled.ver

\* Update now
InstallTosu ==
    /\ work.at = "wait" /\ feed # None
    /\ Spent("commands")
    /\ work' = [at |-> "plan", feed |-> feed, asked |-> TRUE]
    /\ UNCHANGED <<origin, served, umode, store, wanted, feed, bundled, tosud, port, app, late>>

\* tosu::plan; NotifyOnly and Defer change nothing either
TosuPlan(f) == IF NewerTosu(f) /\ OwnsBundledTosu /\ Gate THEN "Install" ELSE "UpToDate"

\* update_tosu, with the mode read again
PlanTosu ==
    /\ work.at = "plan"
    /\ work' = IF TosuPlan(work.feed) = "Install" THEN [work EXCEPT !.at = "download"] ELSE After
    /\ UNCHANGED <<origin, served, umode, store, wanted, feed, bundled, tosud, port, app, ubounds, late>>

DownloadTosu(ok) ==
    /\ work.at = "download"
    /\ Fails(ok)
    /\ work' = IF ok THEN [work EXCEPT !.at = "pause"] ELSE After
    /\ UNCHANGED <<origin, served, umode, store, wanted, feed, bundled, tosud, port, app, late>>

\* TosuSupervisor::pause
Pause ==
    /\ work.at = "pause"
    /\ tosud' = [tosud EXCEPT !.paused = TRUE]
    /\ work' = [work EXCEPT !.at = "stopping"]
    /\ UNCHANGED <<origin, served, umode, store, wanted, feed, bundled, port, app, ubounds, late>>

\* ... which waits for the child to be gone, ten seconds at most
Stopped ==
    /\ work.at = "stopping"
    /\ \/ tosud.stopped /\ UNCHANGED <<late, ubounds>>
       \/ ~tosud.stopped /\ Spent("failures") /\ late' = TRUE
    /\ work' = [work EXCEPT !.at = "swap"]
    /\ UNCHANGED <<origin, served, umode, store, wanted, feed, bundled, tosud, port, app>>

\* Mutant: VERSION is written before the binary is in place
SwapOrderVersionFirst == <<"ver", "bin", "rev">>

\* tosu::install: each file is replaced in one step, the binary first
SwapOrder == <<"bin", "rev", "ver">>

Swap(ok) ==
    /\ work.at = "swap"
    /\ LET written == {file \in {"bin", "rev", "ver"} : bundled[file] = work.feed.tosu}
           next == {i \in 1..3 : SwapOrder[i] \notin written}
           first == CHOOSE i \in next : \A j \in next : i <= j
       IN  IF ok /\ next # {}
           THEN bundled' = [bundled EXCEPT ![SwapOrder[first]] = work.feed.tosu]
                /\ UNCHANGED <<work, ubounds>>
           ELSE Fails(ok) /\ work' = [work EXCEPT !.at = "resume"] /\ UNCHANGED bundled
    /\ UNCHANGED <<origin, served, umode, store, wanted, feed, tosud, port, app, late>>

\* TosuSupervisor::resume
Resume ==
    /\ work.at = "resume"
    /\ tosud' = [tosud EXCEPT !.paused = FALSE]
    /\ work' = After
    /\ UNCHANGED <<origin, served, umode, store, wanted, feed, bundled, port, app, ubounds, late>>

-----------------------------------------------------------------------------
(* supervise() *)

Sup(from, to) == tosud.at = from /\ tosud' = to
Rest == UNCHANGED <<origin, served, umode, store, wanted, feed, work, bundled, app, late>>

\* Not paused, nobody on the port, a binary found
SupLooks ==
    /\ Sup("top", [tosud EXCEPT !.at = "found"]) /\ ~tosud.paused /\ ~port
    /\ Rest /\ UNCHANGED <<port, ubounds>>

\* Mutant: marked running only once it runs
MarksLate == tosud

\* `stopped` goes before the flag is read again
Marks == [tosud EXCEPT !.stopped = FALSE]

SupMarks ==
    /\ Sup("found", [Marks EXCEPT !.at = "marked"])
    /\ Rest /\ UNCHANGED <<port, ubounds>>

SupReadsAgain ==
    /\ Sup("marked", IF tosud.paused THEN [tosud EXCEPT !.at = "top", !.stopped = TRUE]
                     ELSE [tosud EXCEPT !.at = "launch"])
    /\ Rest /\ UNCHANGED <<port, ubounds>>

SupLaunches(ok) ==
    /\ Fails(ok)
    /\ Sup("launch", IF ok THEN [tosud EXCEPT !.at = "child", !.child = bundled.bin, !.stopped = FALSE]
                     ELSE [tosud EXCEPT !.at = "backoff", !.stopped = TRUE])
    /\ Rest /\ UNCHANGED port

\* The child exits by itself, or is killed and reaped for a pause
SupReaps ==
    /\ Sup("child", [tosud EXCEPT !.at = IF tosud.paused THEN "top" ELSE "backoff",
                                  !.child = 0, !.stopped = TRUE])
    /\ IF tosud.paused THEN UNCHANGED ubounds ELSE Spent("failures")
    /\ Rest /\ UNCHANGED port

SupBackoffOver ==
    /\ Sup("backoff", [tosud EXCEPT !.at = "top"])
    /\ Rest /\ UNCHANGED <<port, ubounds>>

\* A tosu the user starts, or stops, by hand
ForeignTosu ==
    /\ port \/ Spent("commands")
    /\ port => UNCHANGED ubounds
    /\ tosud.child = 0
    /\ port' = ~port
    /\ UNCHANGED <<origin, served, umode, store, wanted, feed, work, bundled, tosud, app, late>>

-----------------------------------------------------------------------------
(* The app *)

\* app::plan, for the version that runs
AppPlan(f) ==
    IF f.app <= app.runs THEN "UpToDate"
    ELSE IF ApplyPolicy = "NotifyOnly" THEN "NotifyOnly"
    ELSE IF Gate THEN "Available" ELSE "Defer"

\* check_app only shows the plan; then the worker keeps the feed
CheckApp ==
    /\ work.at = "app"
    /\ feed' = work.feed /\ work' = Waiting
    /\ UNCHANGED <<origin, served, umode, store, wanted, bundled, tosud, port, app, ubounds, late>>

\* Install: planned anew, fetched and staged
InstallApp(ok) ==
    /\ work.at = "wait" /\ feed # None /\ AppPlan(feed) = "Available"
    /\ ok \/ ubounds.failures > 0
    /\ Spent("commands")
    /\ work' = IF ok THEN [at |-> "mark", to |-> feed.app] ELSE Waiting
    /\ UNCHANGED <<origin, served, umode, store, wanted, feed, bundled, tosud, port, app, late>>

\* IN_PROGRESS, if SQLite takes it
MarkApp ==
    /\ work.at = "mark"
    /\ inprog' = IF Stored THEN work.to ELSE inprog
    /\ work' = [work EXCEPT !.at = "apply"]
    /\ UNCHANGED <<origin, served, umode, sched, wanted, feed, bundled, tosud, port, app, result, ubounds, late>>

\* apply_downloaded: all of it or nothing.  upgrade_from_repo: what the
\* repository has, and success too when that is nothing new.
ApplyApp(ok) ==
    /\ work.at = "apply"
    /\ Fails(ok)
    /\ \/ app' = [app EXCEPT !.disk = IF ok THEN work.to ELSE @]
       \/ ok /\ ApplyPolicy = "PackageManager" /\ app' = app
    /\ work' = [at |-> "record", to |-> work.to, ok |-> ok]
    /\ UNCHANGED <<origin, served, umode, store, wanted, feed, bundled, tosud, port, late>>

Records == result' = [to |-> work.to, ok |-> work.ok] /\ inprog' = 0

\* LAST_RESULT, and the mark goes
RecordApp ==
    /\ work.at = "record"
    /\ IF Stored THEN Records ELSE UNCHANGED <<inprog, result>>
    /\ work' = Waiting
    /\ UNCHANGED <<origin, served, umode, sched, wanted, feed, bundled, tosud, port, app, ubounds, late>>

\* Mutant: an install in progress has failed
ResolveFailed(to, running) == [to |-> to, ok |-> FALSE]

\* resolve_interrupted: the version now running decides
ResolveInterrupted(to, running) == [to |-> to, ok |-> running = to]

\* The daemon ends anywhere, by the Windows installer too, and starts again
Restart ==
    /\ Spent("deaths")
    /\ app' = [app EXCEPT !.runs = app.disk]
    /\ result' = IF inprog = 0 THEN result ELSE ResolveInterrupted(inprog, app.disk)
    /\ inprog' = 0
    /\ umode' = "idle" /\ feed' = None /\ work' = Waiting /\ late' = FALSE
    /\ wanted' = [wanted EXCEPT !.told = FALSE]
    /\ tosud' = [at |-> "top", child |-> 0, paused |-> FALSE, stopped |-> TRUE]
    /\ UNCHANGED <<origin, served, sched, bundled, port>>

-----------------------------------------------------------------------------
Supervise ==
    SupLooks \/ SupMarks \/ SupReadsAgain \/ SupLaunches(TRUE) \/ SupReaps \/ SupBackoffOver

UpdateNext ==
    \/ \E c \in Channels : Publish(c) \/ SetChannel(c)
    \/ MapStarts \/ MapEnds \/ DayPasses
    \/ CheckStarts(FALSE) \/ CheckStarts(TRUE) \/ ChannelChanged
    \/ \E ok \in BOOLEAN : Fetched(ok) \/ DownloadTosu(ok) \/ Swap(ok) \/ InstallApp(ok) \/ ApplyApp(ok)
    \/ InstallTosu \/ PlanTosu \/ Pause \/ Stopped \/ Resume
    \/ Supervise \/ SupLaunches(FALSE) \/ ForeignTosu
    \/ CheckApp \/ MarkApp \/ RecordApp
    \/ Restart

UpdateSpec == UpdateInit /\ [][UpdateNext]_uvars

-----------------------------------------------------------------------------
(* Properties *)

\* Every variable stays in its range; `stopped` is false while there is a child.
UpdateTypeOK ==
    /\ umode \in {"idle", "map", "sync"} /\ wanted.chan \in Channels
    /\ {bundled.bin, bundled.rev, bundled.ver, app.disk, app.runs, inprog} \subseteq Nat
    /\ tosud.child # 0 => ~tosud.stopped
    /\ result = None \/ result.to \in Nat

\* While the files are swapped tosu does not run, and whenever it runs it is the
\* binary on disk: no tosu of the old inode hides an update.  It takes `stopped`
\* and `paused` in the order pause() and supervise() have them.  A child that
\* outlives pause()'s ten seconds is the exception the code makes.
TosuIsTheOneInstalled ==
    ~late => /\ work.at = "swap" => tosud.child = 0
             /\ tosud.child # 0 => tosud.child = bundled.bin

\* VERSION never names a build that did not reach the disk, wherever the swap
\* failed or the daemon died in it: a later check can only install it again.
VersionIsOnDisk == bundled.ver <= bundled.bin /\ bundled.ver <= bundled.rev

\* What is said of an app update is true after a restart: a success runs, and a
\* failure left the version that ran before, though the installer stopped the
\* daemon, and though a map kept SQLite from taking the mark or the result.
ResultIsTrue ==
    inprog # 0 /\ inprog' = 0 /\ work' = Waiting /\ work.at # "record" =>
        (result'.ok <=> app'.runs = result'.to)
===============================================================================
