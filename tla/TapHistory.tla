------------------------------- MODULE TapHistory ------------------------------
(***************************************************************************)
(* The tap rate history: kept in SQLite, copied into the daemon's state by *)
(* its event loop and by the request that changes the period, and shown by *)
(* the window's Stats page, which polls.                                   *)
(*                                                                         *)
(* The state and the storage have a lock each and no one holds both, so a  *)
(* refresh and a period change are several steps. A history is the period  *)
(* it was read for and the number of attempts it counts.                   *)
(***************************************************************************)
EXTENDS Naturals, FiniteSets

CONSTANTS
    None,
    Days,           \* HISTORY_PERIOD_CHOICES
    HistoryBudgets  \* bounds: plays, period changes, failed writes, failed calls

VARIABLES
    play,     \* a map is played: writes are blocked
    ended,    \* tap_unsaved: attempts not saved yet
    sql,      \* the attempts and the period in the database
    snap,     \* TapStatsSnapshot: period_days and history; and period_unsaved
    work,     \* what the event loop does: SaveTapStats, RefreshTapHistory
    stats,    \* StatsState: snapshot, pending_period, in_flight, retry_at
    calls,    \* calls of the window under way
    overtaken,\* history: a queued save wrote a period older than the one chosen
    hbounds

hvars == <<play, ended, sql, snap, work, stats, calls, overtaken, hbounds>>

TakesOne(what) == hbounds[what] > 0 /\ hbounds' = [hbounds EXCEPT ![what] = @ - 1]
May(what, fails) == IF fails THEN TakesOne(what) ELSE UNCHANGED hbounds

History(days) == [days |-> days, n |-> sql.n]

HistoryInit ==
    \E days \in Days :
        /\ play = FALSE /\ ended = 0 /\ sql = [n |-> 0, days |-> days]
        /\ snap = [days |-> days, hist |-> [days |-> days, n |-> 0], unsaved |-> FALSE]
        /\ work = None /\ calls = {} /\ overtaken = FALSE
        /\ stats = [snap |-> None, pending |-> None, flying |-> FALSE, retry |-> FALSE]
        /\ hbounds \in HistoryBudgets

-----------------------------------------------------------------------------
(* The event loop *)

Plays ==
    /\ work = None
    /\ IF play THEN play' = FALSE /\ ended' = ended + 1 /\ UNCHANGED hbounds
               ELSE play' = TRUE /\ TakesOne("plays") /\ UNCHANGED ended
    /\ UNCHANGED <<sql, snap, work, stats, calls, overtaken>>

\* Tick 5b: save what is not saved, or let the window of the history slide
HistoryTick ==
    /\ work = None /\ ~play
    /\ work' = [st |-> IF ended > 0 \/ snap.unsaved THEN "save" ELSE "refresh",
                n |-> ended, days |-> IF snap.unsaved THEN snap.days ELSE None, hist |-> None]
    /\ ended' = 0 /\ snap' = [snap EXCEPT !.unsaved = FALSE]
    /\ UNCHANGED <<play, sql, stats, calls, overtaken, hbounds>>

\* SaveTapStats: attempts and period under the storage lock, or both put back
SaveTapStats(fails) ==
    /\ work # None /\ work.st = "save" /\ May("faults", fails)
    /\ work' = [work EXCEPT !.st = "refresh"]
    /\ IF fails
         THEN /\ ended' = ended + work.n
              /\ snap' = [snap EXCEPT !.unsaved = @ \/ work.days # None]
              /\ UNCHANGED <<sql, overtaken>>
         ELSE /\ sql' = [n |-> sql.n + work.n,
                         days |-> IF work.days = None THEN sql.days ELSE work.days]
              /\ overtaken' = (overtaken \/ work.days \notin {None, snap.days}
                             \/ \E c \in calls : c.st = "read" /\ work.days \notin {None, c.days})
              /\ UNCHANGED <<ended, snap>>
    /\ UNCHANGED <<play, stats, calls>>

\* refresh_history: the state is read, then the storage, then the state written
RefreshReads ==
    /\ work # None /\ work.st = "refresh"
    /\ work' = [work EXCEPT !.st = "query", !.days = snap.days]
    /\ UNCHANGED <<play, ended, sql, snap, stats, calls, overtaken, hbounds>>

RefreshQueries ==
    /\ work # None /\ work.st = "query"
    /\ work' = [work EXCEPT !.st = "publish", !.hist = History(work.days)]
    /\ UNCHANGED <<play, ended, sql, snap, stats, calls, overtaken, hbounds>>

ForWhateverPeriod(days) == TRUE
\* The period changed while the storage was read: that change brought its own
ForThePeriod(days) == snap.days = days

RefreshPublishes ==
    /\ work # None /\ work.st = "publish" /\ work' = None
    /\ snap' = IF ForThePeriod(work.days) THEN [snap EXCEPT !.hist = work.hist] ELSE snap
    /\ UNCHANGED <<play, ended, sql, stats, calls, overtaken, hbounds>>

-----------------------------------------------------------------------------
(* The requests *)

Becomes(c, d) == calls' = (calls \ {c}) \cup {d}

\* SetTapHistoryPeriod: history and setting under the storage lock...
PeriodQueries(c) ==
    /\ c.kind = "set" /\ c.st = "sent"
    /\ Becomes(c, [c EXCEPT !.st = "read", !.hist = History(c.days), !.saved = ~play])
    /\ sql' = IF play THEN sql ELSE [sql EXCEPT !.days = c.days]
    /\ UNCHANGED <<play, ended, snap, work, stats, overtaken, hbounds>>

\* ...then the state
PeriodApplies(c) ==
    /\ c.kind = "set" /\ c.st = "read"
    /\ snap' = [days |-> c.days, hist |-> c.hist, unsaved |-> ~c.saved]
    /\ Becomes(c, [c EXCEPT !.st = "ok", !.got = [days |-> c.days, hist |-> c.hist]])
    /\ UNCHANGED <<play, ended, sql, work, stats, overtaken, hbounds>>

GetTapStats(c) ==
    /\ c.kind = "poll" /\ c.st = "sent"
    /\ Becomes(c, [c EXCEPT !.st = "ok", !.got = [days |-> snap.days, hist |-> snap.hist]])
    /\ UNCHANGED <<play, ended, sql, snap, work, stats, overtaken, hbounds>>

-----------------------------------------------------------------------------
(* The Stats page *)

Call(kind, days) == [kind |-> kind, days |-> days, st |-> "sent",
                     hist |-> None, saved |-> FALSE, got |-> None]

\* poll: unless one is on its way or a failing daemon is left alone
PollStats ==
    /\ ~stats.flying /\ ~stats.retry
    /\ stats' = [stats EXCEPT !.flying = TRUE] /\ calls' = calls \cup {Call("poll", None)}
    /\ UNCHANGED <<play, ended, sql, snap, work, overtaken, hbounds>>

\* The wait is over, or the page was opened again
BackoffOver ==
    /\ stats.retry /\ stats' = [stats EXCEPT !.retry = FALSE]
    /\ UNCHANGED <<play, ended, sql, snap, work, calls, overtaken, hbounds>>

SetPeriod(days) ==
    /\ stats.pending = None /\ stats.snap # None /\ days # stats.snap.days
    /\ TakesOne("sets")
    /\ stats' = [stats EXCEPT !.pending = days] /\ calls' = calls \cup {Call("set", days)}
    /\ UNCHANGED <<play, ended, sql, snap, work, overtaken>>

\* received: an answer from meanwhile may carry the old period, and is dropped
Received(c, fails) ==
    /\ c.kind = "poll" /\ c.st = "ok" /\ calls' = calls \ {c} /\ May("errors", fails)
    /\ stats' = [stats EXCEPT !.flying = FALSE, !.retry = fails,
                              !.snap = IF fails \/ stats.pending # None THEN @ ELSE c.got]
    /\ UNCHANGED <<play, ended, sql, snap, work, overtaken>>

StaysPending(fails) == IF fails THEN stats.pending ELSE None
StillPending(fails) == None

\* period_set
PeriodSet(c, fails) ==
    /\ c.kind = "set" /\ c.st = "ok" /\ calls' = calls \ {c} /\ May("errors", fails)
    /\ stats' = [stats EXCEPT !.pending = StillPending(fails),
                              !.snap = IF fails THEN @ ELSE c.got]
    /\ UNCHANGED <<play, ended, sql, snap, work, overtaken>>

-----------------------------------------------------------------------------

\* The event loop's action goes on
WorkStep ==
    \/ RefreshReads \/ RefreshQueries \/ RefreshPublishes
    \/ \E fails \in BOOLEAN : SaveTapStats(fails)

HistoryNext ==
    \/ Plays \/ HistoryTick \/ WorkStep
    \/ PollStats \/ BackoffOver
    \/ \E days \in Days : SetPeriod(days)
    \/ \E c \in calls : \/ PeriodQueries(c) \/ PeriodApplies(c) \/ GetTapStats(c)
                        \/ \E fails \in BOOLEAN : Received(c, fails) \/ PeriodSet(c, fails)

\* A map ends, the event loop runs, requests are answered, the page polls.
HistoryFairness ==
    /\ WF_hvars(Plays /\ play) /\ SF_hvars(HistoryTick)
    /\ WF_hvars(WorkStep)
    /\ WF_hvars(PollStats) /\ WF_hvars(BackoffOver)
    /\ WF_hvars(\E c \in calls : PeriodQueries(c) \/ PeriodApplies(c))
    /\ WF_hvars(\E c \in calls : GetTapStats(c))
    /\ WF_hvars(\E c \in calls, fails \in BOOLEAN : Received(c, fails))
    /\ WF_hvars(\E c \in calls, fails \in BOOLEAN : PeriodSet(c, fails))

HistorySpec == HistoryInit /\ [][HistoryNext]_hvars /\ HistoryFairness

-----------------------------------------------------------------------------
(* Properties *)

HistoryTypeOK ==
    /\ sql \in [n : Nat, days : Days] /\ snap.days \in Days /\ ended \in Nat
    /\ work # None => work.st \in {"save", "refresh", "query", "publish"}

\* The history the daemon holds is one of the period it says, though a refresh
\* and a period change read and write it under different locks.
HistoryIsOfThePeriod == snap.hist.days = snap.days

\* Left alone, the page shows what the daemon holds, the daemon holds every
\* attempt saved, none is left unsaved, and the period chosen is the one stored,
\* unless a save queued before the choice wrote the older one over it.
StatsAgree ==
    /\ stats.snap = [days |-> snap.days, hist |-> History(snap.days)]
    /\ ended = 0 /\ stats.pending = None
    /\ sql.days = snap.days \/ overtaken
===============================================================================
