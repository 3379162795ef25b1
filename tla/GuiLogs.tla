-------------------------------- MODULE GuiLogs --------------------------------
(***************************************************************************)
(* The daemon's log ring and the GUI's Logs page: a bounded ring of        *)
(* numbered entries, asked for from a cursor in capped answers that may    *)
(* come out of order, by a window that outlives daemons.                   *)
(*                                                                         *)
(* An entry is its number and the daemon's run it is of. Not modelled:     *)
(* filters, the 24 hours an entry is kept, the window's own entries.       *)
(***************************************************************************)
EXTENDS Naturals, FiniteSets, FiniteSetsExt

CONSTANTS
    None,
    RingMax,      \* LOG_HUB_CAPACITY
    Limit,        \* the most entries an answer carries
    LogBudgets    \* bounds: entries, restarts, polls under way

LogConstants ==
    /\ {RingMax, Limit} \subseteq Nat \ {0}
    /\ LogBudgets \subseteq [entries : Nat, restarts : Nat, polls : Nat]

VARIABLES
    hub,        \* LogHub: run, and the number of the next entry
    cursor,     \* latest_log_seq
    logs,       \* what the window has
    fetches,    \* polls under way and their answers
    lbounds,
    from,       \* history: where the newest answer without a cursor began
    restarted   \* history: the daemon restarted under this window

lvars == <<hub, cursor, logs, fetches, lbounds, from, restarted>>

TakesOne(what) == lbounds[what] > 0 /\ lbounds' = [lbounds EXCEPT ![what] = @ - 1]

LogsInit ==
    /\ hub = [run |-> 1, next |-> 1] /\ cursor = 0 /\ logs = {} /\ fetches = {}
    /\ lbounds \in LogBudgets /\ from = 1 /\ restarted = FALSE

Newest == hub.next - 1
Ring == {n \in 1 .. Newest : n + RingMax >= hub.next}

-----------------------------------------------------------------------------
(* The daemon *)

Logged ==
    /\ TakesOne("entries") /\ hub' = [hub EXCEPT !.next = @ + 1]
    /\ UNCHANGED <<cursor, logs, fetches, from, restarted>>

DaemonRestarts ==
    /\ TakesOne("restarts") /\ hub' = [run |-> hub.run + 1, next |-> 1]
    /\ restarted' = TRUE
    /\ fetches' = {f \in fetches : f.st = "ok"}
    /\ UNCHANGED <<cursor, logs, from>>

FirstOf(s) == {n \in s : Cardinality({k \in s : k < n}) < Limit}
LastOf(s)  == {n \in s : Cardinality({k \in s : k > n}) < Limit}

\* get_matching_entries: the first after the cursor, or the last of all
EntriesSince(since) ==
    IF since = None THEN LastOf(Ring) ELSE FirstOf({n \in Ring : n > since})

Serves(f) ==
    /\ f.st = "sent"
    /\ fetches' = (fetches \ {f}) \cup
           {[f EXCEPT !.st = "ok", !.run = hub.run, !.latest = Newest,
                      !.got = EntriesSince(f.since)]}
    /\ UNCHANGED <<hub, cursor, logs, lbounds, from, restarted>>

-----------------------------------------------------------------------------
(* The window *)

PollLogs ==
    /\ Cardinality(fetches) < lbounds.polls
    /\ fetches' = fetches \cup {[st |-> "sent", since |-> IF cursor > 0 THEN cursor ELSE None,
                                 run |-> 0, latest |-> 0, got |-> {}]}
    /\ UNCHANGED <<hub, cursor, logs, lbounds, from, restarted>>

CursorToLatest(f) == IF f.latest > 0 THEN f.latest ELSE cursor

\* next_log_cursor: to the last one received, never past the rest of a capped answer
NextCursor(f) ==
    IF f.got # {} THEN Max(f.got) ELSE IF f.latest > 0 THEN f.latest ELSE cursor

\* An entry with a number the window has is one it has
Received(f) ==
    /\ f.st = "ok" /\ fetches' = fetches \ {f}
    /\ cursor' = NextCursor(f)
    /\ logs' = logs \cup {[run |-> f.run, n |-> n] : n \in {k \in f.got : \A e \in logs : e.n # k}}
    /\ from' = IF f.since = None /\ f.got # {} THEN Max({from, Min(f.got)}) ELSE from
    /\ UNCHANGED <<hub, lbounds, restarted>>

LogsNext ==
    \/ Logged \/ DaemonRestarts \/ PollLogs
    \/ \E f \in fetches : Serves(f) \/ Received(f)

LogsFairness ==
    /\ WF_lvars(PollLogs)
    /\ WF_lvars(\E f \in fetches : Serves(f))
    /\ WF_lvars(\E f \in fetches : Received(f))

LogsSpec == LogsInit /\ [][LogsNext]_lvars /\ LogsFairness

-----------------------------------------------------------------------------
(* Properties *)

LogsTypeOK ==
    /\ cursor \in Nat /\ logs \subseteq [run : Nat, n : Nat]
    /\ Cardinality(fetches) <= lbounds.polls

\* Between where the window began and its cursor nothing is missing but what the
\* ring had dropped already, however capped, late or reordered the answers
\* were: the comment of next_log_cursor.
CursorSkipsNothing ==
    ~restarted => \A n \in from .. cursor : n \in Ring => [run |-> 1, n |-> n] \in logs

\* Once the daemon has no more to say the cursor stands at its last entry, also
\* when the daemon restarted and numbers from 1 again.
CursorIsNewest == Newest > 0 => cursor = Newest
===============================================================================
