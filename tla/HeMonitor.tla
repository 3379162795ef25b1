------------------------------ MODULE HeMonitor ------------------------------
(***************************************************************************)
(* The Diagnostics page's monitor of a pad with the debug firmware: the    *)
(* daemon appends the pad's he.* lines to a file it rotates, and a thread  *)
(* of the page follows that file from its end and judges every press by    *)
(* the pad's own clock.                                                    *)
(*                                                                         *)
(* Abstractions.  A line is what its fields say, and lengths and places in *)
(* a file count lines.  Of the readings before a press only stays whether  *)
(* they show a jump from a flat line.  The beeps and the wall-clock time   *)
(* are left out: an event names the edge it is about.  The event log keeps *)
(* what it is given; its oldest of 25 are not dropped.                     *)
(***************************************************************************)
EXTENDS Naturals, Sequences, FiniteSets

CONSTANTS
    None,
    MaxLines,            \* lines until the file is moved aside
    ShortMs, RepressMs,  \* SHORT_MS, REPRESS_MS
    Wrap,                \* the pad's clock, 2^32 ms
    MonitorBudgets       \* edges, ticks, losses, breaks; the keys and mx

VARIABLES
    ms,        \* the pad's clock
    pressed,   \* its keys
    strokes,   \* history: the edges of the keys, [key, down, ms, jump]
    files,     \* the log's files, the last the current one
    there,     \* the current one has its name; FALSE between rename and open
    written,   \* HeDebugLog: what it has written of the current file
    followed,  \* stream: the file the reader has, 0 for None
    pos, len,  \* stream: how far it read, and <<the length it looked up or read past>>
    judge,     \* Judge: last_down, last_up, pending
    news,      \* events on their way to the window
    he,        \* DiagnosticsState: counts, keys_off and the event log
    cleared,   \* history: events of the log before resets
    seen,      \* history: the file of each line the thread judged, and the line
    start,     \* history: the file and the line it started after
    hbounds

hevars == <<ms, pressed, strokes, files, there, written, followed, pos, len, judge, news, he,
            cleared, seen, start, hbounds>>

Keys2 == {1, 2}

\* The pad's clock repeats after 49 days; a run is shorter
MonitorConstants ==
    /\ MaxLines \in Nat \ {0} /\ ShortMs \in Nat /\ RepressMs \in Nat /\ Wrap \in Nat \ {0}
    /\ None \notin Nat
    /\ \A b \in MonitorBudgets :
          /\ b \in [edges : Nat, ticks : Nat, losses : Nat, breaks : Nat, keys : SUBSET Keys2, mx : BOOLEAN]
          /\ b.ticks < Wrap

NewJudge == [down |-> [k \in Keys2 |-> None], up |-> [k \in Keys2 |-> None], pending |-> None]
NoCounts == [presses |-> 0, phantom |-> 0, short |-> 0, repress |-> 0,
             missed |-> 0, late |-> 0, stuck |-> 0]
NoFindings == [counts |-> [k \in Keys2 |-> NoCounts], off |-> 0, log |-> <<>>]

MonitorInit ==
    /\ ms \in {0, Wrap - 1} /\ pressed = [k \in Keys2 |-> FALSE] /\ strokes = <<>>
    /\ files = << <<>> >> /\ there = TRUE /\ written = 0
    /\ followed = 0 /\ pos = 0 /\ len = <<>> /\ judge = NewJudge
    /\ news = <<>> /\ he = NoFindings /\ cleared = {} /\ seen = {} /\ start = <<>>
    /\ hbounds \in MonitorBudgets

Takes(what) == hbounds[what] > 0 /\ hbounds' = [hbounds EXCEPT ![what] = @ - 1]

-----------------------------------------------------------------------------
(* The pad and the daemon's HeDebugLog *)

Now(tag, k, v) == [tag |-> tag, key |-> k, ms |-> ms, of |-> Len(strokes) + 1, v |-> v]

\* The HE log has an edge, and before a press its readings; the MX log a tap
LinesOf(k, jump) ==
    IF hbounds.mx
    THEN IF pressed[k] THEN <<Now("tap", k, TRUE)>> ELSE <<>>
    ELSE IF pressed[k] THEN <<Now("up", k, TRUE)>> ELSE <<Now("down", k, TRUE), Now("pre", k, jump)>>

\* Files fill over many polls: a reader has read some of one that is full, and
\* a new one does not grow in one poll to where the reader was in the old one
Full == written >= MaxLines
Current == files[Len(files)]
Polled(lines) ==
    /\ Full => followed = 0 \/ pos > 0
    /\ followed \notin {0, Len(files)} => Len(Current) + Len(lines) < pos

\* HeDebugLog::write: past the limit the file is moved aside first
Written(lines) ==
    /\ there /\ Polled(lines)
    /\ IF Full
       THEN files' = Append(files, lines) /\ written' = Len(lines)
       ELSE files' = [files EXCEPT ![Len(files)] = @ \o lines] /\ written' = written + Len(lines)

\* A line of the pad may be lost on its way
Edge(k, jump, lost) ==
    /\ Len(strokes) < hbounds.edges /\ k \in hbounds.keys
    /\ jump => ~pressed[k]
    /\ pressed' = [pressed EXCEPT ![k] = ~@]
    /\ strokes' = Append(strokes, [key |-> k, down |-> ~pressed[k], ms |-> ms, jump |-> jump])
    /\ IF lost
       THEN Takes("losses") /\ UNCHANGED <<files, written>>
       ELSE Written(LinesOf(k, jump)) /\ UNCHANGED hbounds
    /\ UNCHANGED <<ms, there, followed, pos, len, judge, news, he, cleared, seen, start>>

\* mx_debug tells of a press missed, late or stuck, and of keys turned off
MxReports(tag, k) ==
    /\ hbounds.mx /\ k \in hbounds.keys /\ Takes("losses") /\ Written(<<Now(tag, k, TRUE)>>)
    /\ UNCHANGED <<ms, pressed, strokes, there, followed, pos, len, judge, news, he, cleared, seen, start>>

TimePasses ==
    /\ Takes("ticks") /\ ms' = IF ms + 1 = Wrap THEN 0 ELSE ms + 1
    /\ UNCHANGED <<pressed, strokes, files, there, written, followed, pos, len, judge, news, he,
                   cleared, seen, start>>

\* Between the rename and the next open there is no file of that name
MovesAside ==
    /\ there /\ Full /\ Polled(<<>>) /\ Takes("breaks") /\ there' = FALSE
    /\ UNCHANGED <<ms, pressed, strokes, files, written, followed, pos, len, judge, news, he,
                   cleared, seen, start>>

Creates ==
    /\ ~there /\ there' = TRUE /\ files' = Append(files, <<>>) /\ written' = 0
    /\ UNCHANGED <<ms, pressed, strokes, followed, pos, len, judge, news, he, cleared, seen, start, hbounds>>

-----------------------------------------------------------------------------
(* Judge::line *)

Found(kind, line) == <<[kind |-> kind, key |-> line.key, of |-> line.of]>>
If(condition, events) == IF condition THEN events ELSE <<>>

\* wrapping_sub
Elapsed(now, then) == IF now >= then THEN now - then ELSE now + Wrap - then
Within(now, then, limit) == then # None /\ Elapsed(now, then) < limit

Held(line) == Elapsed(line.ms, strokes[CHOOSE i \in 1..(line.of - 1) :
                  /\ strokes[i].key = line.key /\ strokes[i].down
                  /\ \A j \in (i + 1)..(line.of - 1) : strokes[j].key # line.key].ms)

Events(j, line) ==
    CASE line.tag = "down" ->
            Found("presses", line) \o If(Within(line.ms, j.up[line.key], RepressMs), Found("repress", line))
      [] line.tag = "up" ->
            If(Within(line.ms, j.down[line.key], ShortMs), Found("short", line))
      [] line.tag = "pre" ->
            If(j.pending = line.key /\ line.v, Found("phantom", line))
      [] line.tag = "tap" ->
            Found("presses", line) \o If(Held(line) < ShortMs, Found("short", line))
      [] OTHER -> Found(line.tag, line)

Judged(j, line) ==
    CASE line.tag = "down" -> [j EXCEPT !.down[line.key] = line.ms, !.pending = line.key]
      [] line.tag = "up"   -> [j EXCEPT !.up[line.key] = line.ms]
      [] line.tag = "pre"  -> [j EXCEPT !.pending = None]
      [] OTHER -> j

-----------------------------------------------------------------------------
(* stream *)

Looks ==
    /\ len = <<>>
    /\ len' = <<IF there THEN Len(Current) ELSE None>>
    /\ UNCHANGED <<ms, pressed, strokes, files, there, written, followed, pos, judge, news, he,
                   cleared, seen, start, hbounds>>

Gone ==
    /\ len = <<None>>
    /\ followed' = 0 /\ len' = <<>>
    /\ UNCHANGED <<ms, pressed, strokes, files, there, written, pos, judge, news, he, cleared,
                   seen, start, hbounds>>

\* Mutant: the end of the new file, too
OpenAtEnd == len[1]

\* First the end of the file; after a rotation its start
OpenAt == IF pos = 0 THEN len[1] ELSE 0

\* A new Judge: the edges before are of lines this reader never saw
Reopens ==
    /\ len \notin {<<>>, <<None>>} /\ followed = 0
    /\ IF there
       THEN /\ followed' = Len(files) /\ pos' = OpenAt /\ judge' = NewJudge
            /\ start' = IF start = <<>> THEN <<Len(files), OpenAt>> ELSE start
       ELSE UNCHANGED <<followed, pos, judge, start>>
    /\ len' = <<>>
    /\ UNCHANGED <<ms, pressed, strokes, files, there, written, news, he, cleared, seen, hbounds>>

\* 1: reopen from the start.  What it had not read of the old file it never does.
Shrank ==
    /\ len \notin {<<>>, <<None>>} /\ followed # 0 /\ len[1] < pos
    /\ followed' = 0 /\ pos' = 1 /\ len' = <<>>
    /\ UNCHANGED <<ms, pressed, strokes, files, there, written, judge, news, he, cleared, seen,
                   start, hbounds>>

\* read_line: a line, and what the judge says of it
ReadsOn ==
    /\ len \notin {<<>>, <<None>>} /\ followed # 0 /\ len[1] >= pos
    /\ pos < Len(files[followed])
    /\ LET line == files[followed][pos + 1]
       IN  /\ judge' = Judged(judge, line)
           /\ news' = news \o Events(judge, line)
           /\ seen' = seen \cup {<<followed, line>>}
    /\ pos' = pos + 1 /\ len' = <<pos + 1>>
    /\ UNCHANGED <<ms, pressed, strokes, files, there, written, followed, he, cleared, start, hbounds>>

\* No more lines: it sleeps, and looks again
ReachesEnd ==
    /\ len \notin {<<>>, <<None>>} /\ followed # 0 /\ len[1] >= pos
    /\ pos >= Len(files[followed])
    /\ len' = <<>>
    /\ UNCHANGED <<ms, pressed, strokes, files, there, written, followed, pos, judge, news, he, cleared,
                   seen, start, hbounds>>

-----------------------------------------------------------------------------
(* The window *)

\* handle_he_event
HandleHeEvent ==
    /\ news # <<>> /\ news' = Tail(news)
    /\ LET e == Head(news)
       IN  he' = CASE e.kind = "off" -> [he EXCEPT !.off = @ + 1, !.log = Append(@, e)]
                   [] e.kind = "presses" -> [he EXCEPT !.counts[e.key].presses = @ + 1]
                   [] OTHER -> [he EXCEPT !.counts[e.key][e.kind] = @ + 1, !.log = Append(@, e)]
    /\ UNCHANGED <<ms, pressed, strokes, files, there, written, followed, pos, len, judge, cleared,
                   seen, start, hbounds>>

Members(s) == {s[i] : i \in DOMAIN s}

\* reset_input_tester
ResetsFindings ==
    /\ Takes("breaks") /\ he' = NoFindings /\ cleared' = cleared \cup Members(he.log)
    /\ UNCHANGED <<ms, pressed, strokes, files, there, written, followed, pos, len, judge, news, seen,
                   start>>

\* The page is left and shown again: a new thread, a new channel
PageReturns ==
    /\ Takes("breaks")
    /\ followed' = 0 /\ pos' = 0 /\ len' = <<>> /\ judge' = NewJudge /\ news' = <<>>
    /\ seen' = {} /\ start' = <<>>
    /\ UNCHANGED <<ms, pressed, strokes, files, there, written, he, cleared>>

MonitorNext ==
    \/ \E k \in Keys2, jump, lost \in BOOLEAN : Edge(k, jump, lost)
    \/ \E k \in Keys2, tag \in {"missed", "late", "stuck", "off"} : MxReports(tag, k)
    \/ TimePasses \/ MovesAside \/ Creates
    \/ Looks \/ Gone \/ Reopens \/ Shrank \/ ReadsOn \/ ReachesEnd
    \/ HandleHeEvent \/ ResetsFindings \/ PageReturns

Follows == Looks \/ Gone \/ Reopens \/ Shrank \/ ReadsOn \/ ReachesEnd

\* The thread polls, the window handles events, and a file moved aside is replaced
MonitorFairness == WF_hevars(Follows) /\ WF_hevars(HandleHeEvent) /\ WF_hevars(Creates)

MonitorSpec == MonitorInit /\ [][MonitorNext]_hevars /\ MonitorFairness

-----------------------------------------------------------------------------
(* Properties *)

\* What is followed is a file; every event names an edge of the pad.
MonitorTypeOK ==
    /\ followed \in 0..Len(files) /\ written \in 0..(MaxLines + 1)
    /\ judge.pending \in Keys2 \cup {None}
    /\ \A i \in DOMAIN news : news[i].of \in 1..(Len(strokes) + 1)

Findings == {e \in cleared \cup Members(he.log) \cup Members(news) :
                e.kind \in {"short", "repress", "phantom"}}

\* The edge of that key before the n-th stroke
Before(n) ==
    {i \in 1..(n - 1) : strokes[i].key = strokes[n].key /\
        \A j \in (i + 1)..(n - 1) : strokes[j].key # strokes[n].key}
AgoLess(n, limit) == \E i \in Before(n) : Elapsed(strokes[n].ms, strokes[i].ms) < limit
Deserves(kind, n) ==
    CASE kind = "short"   -> ~strokes[n].down /\ AgoLess(n, ShortMs)
      [] kind = "repress" -> strokes[n].down /\ AgoLess(n, RepressMs)
      [] kind = "phantom" -> strokes[n].down /\ strokes[n].jump

Times(s, e) == Cardinality({i \in DOMAIN s : s[i] = e})

TrueAndOnce ==
    \A e \in Findings :
        /\ Deserves(e.kind, e.of)
        /\ Times(he.log, e) + Times(news, e) + (IF e \in cleared THEN 1 ELSE 0) = 1

\* The line that shows a finding, and the edges it is judged by
ShownBy(kind) == CASE kind = "short" -> "up" [] kind = "repress" -> "down" [] kind = "phantom" -> "pre"
JudgedBy(kind, n) == IF kind = "phantom" THEN {n} ELSE Before(n)
FoundOut ==
    \A s, r \in seen, kind \in {"short", "repress", "phantom"} :
        /\ s[1] = r[1] /\ r[2].tag \in {"up", "down"}
        /\ s[2].tag = ShownBy(kind) /\ r[2].of \in JudgedBy(kind, s[2].of)
        /\ Deserves(kind, s[2].of)
        => [kind |-> kind, key |-> s[2].key, of |-> s[2].of] \in Findings

FullyRead == followed = Len(files) /\ pos = Len(Current)
ReadWhole ==
    FullyRead =>
        \A i \in DOMAIN Current :
            i > (IF start[1] = followed THEN start[2] ELSE 0) => <<followed, Current[i]>> \in seen

\* Whatever lines were lost or skipped at a rotation, a finding is true of the
\* edge it names, and no edge is charged twice.  Every edge judged with the one
\* it goes by is found out.  At the end of the file every line of it has been
\* judged that was written after the page opened, a file after a rotation whole.
FindingsAreTrue == TrueAndOnce /\ FoundOut /\ ReadWhole

\* The thread is at the end of the file that has the name.
AtTheEnd == FullyRead /\ news = <<>>
===============================================================================
