------------------------------- MODULE TapRate --------------------------------
(***************************************************************************)
(* The rate of one channel (ChannelTracker): presses come in with their    *)
(* times, some of them late, while the clock moves on; what is kept is a   *)
(* window of intervals, the latest press times and running totals.  The    *)
(* reference works from the list of all press times.                       *)
(*                                                                         *)
(* A rate is a pair: n intervals over ms.  Times are small integers.       *)
(***************************************************************************)
EXTENDS Integers, SequencesExt, FiniteSetsExt

CONSTANTS
    None,
    Window,     \* WINDOW_INTERVALS
    Break,      \* SEQUENCE_BREAK_MS: a longer gap is no interval
    MinSpans,   \* COARSE_PEAK_MIN_SPAN_MS for tosu's times, 0 for the pad's
    Periods,    \* history periods, 0 for all time
    MaxTime,    \* bound: the clock
    MaxTaps     \* bound: presses

VARIABLES
    clock,
    minSpan,    \* min_peak_span_ms
    lastPress,  \* last_press_ms
    nowMs,      \* now_ms
    window,     \* the rolling window
    recent,     \* the sequence's latest press times
    peak,       \* peak_ppm
    valid,      \* valid_intervals
    sum,        \* interval_ms_sum
    started,    \* started_at
    rows,       \* tap_attempts: a row for each attempt worth keeping
    taps        \* history: the times of the attempt's presses

tracker == <<lastPress, nowMs, window, recent, peak, valid, sum>>
rvars   == <<clock, minSpan, tracker, started, rows, taps>>

RateInit ==
    /\ clock = 0 /\ minSpan \in MinSpans /\ started = 0 /\ rows = <<>>
    /\ lastPress = None /\ nowMs = 0 /\ window = <<>> /\ recent = <<>>
    /\ peak = None /\ valid = 0 /\ sum = 0 /\ taps = <<>>

Total(s) == FoldSeq(LAMBDA x, y : x + y, 0, s)

Faster(a, b) == IF b = None THEN TRUE ELSE a.n * b.ms > b.n * a.ms

\* window_interval_ms: none while all its presses landed at one instant
WindowRate(w) == IF Len(w) = Window /\ Total(w) > 0 THEN [n |-> Window, ms |-> Total(w)] ELSE None

\* spanned_ppm: a window, and as many presses more as span minSpan
SpannedRate(times) ==
    LET n == Len(times)
        firsts == {i \in 1 .. n - Window : times[n] - times[i] >= minSpan}
    IN  IF firsts = {} THEN None
        ELSE LET i == CHOOSE j \in firsts : \A k \in firsts : k <= j
             IN  [n |-> n - i, ms |-> times[n] - times[i]]

EndsSequence(gap) == gap > Break

\* Mutant: the window is not cleared when a sequence ends
WindowKept(w) == w

Cleared(w) == <<>>

\* Mutant: the window drops its oldest interval one press late
SlidLate(w, gap) == Append(IF Len(w) > Window THEN Tail(w) ELSE w, gap)

\* The window of the last intervals takes one more
Slid(w, gap) == Append(IF Len(w) = Window THEN Tail(w) ELSE w, gap)

Moved(at) == IF at > nowMs THEN at ELSE nowMs

\* ChannelTracker::press
Press(at) ==
    /\ taps' = Append(taps, at)
    /\ lastPress' = at /\ nowMs' = Moved(at)
    /\ LET gap == at - lastPress
           w == Slid(window, gap)
           r == Append(IF recent = <<>> THEN <<lastPress>> ELSE recent, at)
           rate == IF minSpan > 0 THEN SpannedRate(r) ELSE WindowRate(w)
       IN  IF lastPress = None THEN UNCHANGED <<window, recent, peak, valid, sum>>
           ELSE IF EndsSequence(gap) THEN
               /\ window' = Cleared(window) /\ recent' = <<at>>
               /\ UNCHANGED <<peak, valid, sum>>
           ELSE /\ window' = w /\ recent' = r
                /\ valid' = valid + 1 /\ sum' = sum + gap
                /\ peak' = IF rate # None /\ Faster(rate, peak) THEN rate ELSE peak
    /\ UNCHANGED <<clock, minSpan, started, rows>>

\* A press is delivered at once or late, in order
Delivered ==
    /\ Len(taps) + FoldSeq(LAMBDA r, n : n + Len(r.taps), 0, rows) < MaxTaps
    /\ \E at \in (IF lastPress = None THEN started ELSE lastPress) .. clock : Press(at)

\* ChannelTracker::advance, on every tick of the daemon
Advance ==
    /\ clock < MaxTime
    /\ clock' = clock + 1 /\ nowMs' = Moved(clock + 1)
    /\ IF lastPress # None /\ EndsSequence(nowMs' - lastPress)
          THEN window' = Cleared(window) /\ recent' = <<>>
          ELSE UNCHANGED <<window, recent>>
    /\ UNCHANGED <<minSpan, lastPress, peak, valid, sum, started, rows, taps>>

\* finish and save_tap_attempts; the next attempt starts with a new tracker
AttemptEnds ==
    /\ valid > 0
    /\ rows' = Append(rows, [at |-> started, valid |-> valid, sum |-> sum, peak |-> peak,
                            taps |-> taps])
    /\ started' = clock
    /\ lastPress' = None /\ nowMs' = clock /\ window' = <<>> /\ recent' = <<>>
    /\ peak' = None /\ valid' = 0 /\ sum' = 0 /\ taps' = <<>>
    /\ UNCHANGED <<clock, minSpan>>

RateNext == Delivered \/ Advance \/ AttemptEnds

\* The attempts of a period
InPeriod(period) ==
    SelectSeq(rows, LAMBDA r : period = 0 \/ r.at >= clock - period)

SumOver(period, Of(_)) == FoldSeq(LAMBDA r, n : n + Of(r), 0, InPeriod(period))

\* tap_history: weighted by tapping time, from the rows' totals alone
History(period) ==
    [n |-> SumOver(period, LAMBDA r : r.valid), ms |-> SumOver(period, LAMBDA r : r.sum)]

RateSpec == RateInit /\ [][RateNext]_rvars

\* The window never holds more than its intervals, nor counts what it broke off.
RateTypeOK ==
    /\ clock \in 0..MaxTime /\ minSpan \in MinSpans /\ started \in 0..clock
    /\ Len(window) <= Window /\ valid <= Len(taps) /\ Len(taps) <= MaxTaps
    /\ peak = None \/ (peak.n \in Nat /\ peak.ms \in Nat \ {0})

-----------------------------------------------------------------------------
(* Reference *)

GapsOf(times) == [i \in 2 .. Len(times) |-> times[i] - times[i - 1]]
ValidOf(times) == {i \in DOMAIN GapsOf(times) : GapsOf(times)[i] <= Break}
TotalOf(times) == FoldSet(LAMBDA i, n : n + GapsOf(times)[i], 0, ValidOf(times))

\* Runs of presses without a break between them
RunsOf(times) ==
    {r \in (1 .. Len(times)) \X (1 .. Len(times)) :
        r[2] - r[1] >= Window /\ r[1] + 1 .. r[2] \subseteq ValidOf(times)}

Tapped(rate, times) ==
    \E r \in RunsOf(times) :
        rate = [n |-> r[2] - r[1], ms |-> times[r[2]] - times[r[1]]] /\ rate.ms >= minSpan

\* The peak was tapped: some run of presses without a break, a window long and
\* spanning what coarse times need, has that rate, however late presses came
\* and whatever sequences the clock ended.
PeakWasTapped ==
    /\ peak # None => Tapped(peak, taps)
    /\ \A i \in DOMAIN rows : rows[i].peak # None => Tapped(rows[i].peak, rows[i].taps)

\* A period's average, rebuilt from the rows' totals, is that of all intervals
\* tapped in its attempts, breaks left out.
AverageIsExact ==
    \A period \in Periods :
        LET of == {i \in DOMAIN rows : period = 0 \/ rows[i].at >= clock - period}
        IN  /\ History(period).n = FoldSet(LAMBDA i, n : n + Cardinality(ValidOf(rows[i].taps)), 0, of)
            /\ History(period).ms = FoldSet(LAMBDA i, n : n + TotalOf(rows[i].taps), 0, of)

RatesHold == PeakWasTapped /\ AverageIsExact
===============================================================================
