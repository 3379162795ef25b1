------------------------------- MODULE TapPlay --------------------------------
(***************************************************************************)
(* Whose presses an attempt counts.  Three streams meet in the daemon, in  *)
(* any order: tosu's state frames (when an attempt starts, fails, is       *)
(* rewound or ends, and who plays), tosu's key counters (which restart     *)
(* with every play and also run in a replay), and the pad's timed presses  *)
(* (which may be late).                                                    *)
(*                                                                         *)
(* Abstractions.  A frame shows the game as it is when it is read.  K1 and *)
(* K2 are one count.  A pad press is timed by how many attempts the daemon *)
(* had started, which is all the origin filter tells apart: the epoch the  *)
(* daemon infers is taken to be exact.  Some interval of an attempt is     *)
(* valid.  Saving the attempts is DaemonRuntime's, their rates TapRate's.  *)
(***************************************************************************)
EXTENDS Integers, Sequences, FiniteSets

CONSTANTS
    None,
    TosuOnly,     \* TOSU_ONLY_PRESSES: tosu counts these and the pad none
    MinPresses,   \* MIN_RECORDED_PRESSES
    TapBudgets    \* bounds: plays, presses, drops of tosu or of the pad

TapConstants == TosuOnly \in Nat \ {0} /\ MinPresses \in Nat

VARIABLES
    game,       \* osu!: is a play on, whose, tosu's fail flag, its key counter
    linked,     \* tosu_connected
    timed,      \* pad_times_presses: a pad of ours that times its presses
    wire,       \* pad presses not delivered, each with the attempt it fell in
    playing,    \* RuntimeMode::Playing
    no,         \* play_id
    rewound,    \* the song position went back since the last frame
    lastFailed, \* last_failed
    lastKeys,   \* last_keys
    attempt,    \* tap_attempt: AttemptTracker
    source,     \* press_source
    pending,    \* tosu_pending
    ended,      \* attempts that went to tap_unsaved
    armed,      \* results_armed
    onResults,  \* on_results_screen
    since,      \* history: the player's presses since this play began
    earned,     \* history: own plays that ended without a fail, less animations
    tbounds

host    == <<playing, no, lastFailed, lastKeys, attempt, source, pending, ended,
             armed, onResults>>
tvars   == <<game, linked, timed, wire, rewound, since, earned, tbounds, host>>

Players == {"me", "own replay", "other"}

CountTap(what) == tbounds[what] > 0 /\ tbounds' = [tbounds EXCEPT ![what] = @ - 1]

TapInit ==
    /\ game = [on |-> FALSE, who |-> "me", failed |-> "no", keys |-> 0, results |-> FALSE]
    /\ linked = TRUE /\ timed \in BOOLEAN /\ wire = <<>>
    /\ playing = FALSE /\ no = 0 /\ rewound = FALSE /\ lastFailed = FALSE
    /\ lastKeys = None /\ attempt = None /\ source = "undecided" /\ pending = 0
    /\ ended = {} /\ armed = FALSE /\ onResults = FALSE
    /\ since = 0 /\ earned = 0 /\ tbounds \in TapBudgets

-----------------------------------------------------------------------------
(* The attempt *)

\* AttemptTracker: own is a history variable, what the player pressed in it;
\* blind, that no pad could have told a replay from a play
NewAttempt == [n |-> 0, replay |-> FALSE, who |-> game.who, own |-> since, blind |-> FALSE]

Recordable(a) == ~a.replay /\ a.n >= MinPresses

\* finish_tap_attempt
Finished(a) == IF a # None /\ Recordable(a) THEN ended \cup {a} ELSE ended

FinishAttempt ==
    /\ ended' = Finished(attempt)
    /\ attempt' = None
    /\ UNCHANGED <<source, pending>>

Keep == UNCHANGED <<ended, attempt, source, pending>>

\* watch_replay: shown from tosu, what was held back included
Watched(a, held) ==
    IF a.replay THEN a
    ELSE [a EXCEPT !.replay = TRUE, !.n = IF source = "tosu" THEN @ ELSE @ + held]

-----------------------------------------------------------------------------
(* osu! and the player *)

\* Song select takes longer than a state frame
PlayStart(who) ==
    /\ ~game.on /\ ~playing
    /\ CountTap("plays")
    /\ game' = [game EXCEPT !.on = TRUE, !.who = who, !.keys = 0, !.results = FALSE,
                            !.failed = IF @ = "yes" THEN "stale" ELSE @]
    /\ since' = 0
    /\ UNCHANGED <<linked, timed, wire, rewound, earned, host>>

\* A retry in the first two seconds does not rewind enough to be seen
Retry(seen) ==
    /\ game.on
    /\ CountTap("plays")
    /\ game' = [game EXCEPT !.keys = 0, !.failed = IF @ = "yes" THEN "stale" ELSE @]
    /\ rewound' = (rewound \/ seen)
    /\ since' = 0
    /\ UNCHANGED <<linked, timed, wire, earned, host>>

Fail ==
    /\ game.on /\ game.failed # "yes"
    /\ game' = [game EXCEPT !.failed = "yes"]
    /\ UNCHANGED <<linked, timed, wire, rewound, since, earned, tbounds, host>>

FailFlagDrops ==
    /\ game.failed = "stale"
    /\ game' = [game EXCEPT !.failed = "no"]
    /\ UNCHANGED <<linked, timed, wire, rewound, since, earned, tbounds, host>>

PlayEnds ==
    /\ game.on
    /\ game' = [game EXCEPT !.on = FALSE, !.results = game.failed # "yes"]
    /\ UNCHANGED <<linked, timed, wire, rewound, since, earned, tbounds, host>>

\* The results screen is left, or another score is looked at
ResultsScreen ==
    /\ ~game.on /\ ~playing
    /\ CountTap("drops")
    /\ game' = [game EXCEPT !.results = ~@]
    /\ UNCHANGED <<linked, timed, wire, rewound, since, earned, host>>

\* The player presses a key of the pad
Tap ==
    /\ CountTap("presses")
    /\ since' = since + 1
    /\ attempt' = IF attempt = None THEN None ELSE [attempt EXCEPT !.own = @ + 1]
    /\ game' = IF game.on /\ game.who = "me" THEN [game EXCEPT !.keys = @ + 1] ELSE game
    /\ wire' = IF timed THEN Append(wire, no) ELSE wire
    /\ UNCHANGED <<linked, timed, rewound, earned, playing, no, lastFailed, lastKeys,
                   source, pending, ended, armed, onResults>>

ReplayTap ==
    /\ game.on /\ game.who # "me"
    /\ CountTap("presses")
    /\ game' = [game EXCEPT !.keys = @ + 1]
    /\ UNCHANGED <<linked, timed, wire, rewound, since, earned, host>>

-----------------------------------------------------------------------------
(* The daemon *)

\* parse_tosu_v2_json, as far as a play is concerned: failed unless NoFail, and
\* another player's when the names differ or the game presses the keys itself
Frame == [failed |-> game.failed # "no", other |-> game.who = "other", results |-> game.results]

\* Whether the state frame starts an attempt
Begins == ~playing \/ rewound

\* TosuTelemetry, in a play
PlayFrame ==
    /\ linked /\ game.on
    /\ LET up == Frame.failed
           fails == up /\ ~lastFailed
           a == IF Begins THEN NewAttempt ELSE attempt
           held == IF Begins THEN 0 ELSE pending
           marks == Frame.other /\ a # None /\ ~(fails /\ ~Begins)
       IN  /\ lastFailed' = IF Begins THEN up ELSE lastFailed \/ fails
           /\ IF ~Begins /\ fails THEN FinishAttempt
              ELSE /\ ended' = IF Begins THEN Finished(attempt) ELSE ended
                   /\ attempt' = IF marks THEN Watched(a, held) ELSE a
                   /\ source' = IF marks THEN "tosu"
                                ELSE IF Begins THEN "undecided" ELSE source
                   /\ pending' = IF marks THEN 0 ELSE held
           /\ armed' = (~Frame.other /\ ~up)
    /\ no' = IF Begins THEN no + 1 ELSE no
    /\ playing' = TRUE /\ rewound' = FALSE /\ onResults' = FALSE
    /\ earned' = IF playing THEN earned ELSE earned + 1
    /\ UNCHANGED <<game, linked, timed, wire, lastKeys, since, tbounds>>

\* results_animation on a frame outside a play: once per visit, when armed
Celebrates == Frame.results /\ ~onResults /\ armed

\* Mutant: an armed play stays armed when the results screen is left
StaysArmed == armed

Disarmed == FALSE

\* TosuTelemetry, outside a play
MenuFrame ==
    /\ linked /\ ~game.on
    /\ IF playing THEN FinishAttempt ELSE Keep
    /\ playing' = FALSE /\ rewound' = FALSE
    /\ armed' = IF Frame.results /\ onResults THEN armed ELSE Disarmed
    /\ onResults' = Frame.results
    /\ earned' = IF Celebrates THEN earned - 1 ELSE earned
    /\ UNCHANGED <<game, linked, timed, wire, no, lastFailed, lastKeys, since, tbounds>>

\* A counter that went down started again from zero
Delta(new, old) == IF new >= old THEN new - old ELSE new

\* tosu_presses
TosuCounted(d) ==
    IF source = "pad" THEN Keep
    ELSE IF source = "tosu" THEN
        /\ attempt' = [attempt EXCEPT !.n = @ + d]
        /\ UNCHANGED <<ended, source, pending>>
    ELSE IF ~timed THEN
        /\ attempt' = [attempt EXCEPT !.n = @ + d, !.blind = TRUE]
        /\ source' = "tosu"
        /\ UNCHANGED <<ended, pending>>
    ELSE IF pending + d < TosuOnly THEN
        /\ pending' = pending + d
        /\ UNCHANGED <<ended, attempt, source>>
    ELSE /\ attempt' = [attempt EXCEPT !.n = @ + pending + d, !.replay = TRUE]
         /\ source' = "tosu" /\ pending' = 0
         /\ UNCHANGED ended

TosuKeys ==
    /\ linked /\ lastKeys # game.keys
    /\ lastKeys' = game.keys
    /\ IF playing /\ attempt # None /\ lastKeys # None
          THEN LET d == Delta(game.keys, lastKeys)
               IN  IF d > 0 THEN TosuCounted(d) ELSE Keep
          ELSE Keep
    /\ UNCHANGED <<game, linked, timed, wire, rewound, since, earned, tbounds, playing, no,
                   lastFailed, armed, onResults>>

\* Mutant: whatever the pad sends while an attempt is played is its own
OfThisLate(presses) == DOMAIN presses

\* Presses timed before the attempt's origin are not its own
OfThis(presses) == {i \in DOMAIN presses : presses[i] = no}

\* pad_presses: the first that counts makes the pad the source
PadPresses ==
    /\ wire # <<>>
    /\ wire' = <<>>
    /\ LET fed == Cardinality(OfThis(wire))
       IN  IF playing /\ source # "tosu" /\ attempt # None /\ fed > 0
              THEN /\ attempt' = [attempt EXCEPT !.n = @ + fed]
                   /\ source' = "pad" /\ pending' = 0
                   /\ UNCHANGED ended
              ELSE Keep
    /\ UNCHANGED <<game, linked, timed, rewound, since, earned, tbounds, playing, no, lastFailed,
                   lastKeys, armed, onResults>>

\* PadPressTimes, and the pad's comings and goings: what it had not sent is lost
PadChanges ==
    /\ CountTap("drops")
    /\ timed' = ~timed /\ wire' = <<>>
    /\ UNCHANGED <<game, linked, rewound, since, earned, host>>

\* TosuConnectionChanged
TosuDrops ==
    /\ linked
    /\ CountTap("drops")
    /\ linked' = FALSE /\ playing' = FALSE /\ lastKeys' = None /\ rewound' = FALSE
    /\ FinishAttempt
    /\ UNCHANGED <<game, timed, wire, since, earned, no, lastFailed, armed, onResults>>

TosuReturns ==
    /\ ~linked
    /\ linked' = TRUE
    /\ UNCHANGED <<game, timed, wire, rewound, since, earned, tbounds, host>>

TapNext ==
    \/ \E who \in Players : PlayStart(who)
    \/ \E seen \in BOOLEAN : Retry(seen)
    \/ Fail \/ FailFlagDrops \/ PlayEnds \/ ResultsScreen
    \/ Tap \/ ReplayTap
    \/ PlayFrame \/ MenuFrame \/ TosuKeys \/ PadPresses
    \/ PadChanges \/ TosuDrops \/ TosuReturns

TapSpec == TapInit /\ [][TapNext]_tvars

-----------------------------------------------------------------------------
(* Properties *)

Attempts == [n : Nat, replay : BOOLEAN, who : Players, own : Nat, blind : BOOLEAN]

\* Every variable stays in its range.
TapTypeOK ==
    /\ attempt \in Attempts \cup {None} /\ ended \subseteq Attempts
    /\ source \in {"undecided", "pad", "tosu"} /\ pending \in 0 .. TosuOnly - 1
    /\ lastKeys \in Nat \cup {None} /\ game.who \in Players

\* What goes to the history was pressed by the player in that attempt: no press
\* is counted twice, none of the attempt before or of a replay is counted, in
\* whatever order the pad's late presses, tosu's counts and its state frames
\* come.  A replay of another player never goes there; one's own is told from a
\* play only by a pad that times its presses.
HistoryIsYours ==
    \A a \in ended : a.who # "other" /\ (a.blind \/ a.n <= a.own)

\* One animation at most for each play, however often results are looked at.
AnimationPerPlay == earned >= 0
===============================================================================
