------------------------------ MODULE BoardTest ------------------------------
(***************************************************************************)
(* The board test: the pad measures its key lines, the module's ID and the *)
(* spare lines (board_test.c), the desktop judges the report (evaluate).   *)
(* The hardware is a wiring: which module, which way round the cable is,   *)
(* one fault.  The module monitor turns the keys off and on again in the   *)
(* meantime; the line test does so too, for its own millisecond.           *)
(*                                                                         *)
(* Voltages are the nominal ones of the board's README, in millivolts.     *)
(***************************************************************************)
EXTENDS Naturals, FiniteSets

CONSTANTS None, BoardBudgets    \* records: tests, rewires

VARIABLES
    wiring,     \* what is soldered and plugged
    pressed,    \* a key is held
    bootmod,    \* board_boot_module
    heOn,       \* he_backend_running
    inputOn,    \* s_input_enabled
    keysOff,    \* module_watch_t.keys_off
    kpins,      \* the configured key pins
    lines,      \* the line test: None, or what it found and began with
    report,     \* BoardTestReport, None before the first
    truth,      \* history: the wiring the report measured, None if it moved
    tbudget

bvars == <<wiring, pressed, bootmod, heOn, inputOn, keysOff, kpins, lines,
           report, truth, tbudget>>

Carrier == <<10, 7>>
HandPins == <<14, 9>>
Spares == {6, 4, 2}

Wirings ==
    [module : {"none", "mx", "he"}, reversed : BOOLEAN,
     fault : {"none", "id", "open", "gnd", "spareGnd", "spare3V3", "bridge"}]

\* A fault is the carrier's or the module's; an HE module has no pull-ups
Plausible(w) == /\ w.module = "none" => ~w.reversed /\ w.fault = "none"
                /\ w.reversed => w.module = "mx" /\ w.fault = "none"
                /\ w.module = "he" => w.fault \notin {"open", "gnd"}

\* board_read_module_id: <<open, loaded>>
IdOf(w) == IF w.module = "none" \/ w.reversed THEN <<20, 0>>
           ELSE IF w.fault = "id" THEN <<3300, 3300>>
           ELSE IF w.module = "mx" THEN <<300, 250>>
           ELSE <<1060, 600>>

\* board_module_from_id
ModuleFromId(mv) == IF mv[2] < 60 THEN "none"
                    ELSE IF mv[1] < 650 THEN "mx"
                    ELSE IF mv[1] < 1600 THEN "he"
                    ELSE "none"

\* Whether the module's pull-up is on a key pin, and whether a pin is low
Powered(w) == w.module = "mx" /\ ~w.reversed
PullUp(w, i, pin) == Powered(w) /\ pin = Carrier[i] /\ ~(w.fault = "open" /\ i = 2)
Low(w, i, pin) == \/ pressed /\ i = 1 /\ (pin = Carrier[1] \/ ~Powered(w))
                  \/ w.fault = "gnd" /\ i = 1 /\ pin = Carrier[1]

-----------------------------------------------------------------------------
(* The pad *)

BoardInit ==
    /\ wiring \in {w \in Wirings : Plausible(w)}
    /\ pressed = FALSE
    /\ bootmod = ModuleFromId(IdOf(wiring))
    /\ heOn \in (IF bootmod = "he" THEN BOOLEAN ELSE {FALSE})
    /\ inputOn = (bootmod # "he")
    /\ keysOff = FALSE
    /\ kpins \in {Carrier, HandPins}
    /\ lines = None /\ report = None /\ truth = None
    /\ tbudget \in BoardBudgets

CountBoard(what) == tbudget[what] > 0 /\ tbudget' = [tbudget EXCEPT ![what] = @ - 1]

\* line_test_run begins: nothing to say while the input is off
LineTest ==
    /\ lines = None
    /\ CountBoard("tests")
    /\ lines' = [ran |-> inputOn, wiring |-> wiring, held |-> pressed,
                 up   |-> {i \in 1 .. 2 : inputOn /\ ~Low(wiring, i, kpins[i])},
                 down |-> {i \in 1 .. 2 : /\ inputOn /\ PullUp(wiring, i, kpins[i])
                                          /\ ~Low(wiring, i, kpins[i])}]
    /\ inputOn' = FALSE
    /\ UNCHANGED <<wiring, pressed, bootmod, heOn, keysOff, kpins, report, truth>>

\* test_spares: what follows its own pull, then which neighbours follow each other
SpareGnd(w)    == IF w.fault = "spareGnd" THEN {6} ELSE {}
Spare3V3(w)    == IF w.fault = "spare3V3" THEN {4} ELSE {}
SpareBridge(w) == IF w.fault = "bridge" THEN {4, 2} ELSE {}

\* The rest of board_test_run: with the HE input running ADC1 is not read
BoardTestRun ==
    /\ lines # None
    /\ LET id == IF heOn THEN None ELSE IdOf(wiring)
           m  == IF heOn THEN bootmod ELSE ModuleFromId(id)
           on == IF m = "none" THEN {} ELSE Spares
       IN report' = [boot |-> bootmod, module |-> m, id |-> id,
                     probe |-> IF m = "none" /\ wiring.reversed THEN 1500 ELSE 0,
                     pins |-> kpins, ran |-> lines.ran, up |-> lines.up, down |-> lines.down,
                     spares |-> on, spareUp |-> on \ SpareGnd(wiring),
                     spareDown |-> on \cap Spare3V3(wiring),
                     bridged |-> on \cap SpareBridge(wiring)]
    /\ truth' = IF lines.wiring = wiring THEN [wiring |-> wiring, held |-> lines.held] ELSE None
    /\ inputOn' = IF lines.ran THEN TRUE ELSE inputOn
    /\ lines' = None
    /\ UNCHANGED <<wiring, pressed, bootmod, heOn, keysOff, kpins, tbudget>>

\* The monitor's full reading, module_watch_step and act
ModuleMonitor ==
    /\ ~heOn
    /\ LET now == ModuleFromId(IdOf(wiring)) IN
       \/ /\ now # bootmod /\ ~keysOff
          /\ keysOff' = TRUE /\ inputOn' = FALSE
       \/ /\ now = bootmod /\ keysOff
          /\ keysOff' = FALSE
          /\ inputOn' = IF bootmod = "he" THEN inputOn ELSE TRUE
    /\ UNCHANGED <<wiring, pressed, bootmod, heOn, kpins, lines, report, truth, tbudget>>

-----------------------------------------------------------------------------
(* The user *)

Hold == pressed' = ~pressed /\ UNCHANGED <<wiring, bootmod, heOn, inputOn, keysOff, kpins,
                                           lines, report, truth, tbudget>>

\* Something is plugged, unplugged or soldered with the pad powered
Rewire ==
    /\ CountBoard("rewires")
    /\ wiring' \in {w \in Wirings : Plausible(w)}
    /\ UNCHANGED <<pressed, bootmod, heOn, inputOn, keysOff, kpins, lines, report, truth>>

-----------------------------------------------------------------------------
(* evaluate: the checks with their status *)

Status == [skip |-> 0, pass |-> 1, warn |-> 2, fail |-> 3]
OnCarrier(r) == r.pins = Carrier

ModuleCheck(r) ==
    IF r.id = None THEN "fail"
    ELSE IF r.module = "mx" /\ r.id[1] \in 200 .. 450 THEN "pass"
    ELSE IF r.module \in {"mx", "he"} THEN "warn"
    ELSE IF r.probe >= 700 \/ (r.id[2] >= 120 /\ r.id[1] >= 1600) \/ OnCarrier(r) THEN "fail"
    ELSE "skip"

UsesMx(r) == r.module = "mx" \/ r.boot = "mx"

KeyLineCheck(r, i, mx) ==
    IF ~r.ran THEN "skip"
    ELSE IF i \notin r.up THEN "fail"
    ELSE IF mx /\ r.pins[i] # Carrier[i] THEN "skip"
    ELSE IF mx /\ i \notin r.down THEN "fail"
    ELSE "pass"

\* Mutant: only each line by itself is looked at
SpareShortsOnly(r) ==
    IF r.spares = {} THEN "skip"
    ELSE IF r.spareUp = r.spares /\ r.spareDown = {} THEN "pass" ELSE "warn"

SpareCheck(r) ==
    IF r.spares = {} THEN "skip"
    ELSE IF r.spareUp = r.spares /\ r.spareDown = {} /\ Cardinality(r.bridged) < 2
            THEN "pass" ELSE "warn"

Evaluate(r) ==
    {ModuleCheck(r), SpareCheck(r)}
    \cup {KeyLineCheck(r, i, UsesMx(r)) : i \in 1 .. 2}
    \cup (IF r.boot # r.module THEN {"warn"} ELSE {})
    \cup (IF UsesMx(r) /\ ~OnCarrier(r) THEN {"fail"} ELSE {})

Overall(checks) == CHOOSE s \in checks : \A t \in checks : Status[t] <= Status[s]

\* BoardFix::UseCarrierKeyPins, offered with the failing key pins check
UseCarrierKeyPins ==
    /\ report # None /\ lines = None
    /\ UsesMx(report) /\ ~OnCarrier(report)
    /\ kpins' = Carrier
    /\ UNCHANGED <<wiring, pressed, bootmod, heOn, inputOn, keysOff, lines, report, truth, tbudget>>

BoardNext == LineTest \/ BoardTestRun \/ ModuleMonitor \/ Hold \/ Rewire \/ UseCarrierKeyPins
\* None is neither a measurement nor what it was of
BoardConstants ==
    /\ None \notin Nat \X Nat
    /\ None \notin [wiring : Wirings, held : BOOLEAN]
    /\ BoardBudgets \subseteq [tests : Nat, rewires : Nat]

BoardSpec == BoardInit /\ [][BoardNext]_bvars

-----------------------------------------------------------------------------
\* Types; the input is off for good only for a reason
BoardTypeOK ==
    /\ Plausible(wiring) /\ pressed \in BOOLEAN
    /\ bootmod \in {"none", "mx", "he"} /\ heOn \in BOOLEAN
    /\ inputOn \in BOOLEAN /\ keysOff \in BOOLEAN /\ kpins \in {Carrier, HandPins}
    /\ report # None => report.up \subseteq 1 .. 2 /\ report.down \subseteq 1 .. 2
    /\ \A b \in DOMAIN tbudget : tbudget[b] \in Nat

Measured == report # None /\ truth # None
Sound == [module |-> "mx", reversed |-> FALSE, fault |-> "none"]

\* A healthy MX board on the carrier's pins and a healthy hand-wired pad, with
\* no key held and the module it booted with, pass every check
HealthyPasses ==
    /\ Measured
    /\ ~truth.held /\ report.ran /\ report.boot = report.module
    /\ \/ truth.wiring = Sound /\ report.pins = Carrier
       \/ truth.wiring.module = "none" /\ report.pins = HandPins
    => Overall(Evaluate(report)) = "pass"

\* A reversed cable, a short, an open line or a bridge shows: no report of
\* an MX board with a fault, or with a key held, is a pass
FaultShows ==
    /\ Measured
    /\ truth.wiring.module = "mx" /\ report.ran
    /\ truth.wiring # Sound \/ (truth.held /\ report.pins = Carrier)
    => Overall(Evaluate(report)) \in {"warn", "fail"}

VerdictsHold == HealthyPasses /\ FaultShows
=============================================================================
