------------------------------- MODULE PadChecks -------------------------------
(***************************************************************************)
(* Pin detection and the board test, from the GUI's buttons through the    *)
(* daemon's handlers to the pad and back.  Neither request has a number    *)
(* the answer is matched by: a handler takes the first event for its key   *)
(* (or the first report) that comes while it waits.  On the pad the        *)
(* protocol task takes requests and answers them, the keypad task scans.   *)
(*                                                                         *)
(* Not modelled: what a board test measures, confirming a low pin for      *)
(* 15 ms, the settings form's other fields.                                *)
(***************************************************************************)
EXTENDS Naturals, Sequences, FiniteSets

CONSTANTS
    None,
    Pins,          \* the supported key pins, DefaultPin and CarrierPin among them
    CheckBudgets   \* bounds: detects, tests, cancels, drops

VARIABLES
    joined,     \* the daemon's link to the pad is up
    detecting,  \* GUI: detecting_pin
    testing,    \* GUI: diagnostics.board_test_running
    formPin,    \* GUI: k1_gpio and k2_gpio
    handlers,   \* the daemon's requests: what, key, exclude, and how far they are
    topad, tohost,
    req,        \* pad: s_detect_req_id and its exclude
    waiting,    \* pad: s_detect, the scan the protocol task owes an answer for
    scan,       \* pad: the keypad task's scan
    found,      \* pad: s_detect_done_id, s_detect_done_pin
    test,       \* pad: the protocol task is in board_test_run
    xbounds

xvars == <<joined, detecting, testing, formPin, handlers, topad, tohost,
           req, waiting, scan, found, test, xbounds>>
uiVars == <<detecting, testing, formPin>>
padVars == <<req, waiting, scan, found, test>>

Keys == {1, 2}
DefaultPin == <<14, 9>>
CarrierPin == <<10, 7>>

ChecksConstants ==
    /\ {DefaultPin[k] : k \in Keys} \cup {CarrierPin[k] : k \in Keys} \subseteq Pins
    /\ \A b \in CheckBudgets : b \in [{"detects", "tests", "cancels", "drops"} -> Nat]

OffPad == [req |-> [id |-> 0, exclude |-> 0], scan |-> [id |-> 0, exclude |-> 0, on |-> FALSE],
           waiting |-> [id |-> 0, key |-> 0], found |-> [id |-> 0, pin |-> 0]]

PadOff == /\ req = OffPad.req /\ scan = OffPad.scan /\ test = FALSE
          /\ waiting = OffPad.waiting /\ found = OffPad.found

ChecksInit ==
    /\ joined = TRUE /\ detecting = None /\ testing = FALSE
    /\ formPin = [k \in Keys |-> DefaultPin[k]]
    /\ handlers = {} /\ topad = <<>> /\ tohost = <<>> /\ PadOff
    /\ xbounds \in CheckBudgets

Uses(what) == xbounds[what] > 0 /\ xbounds' = [xbounds EXCEPT ![what] = @ - 1]

-----------------------------------------------------------------------------
(* The pad *)

RefusedWhileScanning == scan.on

\* Refused while the protocol task owes a pin; the other task's scan may not
\* have begun
Refused == waiting.id # 0

\* A request replaces the one before, which is never answered
TakesDetect ==
    /\ ~test /\ topad # <<>> /\ Head(topad).what = "detect" /\ topad' = Tail(topad)
    /\ req' = [id |-> req.id + 1, exclude |-> Head(topad).exclude]
    /\ waiting' = [id |-> req.id + 1, key |-> Head(topad).key]
    /\ UNCHANGED <<joined, uiVars, handlers, tohost, scan, found, test, xbounds>>

TakesTest ==
    /\ ~test /\ topad # <<>> /\ Head(topad).what = "test" /\ topad' = Tail(topad)
    /\ IF Refused THEN tohost' = Append(tohost, [what |-> "test", key |-> 0]) /\ UNCHANGED test
       ELSE test' = TRUE /\ UNCHANGED tohost
    /\ UNCHANGED <<joined, uiVars, handlers, req, waiting, scan, found, xbounds>>

TestEnds ==
    /\ test /\ test' = FALSE /\ tohost' = Append(tohost, [what |-> "test", key |-> 0])
    /\ UNCHANGED <<joined, uiVars, handlers, topad, req, waiting, scan, found, xbounds>>

\* detect_scan_step: a new request is looked for before the pins are
ScanBegins ==
    /\ scan.id # req.id /\ scan' = [id |-> req.id, exclude |-> req.exclude, on |-> TRUE]
    /\ UNCHANGED <<joined, uiVars, handlers, topad, tohost, req, waiting, found, test, xbounds>>

\* A pin is pulled low, or the time is over (pin 0)
ScanEnds(pin) ==
    /\ scan.on /\ scan.id = req.id /\ pin # scan.exclude
    /\ scan' = [scan EXCEPT !.on = FALSE] /\ found' = [id |-> scan.id, pin |-> pin]
    /\ UNCHANGED <<joined, uiVars, handlers, topad, tohost, req, waiting, test, xbounds>>

FoundAny(id) == found.id # 0

\* keypad_detect_pin_result
Found(id) == found.id = id

\* protocol_poll_detect_pin; "of" and "by" are for AnswersItsOwn only
PollDetect ==
    /\ ~test /\ waiting.id # 0 /\ Found(waiting.id)
    /\ tohost' = Append(tohost, [what |-> "detect", key |-> waiting.key, pin |-> found.pin,
                                 of |-> waiting.id, by |-> found.id])
    /\ waiting' = [waiting EXCEPT !.id = 0]
    /\ UNCHANGED <<joined, uiVars, handlers, topad, req, scan, found, test, xbounds>>

-----------------------------------------------------------------------------
(* The daemon *)

Becomes(c, st, pin) == (handlers \ {c}) \cup {[c EXCEPT !.st = st, !.pin = pin]}

\* Subscribed to the events first, then sent
Sends(c) ==
    /\ c.st = "asked"
    /\ IF joined THEN handlers' = Becomes(c, "waits", 0) /\ topad' = Append(topad, c)
       ELSE handlers' = Becomes(c, "done", 0) /\ UNCHANGED topad
    /\ UNCHANGED <<joined, uiVars, tohost, padVars, xbounds>>

Answers(frame, c) == c.st = "waits" /\ c.what = frame.what /\ c.key = frame.key

\* One event answers everyone who waits for its kind
FrameArrives ==
    /\ tohost # <<>> /\ tohost' = Tail(tohost)
    /\ handlers' = LET frame == Head(tohost) pin == IF frame.what = "test" THEN 0 ELSE frame.pin
                   IN  {IF Answers(frame, c) THEN [c EXCEPT !.st = "done", !.pin = pin] ELSE c
                        : c \in handlers}
    /\ UNCHANGED <<joined, uiVars, topad, padVars, xbounds>>

WaitsForever(c) == c.what = "test"

\* Both waits end after a while
Waited(c) == TRUE

TimesOut(c) ==
    /\ c.st = "waits" /\ Waited(c) /\ handlers' = Becomes(c, "done", 0)
    /\ UNCHANGED <<joined, uiVars, topad, tohost, padVars, xbounds>>

\* Unplugged, or only the port lost; frames under way go with it
LinkLost ==
    /\ joined /\ Uses("drops") /\ joined' = FALSE /\ topad' = <<>> /\ tohost' = <<>>
    /\ \/ UNCHANGED padVars
       \/ /\ req' = OffPad.req /\ scan' = OffPad.scan /\ test' = FALSE
          /\ waiting' = OffPad.waiting /\ found' = OffPad.found
    /\ UNCHANGED <<uiVars, handlers>>

LinkBack ==
    /\ ~joined /\ joined' = TRUE
    /\ UNCHANGED <<uiVars, handlers, topad, tohost, padVars, xbounds>>

-----------------------------------------------------------------------------
(* The GUI *)

Asks(what, key, exclude) ==
    handlers' = handlers \cup {[what |-> what, key |-> key, exclude |-> exclude, st |-> "asked",
                                pin |-> 0, n |-> xbounds]}

\* The other key's pin is left out of the scan
StartDetectPin(k) ==
    /\ joined /\ detecting # k /\ Uses("detects") /\ detecting' = k /\ Asks("detect", k, formPin[3 - k])
    /\ UNCHANGED <<joined, testing, formPin, topad, tohost, padVars>>

\* Only the button is reset: the scan goes on, and its answer still counts
CancelDetectPin ==
    /\ detecting # None /\ Uses("cancels") /\ detecting' = None
    /\ UNCHANGED <<joined, testing, formPin, handlers, topad, tohost, padVars>>

PinDetected(c) ==
    /\ c.st = "done" /\ c.what = "detect" /\ handlers' = handlers \ {c} /\ detecting' = None
    /\ formPin' = IF c.pin = 0 THEN formPin ELSE [formPin EXCEPT ![c.key] = c.pin]
    /\ UNCHANGED <<joined, testing, topad, tohost, padVars, xbounds>>

Tests ==
    /\ joined /\ ~testing /\ Uses("tests") /\ testing' = TRUE /\ Asks("test", 0, 0)
    /\ UNCHANGED <<joined, detecting, topad, tohost, padVars>>

RunBoardTest == Tests /\ UNCHANGED formPin

\* The carrier's pins are taken into the form and saved; then the test
UseCarrierKeyPins == Tests /\ formPin' = CarrierPin

BoardTestDone(c) ==
    /\ c.st = "done" /\ c.what = "test" /\ handlers' = handlers \ {c} /\ testing' = FALSE
    /\ UNCHANGED <<joined, detecting, formPin, topad, tohost, padVars, xbounds>>

ChecksNext ==
    \/ TakesDetect \/ TakesTest \/ TestEnds \/ ScanBegins \/ PollDetect
    \/ \E pin \in Pins \cup {0} : ScanEnds(pin)
    \/ \E c \in handlers : Sends(c)
    \/ \E c \in handlers : TimesOut(c)
    \/ FrameArrives \/ LinkLost \/ LinkBack \/ CancelDetectPin
    \/ RunBoardTest \/ UseCarrierKeyPins
    \/ \E k \in Keys : StartDetectPin(k)
    \/ \E c \in handlers : PinDetected(c)
    \/ \E c \in handlers : BoardTestDone(c)

\* The daemon runs its handlers and timers, the GUI takes what it is told
ChecksFairness ==
    /\ WF_xvars(\E c \in handlers : Sends(c)) /\ WF_xvars(\E c \in handlers : TimesOut(c))
    /\ WF_xvars(\E c \in handlers : PinDetected(c) \/ BoardTestDone(c))
ChecksSpec == ChecksInit /\ [][ChecksNext]_xvars /\ ChecksFairness

-----------------------------------------------------------------------------
\* The form's pins are supported ones; the scan is of the last request taken
\* up, and one never outlives its request.
ChecksTypeOK ==
    /\ joined \in BOOLEAN /\ testing \in BOOLEAN /\ test \in BOOLEAN
    /\ detecting \in Keys \cup {None} /\ formPin \in [Keys -> Pins]
    /\ scan.id <= req.id /\ found.id <= scan.id /\ waiting.id <= req.id
    /\ \A c \in handlers : c.st \in {"asked", "waits", "done"}

\* What the pad answers a request with is what the scan begun for that very
\* request found, never the pin of the scan it replaced.
AnswersItsOwn ==
    \A i \in DOMAIN tohost : tohost[i].what = "detect" => tohost[i].by = tohost[i].of

\* The board test never reconfigures lines a scan holds, though the scan
\* begins on another task some time after it was asked for.
NoTestDuringScan == test => ~scan.on /\ scan.id = req.id

\* The buttons come back, whatever was replaced, cancelled or unplugged.
NothingPending == detecting = None /\ ~testing
=============================================================================
