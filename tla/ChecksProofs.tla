---------------------------- MODULE ChecksProofs ----------------------------
(***************************************************************************)
(* Proofs about the checks of the pad that MCSettle composes, for every    *)
(* value of the constants: the calibration run, the pin search and board   *)
(* tests, the switch tester and the Hall effect monitor.                   *)
(*                                                                         *)
(* Each of the four has an inductive invariant of its own; ChecksInv says  *)
(* that the one that moves keeps its own.                                  *)
(***************************************************************************)
EXTENDS MCSettle, FiniteSetTheorems, SequenceTheorems, WellFoundedInduction, TLAPS


-----------------------------------------------------------------------------
(* The calibration *)

CalShown == Cal!Stages \cup {None}
CalGot == CalShown \cup {"started", "cancelled", "error", "on", "off"}
CalAsks == [kind : {"start", "cancel", "progress", "status"}, st : {"sent", "cleared", "ok"},
            fresh : BOOLEAN, got : CalGot]
CalPages == [connected : BOOLEAN, starting : BOOLEAN, shown : CalShown]

CalTyped ==
    /\ pad \in [stage : Cal!Stages, app : BOOLEAN]
    /\ outbox \in CalShown /\ latest \in CalShown /\ lastReport \in CalShown
    /\ page \in CalPages
    /\ rx \in Seq(Cal!Stages \cup {"up", "down"})
    /\ asks \subseteq CalAsks
    /\ \A a \in asks : a.kind = "progress" => a.got \in CalShown

\* Every run is one an app started, over a port that is open, and a closed port
\* has no command under way
CalOwned ==
    /\ pad.stage \in Cal!Running => cable /\ pad.app
    /\ ~cable => cmds = <<>>

CalIInv == CalTyped /\ CalOwned

LEMMA CalInitial ==
    ASSUME Cal!CalInit
    PROVE  CalIInv
BY DEF Cal!CalInit, CalIInv, CalTyped, CalOwned, CalShown, CalPages, Cal!Stages, Cal!Running

\* The pad's steps and its port's
LEMMA CalPadStep ==
    ASSUME CalIInv,
           \/ Cal!PadStart \/ Cal!PadCancel \/ Cal!PadSteps \/ Cal!PadSends
           \/ Cal!LinkDrops \/ Cal!LinkReturns
    PROVE  CalIInv'
<1>. USE DEF CalIInv, CalTyped, CalOwned, Cal!Stages, Cal!Running
<1>1. CASE Cal!PadStart
    <2>1. /\ cable /\ UNCHANGED <<cable, rx, latest, page, asks>>
          /\ \/ pad' = [stage |-> "rest", app |-> TRUE] /\ outbox' = "rest" /\ lastReport' = "rest"
             \/ pad' = pad /\ outbox' = "failed" /\ lastReport' = "failed"
        BY <1>1 DEF Cal!PadStart, Cal!Report
    <2>2. outbox' \in CalShown /\ lastReport' \in CalShown
        BY <2>1 DEF CalShown
    <2>3. pad' \in [stage : Cal!Stages, app : BOOLEAN]
        <3>1. [stage |-> "rest", app |-> TRUE] \in [stage : Cal!Stages, app : BOOLEAN]
            OBVIOUS
        <3>2. pad \in [stage : Cal!Stages, app : BOOLEAN]
            OBVIOUS
        <3>3. pad' = [stage |-> "rest", app |-> TRUE] \/ pad' = pad
            BY <2>1
        <3>. HIDE DEF Cal!Stages
        <3>. QED BY <3>1, <3>2, <3>3
    <2>4. cable' /\ (pad'.stage \in Cal!Running => pad'.app)
        BY <2>1
    <2>. QED BY <2>1, <2>2, <2>3, <2>4
<1>2. CASE Cal!PadCancel
    BY <1>2 DEF Cal!PadCancel, Cal!Report, CalShown
<1>3. CASE Cal!PadSteps
    <2>1. PICK next \in {"failed", IF pad.stage = "rest" THEN "keys" ELSE "success"} :
              pad' = [pad EXCEPT !.stage = next] /\ outbox' = next /\ lastReport' = next
        BY <1>3 DEF Cal!PadSteps, Cal!Report
    <2>2. cable /\ UNCHANGED <<cable, cmds, rx, latest, page, asks>> /\ pad.app
        BY <1>3 DEF Cal!PadSteps
    <2>. QED BY <2>1, <2>2 DEF CalShown
<1>4. CASE Cal!PadSends
    BY <1>4 DEF Cal!PadSends, CalShown
<1>5. CASE Cal!LinkDrops
    <2>1. /\ UNCHANGED <<latest, page, asks>> /\ cable' = FALSE /\ cmds' = <<>>
          /\ outbox' = None /\ lastReport' = None /\ rx' = Append(rx, "down")
          /\ pad' = IF pad.stage \in Cal!Running /\ pad.app
                      THEN [stage |-> "failed", app |-> FALSE] ELSE pad
        BY <1>5 DEF Cal!LinkDrops
    <2>. QED BY <2>1 DEF CalShown
<1>6. CASE Cal!LinkReturns
    BY <1>6 DEF Cal!LinkReturns
<1>. QED BY <1>1, <1>2, <1>3, <1>4, <1>5, <1>6

\* An answer takes the place of its call
LEMMA CalAnswers ==
    ASSUME CalTyped, NEW a \in asks, NEW w \in CalGot, a.kind = "progress" => w \in CalShown,
           Cal!Answered(a, w)
    PROVE  asks' \subseteq CalAsks /\ \A b \in asks' : b.kind = "progress" => b.got \in CalShown
<1> DEFINE r == [a EXCEPT !.st = "ok", !.got = w]
<1>1. a \in CalAsks
    BY DEF CalTyped
<1>2. r \in CalAsks /\ r.kind = a.kind /\ r.got = w
    BY <1>1 DEF CalAsks
<1>3. asks' = (asks \ {a}) \cup {r}
    BY DEF Cal!Answered
<1>. HIDE DEF r
<1>. QED BY <1>2, <1>3 DEF CalTyped

LEMMA CalDaemonStep ==
    ASSUME CalIInv,
           \/ Cal!Handles
           \/ \E a \in asks : Cal!StartArrives(a) \/ Cal!StartEnqueues(a) \/ Cal!CancelArrives(a)
                              \/ Cal!Reads(a)
    PROVE  CalIInv'
<1>0. CalTyped /\ CalOwned
    BY DEF CalIInv
<1>1. CASE Cal!Handles
    <2>1. /\ rx # <<>> /\ rx' = Tail(rx)
          /\ UNCHANGED <<pad, outbox, cable, cmds, page, asks, lastReport>>
          /\ latest' = CASE Head(rx) = "down" -> None
                   [] Head(rx) = "up"   -> latest
                   [] OTHER             -> IF known THEN Head(rx) ELSE latest
        BY <1>1 DEF Cal!Handles
    <2>2. Head(rx) \in Cal!Stages \cup {"up", "down"} /\ rx' \in Seq(Cal!Stages \cup {"up", "down"})
        BY <1>0, <2>1 DEF CalTyped
    <2>3. latest' \in CalShown
        BY <1>0, <2>1, <2>2 DEF CalTyped, CalShown
    <2>. QED BY <1>0, <2>1, <2>2, <2>3 DEF CalIInv, CalTyped, CalOwned
<1>2. ASSUME NEW a \in asks, Cal!StartArrives(a) PROVE CalIInv'
    <2>1. UNCHANGED <<pad, outbox, cable, cmds, rx, page, lastReport>>
        BY <1>2 DEF Cal!StartArrives
    <2>2. CASE cable /\ known
        <3> DEFINE r == [a EXCEPT !.st = "cleared"]
        <3>1. a \in CalAsks
            BY <1>0 DEF CalTyped
        <3>2. r \in CalAsks /\ r.kind = a.kind /\ r.got = a.got
            BY <3>1 DEF CalAsks
        <3>3. latest' = None /\ asks' = (asks \ {a}) \cup {r}
            BY <1>2, <2>2 DEF Cal!StartArrives
        <3>. HIDE DEF r
        <3>4. asks' \subseteq CalAsks /\ \A b \in asks' : b.kind = "progress" => b.got \in CalShown
            BY <1>0, <3>2, <3>3 DEF CalTyped
        <3>. QED BY <1>0, <2>1, <3>3, <3>4 DEF CalIInv, CalTyped, CalOwned, CalShown
    <2>3. CASE ~(cable /\ known)
        <3>1. Cal!Answered(a, "error") /\ UNCHANGED latest /\ a.kind = "start"
            BY <1>2, <2>3 DEF Cal!StartArrives
        <3>2. asks' \subseteq CalAsks /\ \A b \in asks' : b.kind = "progress" => b.got \in CalShown
            BY <1>0, <3>1, CalAnswers DEF CalGot
        <3>. QED BY <1>0, <2>1, <3>1, <3>2 DEF CalIInv, CalTyped, CalOwned
    <2>. QED BY <2>2, <2>3
<1>3. ASSUME NEW a \in asks, Cal!StartEnqueues(a) PROVE CalIInv'
    <2>1. /\ UNCHANGED <<pad, outbox, cable, rx, latest, page, lastReport>> /\ a.kind = "start"
          /\ ~cable => cmds' = cmds
        BY <1>3 DEF Cal!StartEnqueues
    <2>2. asks' \subseteq CalAsks /\ \A b \in asks' : b.kind = "progress" => b.got \in CalShown
        <3>1. Cal!Answered(a, IF cable THEN "started" ELSE "error")
            BY <1>3 DEF Cal!StartEnqueues
        <3>. QED BY <1>0, <2>1, <3>1, CalAnswers DEF CalGot
    <2>. QED BY <1>0, <2>1, <2>2 DEF CalIInv, CalTyped, CalOwned
<1>4. ASSUME NEW a \in asks, Cal!CancelArrives(a) PROVE CalIInv'
    <2>1. /\ UNCHANGED <<pad, outbox, cable, rx, latest, page, lastReport>> /\ a.kind = "cancel"
          /\ ~cable => cmds' = cmds
        BY <1>4 DEF Cal!CancelArrives
    <2>2. asks' \subseteq CalAsks /\ \A b \in asks' : b.kind = "progress" => b.got \in CalShown
        <3>1. Cal!Answered(a, IF cable /\ known THEN "cancelled" ELSE "error")
            BY <1>4 DEF Cal!CancelArrives
        <3>. QED BY <1>0, <2>1, <3>1, CalAnswers DEF CalGot
    <2>. QED BY <1>0, <2>1, <2>2 DEF CalIInv, CalTyped, CalOwned
<1>5. ASSUME NEW a \in asks, Cal!Reads(a) PROVE CalIInv'
    <2>1. UNCHANGED <<pad, outbox, cable, cmds, rx, latest, page, lastReport>>
        BY <1>5 DEF Cal!Reads
    <2>2. asks' \subseteq CalAsks /\ \A b \in asks' : b.kind = "progress" => b.got \in CalShown
        <3>1. /\ a.kind \in {"progress", "status"}
              /\ Cal!Answered(a, IF a.kind = "status" THEN IF known THEN "on" ELSE "off" ELSE latest)
            BY <1>5 DEF Cal!Reads
        <3>2. latest \in CalShown
            BY <1>0 DEF CalTyped
        <3>. QED BY <1>0, <3>1, <3>2, CalAnswers DEF CalGot
    <2>. QED BY <1>0, <2>1, <2>2 DEF CalIInv, CalTyped, CalOwned
<1>. QED BY <1>1, <1>2, <1>3, <1>4, <1>5

\* A click stales the calls under way and adds its own
LEMMA CalStaled ==
    ASSUME CalTyped, NEW s \in SUBSET asks
    PROVE  /\ Cal!Staled(s) \subseteq CalAsks
           /\ \A b \in Cal!Staled(s) : b.kind = "progress" => b.got \in CalShown
<1>. SUFFICES ASSUME NEW b \in Cal!Staled(s)
              PROVE  b \in CalAsks /\ (b.kind = "progress" => b.got \in CalShown)
    OBVIOUS
<1>1. PICK a \in s : b = [a EXCEPT !.fresh = FALSE]
    BY DEF Cal!Staled
<1>2. a \in CalAsks /\ (a.kind = "progress" => a.got \in CalShown)
    BY DEF CalTyped
<1>. QED BY <1>1, <1>2 DEF CalAsks

LEMMA CalAsked ==
    ASSUME NEW kind \in {"start", "cancel", "progress", "status"}, NEW s, s \subseteq CalAsks,
           \A b \in s : b.kind = "progress" => b.got \in CalShown
    PROVE  /\ Cal!Asked(kind, s) \subseteq CalAsks
           /\ \A b \in Cal!Asked(kind, s) : b.kind = "progress" => b.got \in CalShown
<1> DEFINE r == [kind |-> kind, st |-> "sent", fresh |-> TRUE, got |-> None]
<1>1. None \in CalGot /\ None \in CalShown
    BY DEF CalGot, CalShown
<1>2. r \in CalAsks /\ r.got = None
    BY <1>1 DEF CalAsks
<1>3. Cal!Asked(kind, s) = s \cup {r}
    BY DEF Cal!Asked
<1>. HIDE DEF r
<1>. QED BY <1>1, <1>2, <1>3

LEMMA CalWindowStep ==
    ASSUME CalIInv,
           \/ Cal!ClickStart \/ Cal!ClickCancel
           \/ \E kind \in {"progress", "status"} : Cal!Polls(kind)
           \/ \E a \in asks : Cal!CalAnswer(a) \/ Cal!StatusAnswer(a)
    PROVE  CalIInv'
<1>0. CalTyped /\ CalOwned /\ page \in CalPages
    BY DEF CalIInv, CalTyped
<1>1. CASE Cal!ClickStart
    <2>1. /\ UNCHANGED <<pad, outbox, cable, cmds, rx, latest, lastReport>>
          /\ page' = [page EXCEPT !.starting = TRUE, !.shown = None]
          /\ asks' = Cal!Asked("start", Cal!Staled(asks))
        BY <1>1 DEF Cal!ClickStart
    <2>2. page' \in CalPages
        BY <1>0, <2>1 DEF CalPages, CalShown
    <2>3. asks' \subseteq CalAsks /\ \A b \in asks' : b.kind = "progress" => b.got \in CalShown
        BY <1>0, <2>1, CalStaled, CalAsked
    <2>. QED BY <1>0, <2>1, <2>2, <2>3 DEF CalIInv, CalTyped, CalOwned
<1>2. CASE Cal!ClickCancel
    <2>1. /\ UNCHANGED <<pad, outbox, cable, cmds, rx, latest, lastReport>>
          /\ page' = [page EXCEPT !.starting = FALSE]
          /\ asks' = Cal!Asked("cancel", Cal!Staled(asks))
        BY <1>2 DEF Cal!ClickCancel
    <2>2. page' \in CalPages
        BY <1>0, <2>1 DEF CalPages
    <2>3. asks' \subseteq CalAsks /\ \A b \in asks' : b.kind = "progress" => b.got \in CalShown
        BY <1>0, <2>1, CalStaled, CalAsked
    <2>. QED BY <1>0, <2>1, <2>2, <2>3 DEF CalIInv, CalTyped, CalOwned
<1>3. ASSUME NEW kind \in {"progress", "status"}, Cal!Polls(kind) PROVE CalIInv'
    <2>1. /\ UNCHANGED <<pad, outbox, cable, cmds, rx, latest, page, lastReport>>
          /\ asks' = Cal!Asked(kind, asks)
        BY <1>3 DEF Cal!Polls
    <2>2. asks \subseteq CalAsks /\ \A b \in asks : b.kind = "progress" => b.got \in CalShown
        BY <1>0 DEF CalTyped
    <2>3. asks' \subseteq CalAsks /\ \A b \in asks' : b.kind = "progress" => b.got \in CalShown
        BY <2>1, <2>2, CalAsked
    <2>. QED BY <1>0, <2>1, <2>3 DEF CalIInv, CalTyped, CalOwned
<1>4. ASSUME NEW a \in asks, Cal!CalAnswer(a) PROVE CalIInv'
    <2>1. /\ UNCHANGED <<pad, outbox, cable, cmds, rx, latest, lastReport>>
          /\ asks' = asks \ {a}
        BY <1>4 DEF Cal!CalAnswer
    <2>2. page' = IF ~Cal!OfThisEpoch(a) THEN page
               ELSE CASE a.kind = "start" -> [page EXCEPT !.starting = (a.got = "started")]
                      [] a.got = "cancelled" -> [page EXCEPT !.shown = None]
                      [] a.kind = "progress" ->
                             [page EXCEPT !.shown = a.got, !.starting = @ /\ a.got = None]
                      [] OTHER -> page
        BY <1>4 DEF Cal!CalAnswer
    <2>3. [page EXCEPT !.starting = (a.got = "started")] \in CalPages
        BY <1>0 DEF CalPages
    <2>4. [page EXCEPT !.shown = None] \in CalPages
        BY <1>0 DEF CalPages, CalShown
    <2>5. a.kind = "progress" =>
              [page EXCEPT !.shown = a.got, !.starting = @ /\ a.got = None] \in CalPages
        <3>1. ASSUME a.kind = "progress"
              PROVE  [page EXCEPT !.shown = a.got, !.starting = @ /\ a.got = None] \in CalPages
            <4>1. a.got \in CalShown
                BY <1>0, <3>1 DEF CalTyped
            <4>2. (page.starting /\ a.got = None) \in BOOLEAN
                OBVIOUS
            <4>. QED BY <1>0, <4>1, <4>2 DEF CalPages
        <3>. QED BY <3>1
    <2>6. page' \in CalPages
        BY <1>0, <2>2, <2>3, <2>4, <2>5
    <2>. QED BY <1>0, <2>1, <2>6 DEF CalIInv, CalTyped, CalOwned
<1>5. ASSUME NEW a \in asks, Cal!StatusAnswer(a) PROVE CalIInv'
    <2>1. UNCHANGED <<pad, outbox, cable, cmds, rx, latest, lastReport>>
        BY <1>5 DEF Cal!StatusAnswer
    <2>2. \/ /\ page' = [connected |-> a.got = "on", starting |-> FALSE, shown |-> None]
             /\ asks' = Cal!Staled(asks \ {a})
          \/ page' = page /\ asks' = asks \ {a}
        BY <1>5 DEF Cal!StatusAnswer
    <2>3. page' \in CalPages
        <3>1. (a.got = "on") \in BOOLEAN /\ None \in CalShown
            BY DEF CalShown
        <3>2. [connected |-> a.got = "on", starting |-> FALSE, shown |-> None] \in CalPages
            BY <3>1 DEF CalPages
        <3>. QED BY <1>0, <2>2, <3>2
    <2>4. asks' \subseteq CalAsks /\ \A b \in asks' : b.kind = "progress" => b.got \in CalShown
        <3>1. asks \ {a} \in SUBSET asks
            OBVIOUS
        <3>. QED BY <1>0, <2>2, <3>1, CalStaled DEF CalTyped
    <2>. QED BY <1>0, <2>1, <2>3, <2>4 DEF CalIInv, CalTyped, CalOwned
<1>. QED BY <1>1, <1>2, <1>3, <1>4, <1>5

LEMMA CalStep ==
    ASSUME CalIInv, [Cal!CalNext]_kvars
    PROVE  CalIInv'
<1>1. CASE UNCHANGED kvars
    BY <1>1 DEF kvars, CalIInv, CalTyped, CalOwned
<1>2. CASE Cal!CalNext
    BY <1>2, CalPadStep, CalDaemonStep, CalWindowStep DEF Cal!CalNext
<1>. QED BY <1>1, <1>2

LEMMA CalHolds == CalIInv => Cal!NoRunWithoutItsApp /\ Cal!CalTypeOK
BY DEF CalIInv, CalTyped, CalOwned, Cal!NoRunWithoutItsApp, Cal!CalTypeOK, CalPages, CalShown

-----------------------------------------------------------------------------
(* Pin detection and the board test *)

ChkPins == Pins \cup {0}
ChkBudgets == [{"detects", "tests", "cancels", "drops"} -> Nat]
ChkCalls ==
    {c \in [what : {"detect", "test"}, key : {0, 1, 2}, exclude : ChkPins,
            st : {"asked", "waits", "done"}, pin : ChkPins, n : ChkBudgets] :
        c.what = "detect" => c.key \in {1, 2}}
ChkFrames ==
    [what : {"test"}, key : {0}] \cup
    {f \in [what : {"detect"}, key : {1, 2}, pin : ChkPins, of : Nat, by : Nat] : f.by = f.of}

ChkDaemon ==
    /\ joined \in BOOLEAN /\ xbounds \in ChkBudgets
    /\ handlers \subseteq ChkCalls /\ topad \in Seq(ChkCalls) /\ tohost \in Seq(ChkFrames)
ChkWindow ==
    /\ testing \in BOOLEAN /\ detecting \in {1, 2, None} /\ formPin \in [{1, 2} -> Pins]
ChkPad ==
    /\ test \in BOOLEAN
    /\ req \in [id : Nat, exclude : ChkPins]
    /\ waiting \in [id : Nat, key : {0, 1, 2}]
    /\ scan \in [id : Nat, exclude : ChkPins, on : BOOLEAN]
    /\ found \in [id : Nat, pin : ChkPins]
    /\ waiting.id # 0 => waiting.key \in {1, 2}

\* The two tasks of the pad stay in step: a scan is of a request taken, a pin
\* found of a scan begun, and once the pin of the last request is there the scan
\* is over.  The protocol task owes no pin only then.
ChkInStep ==
    /\ scan.id <= req.id /\ found.id <= scan.id /\ waiting.id \in {0, req.id}
    /\ found.id = req.id => ~scan.on
    /\ waiting.id = 0 => found.id = req.id
    /\ test => ~scan.on /\ scan.id = req.id

ChkIInv == ChkDaemon /\ ChkWindow /\ ChkPad /\ ChkInStep

LEMMA ChkConstants == {7, 9, 10, 14} \subseteq Pins /\ CheckBudgets \subseteq ChkBudgets
<1>1. /\ \A k \in {1, 2} : <<14, 9>>[k] \in Pins /\ <<10, 7>>[k] \in Pins
      /\ \A b \in CheckBudgets : b \in ChkBudgets
    BY ChecksAssumption
    DEF Checks!ChecksConstants, Checks!DefaultPin, Checks!CarrierPin, Checks!Keys, ChkBudgets
<1>2. <<14, 9>>[1] = 14 /\ <<14, 9>>[2] = 9 /\ <<10, 7>>[1] = 10 /\ <<10, 7>>[2] = 7
    OBVIOUS
<1>3. 1 \in {1, 2} /\ 2 \in {1, 2}
    OBVIOUS
<1>. QED BY <1>1, <1>2, <1>3

LEMMA ChkOff ==
    /\ [id |-> 0, exclude |-> 0] \in [id : Nat, exclude : ChkPins]
    /\ [id |-> 0, key |-> 0] \in [id : Nat, key : {0, 1, 2}]
    /\ [id |-> 0, exclude |-> 0, on |-> FALSE] \in [id : Nat, exclude : ChkPins, on : BOOLEAN]
    /\ [id |-> 0, pin |-> 0] \in [id : Nat, pin : ChkPins]
BY DEF ChkPins

LEMMA ChkPadOff ==
    ASSUME req' = Checks!OffPad.req, scan' = Checks!OffPad.scan, test' = FALSE,
           waiting' = Checks!OffPad.waiting, found' = Checks!OffPad.found
    PROVE  ChkPad' /\ ChkInStep'
<1>1. /\ req' = [id |-> 0, exclude |-> 0] /\ scan' = [id |-> 0, exclude |-> 0, on |-> FALSE]
      /\ waiting' = [id |-> 0, key |-> 0] /\ found' = [id |-> 0, pin |-> 0]
    BY DEF Checks!OffPad
<1>2. waiting'.id = 0
    BY <1>1
<1>3. ChkPad'
    BY <1>1, <1>2, ChkOff DEF ChkPad
<1>4. ChkInStep'
    BY <1>1 DEF ChkInStep
<1>. QED BY <1>3, <1>4

LEMMA ChecksInitial ==
    ASSUME Checks!ChecksInit
    PROVE  ChkIInv
<1>1. ChkPad /\ ChkInStep
    <2>1. /\ req = [id |-> 0, exclude |-> 0] /\ scan = [id |-> 0, exclude |-> 0, on |-> FALSE]
          /\ waiting = [id |-> 0, key |-> 0] /\ found = [id |-> 0, pin |-> 0] /\ test = FALSE
        BY DEF Checks!ChecksInit, Checks!PadOff, Checks!OffPad
    <2>2. ChkInStep /\ waiting.id = 0
        BY <2>1 DEF ChkInStep
    <2>. QED BY <2>1, <2>2, ChkOff DEF ChkPad
<1>2. ChkDaemon
    BY ChkConstants DEF Checks!ChecksInit, ChkDaemon
<1>3. ChkWindow
    <2>1. /\ testing = FALSE /\ detecting = None
          /\ formPin = [k \in {1, 2} |-> <<14, 9>>[k]]
        BY DEF Checks!ChecksInit, Checks!Keys, Checks!DefaultPin
    <2>2. \A k \in {1, 2} : <<14, 9>>[k] \in Pins
        BY ChkConstants
    <2>. QED BY <2>1, <2>2 DEF ChkWindow
<1>. QED BY <1>1, <1>2, <1>3 DEF ChkIInv

\* The protocol task's steps and the keypad task's
LEMMA ChkTasksStep ==
    ASSUME ChkIInv,
           \/ Checks!TakesDetect \/ Checks!TakesTest \/ Checks!TestEnds \/ Checks!ScanBegins
           \/ Checks!PollDetect \/ \E pin \in Pins \cup {0} : Checks!ScanEnds(pin)
    PROVE  ChkIInv'
<1>0. ChkDaemon /\ ChkWindow /\ ChkPad /\ ChkInStep
    BY DEF ChkIInv
<1>1. CASE Checks!TakesDetect
    <2>1. /\ ~test /\ topad # <<>> /\ Head(topad).what = "detect" /\ topad' = Tail(topad)
          /\ req' = [id |-> req.id + 1, exclude |-> Head(topad).exclude]
          /\ waiting' = [id |-> req.id + 1, key |-> Head(topad).key]
          /\ UNCHANGED <<joined, detecting, testing, formPin, handlers, tohost, scan, found, test, xbounds>>
        BY <1>1 DEF Checks!TakesDetect, Checks!uiVars
    <2>2. Head(topad) \in ChkCalls /\ Tail(topad) \in Seq(ChkCalls)
        BY <1>0, <2>1 DEF ChkDaemon
    <2>3. Head(topad).key \in {1, 2} /\ Head(topad).exclude \in ChkPins
        BY <2>1, <2>2 DEF ChkCalls
    <2>4. ChkPad'
        BY <1>0, <2>1, <2>3 DEF ChkPad
    <2>5. ChkInStep'
        BY <1>0, <2>1 DEF ChkPad, ChkInStep
    <2>. QED BY <1>0, <2>1, <2>2, <2>4, <2>5 DEF ChkIInv, ChkDaemon, ChkWindow
<1>2. CASE Checks!TakesTest
    <2>1. /\ topad # <<>> /\ topad' = Tail(topad)
          /\ \/ tohost' = Append(tohost, [what |-> "test", key |-> 0]) /\ test' = test
             \/ test' = TRUE /\ waiting.id = 0 /\ tohost' = tohost
          /\ UNCHANGED <<joined, detecting, testing, formPin, handlers, req, waiting, scan, found, xbounds>>
        BY <1>2 DEF Checks!TakesTest, Checks!uiVars, Checks!Refused
    <2>2. Tail(topad) \in Seq(ChkCalls) /\ tohost' \in Seq(ChkFrames)
        <3>1. [what |-> "test", key |-> 0] \in ChkFrames
            BY DEF ChkFrames
        <3>. QED BY <1>0, <2>1, <3>1 DEF ChkDaemon
    <2>3. test' => test \/ found.id = req.id
        BY <1>0, <2>1 DEF ChkPad, ChkInStep
    <2>4. test' => ~scan.on /\ scan.id = req.id
        BY <1>0, <2>3 DEF ChkPad, ChkInStep
    <2>5. ChkPad'
        BY <1>0, <2>1 DEF ChkPad
    <2>6. ChkInStep'
        BY <1>0, <2>1, <2>4 DEF ChkInStep
    <2>. QED BY <1>0, <2>1, <2>2, <2>5, <2>6 DEF ChkIInv, ChkDaemon, ChkWindow
<1>3. CASE Checks!TestEnds
    <2>1. /\ test' = FALSE /\ tohost' = Append(tohost, [what |-> "test", key |-> 0])
          /\ UNCHANGED <<joined, detecting, testing, formPin, handlers, topad, req, waiting, scan,
                         found, xbounds>>
        BY <1>3 DEF Checks!TestEnds, Checks!uiVars
    <2>2. [what |-> "test", key |-> 0] \in ChkFrames
        BY DEF ChkFrames
    <2>3. ChkPad' /\ ChkInStep'
        BY <1>0, <2>1 DEF ChkPad, ChkInStep
    <2>. QED BY <1>0, <2>1, <2>2, <2>3 DEF ChkIInv, ChkDaemon, ChkWindow
<1>4. CASE Checks!ScanBegins
    <2>1. /\ scan.id # req.id /\ scan' = [id |-> req.id, exclude |-> req.exclude, on |-> TRUE]
          /\ UNCHANGED <<joined, detecting, testing, formPin, handlers, topad, tohost, req, waiting,
                         found, test, xbounds>>
        BY <1>4 DEF Checks!ScanBegins, Checks!uiVars
    <2>2. ChkPad' /\ ChkInStep'
        BY <1>0, <2>1 DEF ChkPad, ChkInStep
    <2>. QED BY <1>0, <2>1, <2>2 DEF ChkIInv, ChkDaemon, ChkWindow
<1>5. CASE Checks!PollDetect
    <2>1. /\ ~test /\ waiting.id # 0 /\ found.id = waiting.id
          /\ tohost' = Append(tohost, [what |-> "detect", key |-> waiting.key, pin |-> found.pin,
                                       of |-> waiting.id, by |-> found.id])
          /\ waiting' = [waiting EXCEPT !.id = 0]
          /\ UNCHANGED <<joined, detecting, testing, formPin, handlers, topad, req, scan, found, test, xbounds>>
        BY <1>5 DEF Checks!PollDetect, Checks!uiVars, Checks!Found
    <2>2. [what |-> "detect", key |-> waiting.key, pin |-> found.pin,
           of |-> waiting.id, by |-> found.id] \in ChkFrames
        BY <1>0, <2>1 DEF ChkPad, ChkFrames
    <2>3. waiting' \in [id : Nat, key : {0, 1, 2}] /\ waiting'.id = 0
        BY <1>0, <2>1 DEF ChkPad
    <2>4. ChkPad' /\ ChkInStep'
        BY <1>0, <2>1, <2>3 DEF ChkPad, ChkInStep
    <2>. QED BY <1>0, <2>1, <2>2, <2>4 DEF ChkIInv, ChkDaemon, ChkWindow
<1>6. ASSUME NEW pin \in Pins \cup {0}, Checks!ScanEnds(pin) PROVE ChkIInv'
    <2>1. /\ scan.on /\ scan.id = req.id /\ scan' = [scan EXCEPT !.on = FALSE]
          /\ found' = [id |-> scan.id, pin |-> pin]
          /\ UNCHANGED <<joined, detecting, testing, formPin, handlers, topad, tohost, req, waiting,
                         test, xbounds>>
        BY <1>6 DEF Checks!ScanEnds, Checks!uiVars
    <2>2. scan' \in [id : Nat, exclude : ChkPins, on : BOOLEAN] /\ scan'.id = scan.id /\ ~scan'.on
        BY <1>0, <2>1 DEF ChkPad
    <2>3. ChkPad' /\ ChkInStep'
        BY <1>0, <2>1, <2>2 DEF ChkPad, ChkInStep, ChkPins
    <2>. QED BY <1>0, <2>1, <2>3 DEF ChkIInv, ChkDaemon, ChkWindow
<1>. QED BY <1>1, <1>2, <1>3, <1>4, <1>5, <1>6

LEMMA ChkBecomes ==
    ASSUME ChkDaemon, NEW c \in handlers, NEW st \in {"asked", "waits", "done"}, NEW pin \in ChkPins
    PROVE  Checks!Becomes(c, st, pin) \subseteq ChkCalls
<1> DEFINE r == [c EXCEPT !.st = st, !.pin = pin]
<1>1. c \in ChkCalls
    BY DEF ChkDaemon
<1>2. r \in ChkCalls
    BY <1>1 DEF ChkCalls
<1>. HIDE DEF r
<1>3. Checks!Becomes(c, st, pin) = (handlers \ {c}) \cup {r}
    BY DEF Checks!Becomes, r
<1>. QED BY <1>2, <1>3 DEF ChkDaemon

LEMMA ChkAsks ==
    ASSUME ChkDaemon, NEW what \in {"detect", "test"}, NEW key \in {0, 1, 2}, NEW exclude \in ChkPins,
           what = "detect" => key \in {1, 2}, Checks!Asks(what, key, exclude)
    PROVE  handlers' \subseteq ChkCalls
<1> DEFINE r == [what |-> what, key |-> key, exclude |-> exclude, st |-> "asked", pin |-> 0, n |-> xbounds]
<1>1. r \in ChkCalls
    BY DEF ChkCalls, ChkPins, ChkDaemon
<1>. HIDE DEF r
<1>2. handlers' = handlers \cup {r}
    BY DEF Checks!Asks, r
<1>. QED BY <1>1, <1>2 DEF ChkDaemon

LEMMA ChkUses ==
    ASSUME ChkDaemon, NEW what \in {"detects", "tests", "cancels", "drops"}, Checks!Uses(what)
    PROVE  xbounds' \in ChkBudgets
BY DEF ChkDaemon, Checks!Uses, ChkBudgets

\* The daemon's handlers, and the link
LEMMA ChkDaemonStep ==
    ASSUME ChkIInv,
           \/ \E c \in handlers : Checks!Sends(c)
           \/ \E c \in handlers : Checks!TimesOut(c)
           \/ Checks!FrameArrives \/ Checks!LinkLost \/ Checks!LinkBack
    PROVE  ChkIInv'
<1>0. ChkDaemon /\ ChkWindow /\ ChkPad /\ ChkInStep /\ 0 \in ChkPins
    BY DEF ChkIInv, ChkPins
<1>1. ASSUME NEW c \in handlers, Checks!Sends(c) PROVE ChkIInv'
    <2>1. /\ \/ handlers' = Checks!Becomes(c, "waits", 0) /\ topad' = Append(topad, c)
             \/ handlers' = Checks!Becomes(c, "done", 0) /\ topad' = topad
          /\ UNCHANGED <<joined, detecting, testing, formPin, tohost, req, waiting, scan, found, test, xbounds>>
        BY <1>1 DEF Checks!Sends, Checks!uiVars, Checks!padVars
    <2>2. handlers' \subseteq ChkCalls
        BY <1>0, <2>1, ChkBecomes
    <2>3. topad' \in Seq(ChkCalls)
        BY <1>0, <2>1 DEF ChkDaemon
    <2>. QED BY <1>0, <2>1, <2>2, <2>3 DEF ChkIInv, ChkDaemon, ChkWindow, ChkPad, ChkInStep
<1>2. ASSUME NEW c \in handlers, Checks!TimesOut(c) PROVE ChkIInv'
    <2>1. /\ handlers' = Checks!Becomes(c, "done", 0)
          /\ UNCHANGED <<joined, detecting, testing, formPin, topad, tohost, req, waiting, scan, found,
                         test, xbounds>>
        BY <1>2 DEF Checks!TimesOut, Checks!uiVars, Checks!padVars
    <2>2. handlers' \subseteq ChkCalls
        BY <1>0, <2>1, ChkBecomes
    <2>. QED BY <1>0, <2>1, <2>2 DEF ChkIInv, ChkDaemon, ChkWindow, ChkPad, ChkInStep
<1>3. CASE Checks!FrameArrives
    <2> DEFINE frame == Head(tohost)
               pin == IF frame.what = "test" THEN 0 ELSE frame.pin
    <2>1. /\ tohost # <<>> /\ tohost' = Tail(tohost)
          /\ handlers' = {IF Checks!Answers(frame, c) THEN [c EXCEPT !.st = "done", !.pin = pin] ELSE c
                          : c \in handlers}
          /\ UNCHANGED <<joined, detecting, testing, formPin, topad, req, waiting, scan, found, test, xbounds>>
        BY <1>3 DEF Checks!FrameArrives, Checks!uiVars, Checks!padVars
    <2>2. frame \in ChkFrames /\ Tail(tohost) \in Seq(ChkFrames)
        <3>1. tohost # <<>> /\ tohost \in Seq(ChkFrames)
            BY <1>0, <2>1 DEF ChkDaemon
        <3>. QED BY <3>1
    <2>3. pin \in ChkPins
        BY <1>0, <2>2 DEF ChkFrames
    <2>. HIDE DEF frame, pin
    <2>4. ASSUME NEW c \in handlers PROVE [c EXCEPT !.st = "done", !.pin = pin] \in ChkCalls
        <3>1. c \in ChkCalls
            BY <1>0 DEF ChkDaemon
        <3>. QED BY <2>3, <3>1 DEF ChkCalls
    <2>5. handlers' \subseteq ChkCalls
        BY <1>0, <2>1, <2>4 DEF ChkDaemon
    <2>. QED BY <1>0, <2>1, <2>2, <2>5 DEF ChkIInv, ChkDaemon, ChkWindow, ChkPad, ChkInStep
<1>4. CASE Checks!LinkLost
    <2>1. /\ Checks!Uses("drops") /\ joined' = FALSE /\ topad' = <<>> /\ tohost' = <<>>
          /\ UNCHANGED <<detecting, testing, formPin, handlers>>
        BY <1>4 DEF Checks!LinkLost, Checks!uiVars
    <2>2. ChkPad' /\ ChkInStep'
        <3>1. CASE UNCHANGED <<req, waiting, scan, found, test>>
            BY <1>0, <3>1 DEF ChkPad, ChkInStep
        <3>2. CASE /\ req' = Checks!OffPad.req /\ scan' = Checks!OffPad.scan /\ test' = FALSE
                   /\ waiting' = Checks!OffPad.waiting /\ found' = Checks!OffPad.found
            BY <3>2, ChkPadOff
        <3>. QED BY <1>4, <3>1, <3>2 DEF Checks!LinkLost, Checks!padVars
    <2>3. xbounds' \in ChkBudgets
        BY <1>0, <2>1, ChkUses
    <2>4. ChkDaemon'
        <3>1. topad' \in Seq(ChkCalls) /\ tohost' \in Seq(ChkFrames)
            BY <2>1
        <3>2. joined' \in BOOLEAN /\ handlers' \subseteq ChkCalls
            BY <1>0, <2>1 DEF ChkDaemon
        <3>. QED BY <2>3, <3>1, <3>2 DEF ChkDaemon
    <2>. QED BY <1>0, <2>1, <2>2, <2>4 DEF ChkIInv, ChkWindow
<1>5. CASE Checks!LinkBack
    BY <1>0, <1>5
    DEF Checks!LinkBack, Checks!uiVars, Checks!padVars, ChkIInv, ChkDaemon, ChkWindow, ChkPad, ChkInStep
<1>. QED BY <1>1, <1>2, <1>3, <1>4, <1>5

LEMMA ChkWindowStep ==
    ASSUME ChkIInv,
           \/ Checks!CancelDetectPin \/ Checks!RunBoardTest \/ Checks!UseCarrierKeyPins
           \/ \E k \in Checks!Keys : Checks!StartDetectPin(k)
           \/ \E c \in handlers : Checks!PinDetected(c)
           \/ \E c \in handlers : Checks!BoardTestDone(c)
    PROVE  ChkIInv'
<1>0. ChkDaemon /\ ChkWindow /\ ChkPad /\ ChkInStep /\ 0 \in ChkPins /\ Pins \subseteq ChkPins
    BY DEF ChkIInv, ChkPins
<1>1. CASE Checks!CancelDetectPin
    <2>1. /\ Checks!Uses("cancels") /\ detecting' = None
          /\ UNCHANGED <<joined, testing, formPin, handlers, topad, tohost, req, waiting, scan, found, test>>
        BY <1>1 DEF Checks!CancelDetectPin, Checks!padVars
    <2>2. xbounds' \in ChkBudgets
        BY <1>0, <2>1, ChkUses
    <2>. QED BY <1>0, <2>1, <2>2 DEF ChkIInv, ChkDaemon, ChkWindow, ChkPad, ChkInStep
<1>2. CASE Checks!RunBoardTest \/ Checks!UseCarrierKeyPins
    <2>1. /\ Checks!Uses("tests") /\ testing' = TRUE /\ Checks!Asks("test", 0, 0)
          /\ formPin' = formPin \/ formPin' = <<10, 7>>
          /\ UNCHANGED <<joined, detecting, topad, tohost, req, waiting, scan, found, test>>
        BY <1>2 DEF Checks!RunBoardTest, Checks!UseCarrierKeyPins, Checks!Tests, Checks!padVars, Checks!CarrierPin
    <2>2. xbounds' \in ChkBudgets
        BY <1>0, <2>1, ChkUses
    <2>3. handlers' \subseteq ChkCalls
        BY <1>0, <2>1, ChkAsks
    <2>4. formPin' \in [{1, 2} -> Pins]
        BY <1>0, <2>1, ChkConstants DEF ChkWindow
    <2>. QED BY <1>0, <2>1, <2>2, <2>3, <2>4 DEF ChkIInv, ChkDaemon, ChkWindow, ChkPad, ChkInStep
<1>3. ASSUME NEW k \in Checks!Keys, Checks!StartDetectPin(k) PROVE ChkIInv'
    <2>1. /\ Checks!Uses("detects") /\ detecting' = k /\ Checks!Asks("detect", k, formPin[3 - k])
          /\ UNCHANGED <<joined, testing, formPin, topad, tohost, req, waiting, scan, found, test>>
          /\ k \in {1, 2}
        BY <1>3 DEF Checks!StartDetectPin, Checks!padVars, Checks!Keys
    <2>2. xbounds' \in ChkBudgets
        BY <1>0, <2>1, ChkUses
    <2>3. formPin[3 - k] \in ChkPins
        <3>1. 3 - k \in {1, 2}
            BY <2>1
        <3>. QED BY <1>0, <3>1 DEF ChkWindow
    <2>4. handlers' \subseteq ChkCalls
        BY <1>0, <2>1, <2>3, ChkAsks
    <2>. QED BY <1>0, <2>1, <2>2, <2>4 DEF ChkIInv, ChkDaemon, ChkWindow, ChkPad, ChkInStep
<1>4. ASSUME NEW c \in handlers, Checks!PinDetected(c) PROVE ChkIInv'
    <2>1. /\ c.what = "detect" /\ handlers' = handlers \ {c} /\ detecting' = None
          /\ formPin' = IF c.pin = 0 THEN formPin ELSE [formPin EXCEPT ![c.key] = c.pin]
          /\ UNCHANGED <<joined, testing, topad, tohost, req, waiting, scan, found, test, xbounds>>
        BY <1>4 DEF Checks!PinDetected, Checks!padVars
    <2>2. c.pin \in Pins \cup {0} /\ c.key \in {1, 2}
        BY <1>0, <2>1 DEF ChkDaemon, ChkCalls, ChkPins
    <2>3. formPin' \in [{1, 2} -> Pins]
        BY <1>0, <2>1, <2>2 DEF ChkWindow
    <2>. QED BY <1>0, <2>1, <2>3 DEF ChkIInv, ChkDaemon, ChkWindow, ChkPad, ChkInStep
<1>5. ASSUME NEW c \in handlers, Checks!BoardTestDone(c) PROVE ChkIInv'
    <2>1. /\ handlers' = handlers \ {c} /\ testing' = FALSE
          /\ UNCHANGED <<joined, detecting, formPin, topad, tohost, req, waiting, scan, found, test, xbounds>>
        BY <1>5 DEF Checks!BoardTestDone, Checks!padVars
    <2>. QED BY <1>0, <2>1 DEF ChkIInv, ChkDaemon, ChkWindow, ChkPad, ChkInStep
<1>. QED BY <1>1, <1>2, <1>3, <1>4, <1>5

LEMMA ChecksStep ==
    ASSUME ChkIInv, [Checks!ChecksNext]_xvars
    PROVE  ChkIInv'
<1>1. CASE UNCHANGED xvars
    BY <1>1 DEF xvars, ChkIInv, ChkDaemon, ChkWindow, ChkPad, ChkInStep
<1>2. CASE Checks!ChecksNext
    BY <1>2, ChkTasksStep, ChkDaemonStep, ChkWindowStep DEF Checks!ChecksNext
<1>. QED BY <1>1, <1>2

LEMMA ChecksHold ==
    ASSUME ChkIInv
    PROVE  Checks!AnswersItsOwn /\ Checks!NoTestDuringScan /\ Checks!ChecksTypeOK
<1>1. Checks!AnswersItsOwn
    <2>1. ASSUME NEW i \in DOMAIN tohost, tohost[i].what = "detect" PROVE tohost[i].by = tohost[i].of
        <3>1. tohost[i] \in ChkFrames
            BY DEF ChkIInv, ChkDaemon
        <3>. QED BY <2>1, <3>1 DEF ChkFrames
    <2>. QED BY <2>1 DEF Checks!AnswersItsOwn
<1>2. Checks!NoTestDuringScan
    BY DEF ChkIInv, ChkInStep, Checks!NoTestDuringScan
<1>3. Checks!ChecksTypeOK
    <2>1. \A c \in handlers : c.st \in {"asked", "waits", "done"}
        BY DEF ChkIInv, ChkDaemon, ChkCalls
    <2>2. waiting.id <= req.id
        BY DEF ChkIInv, ChkInStep, ChkPad
    <2>. QED BY <2>1, <2>2 DEF ChkIInv, ChkInStep, ChkPad, ChkDaemon, ChkWindow, Checks!ChecksTypeOK, Checks!Keys
<1>. QED BY <1>1, <1>2, <1>3

-----------------------------------------------------------------------------
(* The switch tester *)

TstTimes == Nat \cup {None}
TstKeys == [down : BOOLEAN, presses : Nat, chatter : Nat, flutter : Nat,
            shortest : TstTimes, pressed : TstTimes, released : TstTimes]
TstInputs == [k : [{1, 2} -> TstKeys], chords : Nat]
TstChanges == [key : {1, 2}, down : BOOLEAN, at : Nat]

LEMMA TstConstants ==
    /\ Bounce \in Nat /\ Wobble \in Nat /\ Chord \in Nat
    /\ None \notin Nat /\ None \notin BOOLEAN
    /\ \A b \in TesterBudgets :
          b \in [edges : Nat, ticks : Nat, breaks : Nat, resets : Nat, evdev : BOOLEAN, focus : BOOLEAN]
BY TesterAssumption DEF Tester!TesterConstants

\* What a change does to the key it is of
TstAfter(own, e, new) ==
    /\ new \in TstKeys
    /\ e.down /\ ~own.down =>
          /\ new.down /\ new.presses = own.presses + 1
          /\ new.chatter = IF own.released # None /\ Tester!Since(e.at, own.released) < Bounce
                             THEN own.chatter + 1 ELSE own.chatter
          /\ new.chatter + new.flutter <= own.chatter + own.flutter + 1
    /\ ~e.down /\ own.down =>
          /\ ~new.down /\ new.released = e.at /\ new.presses = own.presses
          /\ new.chatter = own.chatter /\ new.flutter = own.flutter
    /\ (e.down <=> own.down) => new = own

LEMMA TstPressed ==
    ASSUME NEW own \in TstKeys, NEW now \in Nat, NEW gap \in Nat
    PROVE  /\ LET new == Tester!PressedFirst(own, now)
              IN  /\ new \in TstKeys /\ new.down /\ new.presses = own.presses + 1
                  /\ new.chatter = own.chatter /\ new.flutter = own.flutter
           /\ LET new == Tester!PressedAgain(own, gap, now)
              IN  /\ new \in TstKeys /\ new.down /\ new.presses = own.presses + 1
                  /\ new.chatter = IF gap < Bounce THEN own.chatter + 1 ELSE own.chatter
                  /\ new.chatter + new.flutter <= own.chatter + own.flutter + 1
<1>1. Tester!Shorter(own.shortest, gap) \in TstTimes
    BY DEF Tester!Shorter, TstTimes, TstKeys
<1> DEFINE s == Tester!Shorter(own.shortest, gap)
           c == IF gap < Bounce THEN own.chatter + 1 ELSE own.chatter
           f == IF gap >= Bounce /\ gap <= Wobble THEN own.flutter + 1 ELSE own.flutter
           p == own.presses + 1
<1>2. /\ s \in TstTimes /\ c \in Nat /\ f \in Nat /\ c + f <= own.chatter + own.flutter + 1
      /\ p \in Nat /\ now \in TstTimes
    BY <1>1, TstConstants DEF TstKeys, TstTimes
<1>3. /\ Tester!PressedAgain(own, gap, now) =
          [own EXCEPT !.down = TRUE, !.presses = p, !.pressed = now,
                      !.shortest = s, !.chatter = c, !.flutter = f]
      /\ Tester!PressedFirst(own, now) = [own EXCEPT !.down = TRUE, !.presses = p, !.pressed = now]
    BY DEF Tester!PressedAgain, Tester!PressedFirst
<1>. HIDE DEF s, c, f, p
<1>4. LET new == [own EXCEPT !.down = TRUE, !.presses = p, !.pressed = now]
      IN  /\ new \in TstKeys /\ new.down /\ new.presses = p
          /\ new.chatter = own.chatter /\ new.flutter = own.flutter
    BY <1>2 DEF TstKeys
<1>5. LET new == [own EXCEPT !.down = TRUE, !.presses = p, !.pressed = now,
                             !.shortest = s, !.chatter = c, !.flutter = f]
      IN  /\ new \in TstKeys /\ new.down /\ new.presses = p
          /\ new.chatter = c /\ new.flutter = f
    BY <1>2 DEF TstKeys
<1>. QED BY <1>2, <1>3, <1>4, <1>5 DEF c, p

LEMMA TstCounted ==
    ASSUME NEW t \in TstInputs, NEW e \in TstChanges
    PROVE  /\ Tester!Counted(t, e) \in TstInputs
           /\ TstAfter(t.k[e.key], e, Tester!Counted(t, e).k[e.key])
           /\ \A k \in {1, 2} \ {e.key} : Tester!Counted(t, e).k[k] = t.k[k]
<1> DEFINE own == t.k[e.key]
           other == t.k[3 - e.key]
           counted == IF own.released = None THEN Tester!PressedFirst(own, e.at)
                      ELSE Tester!PressedAgain(own, Tester!Since(e.at, own.released), e.at)
           chords == IF Tester!IsChord(other, e.at) THEN t.chords + 1 ELSE t.chords
<1>1. /\ e.key \in {1, 2} /\ e.down \in BOOLEAN /\ e.at \in Nat /\ t.k \in [{1, 2} -> TstKeys]
      /\ t.chords \in Nat
    BY DEF TstChanges, TstInputs
<1>2. own \in TstKeys /\ own.down \in BOOLEAN /\ own.chatter \in Nat /\ own.flutter \in Nat
    BY <1>1 DEF TstKeys
<1>3. own.released # None => Tester!Since(e.at, own.released) \in Nat
    BY <1>1, <1>2 DEF TstKeys, TstTimes, Tester!Since
<1>4. /\ counted \in TstKeys /\ counted.down /\ counted.presses = own.presses + 1
      /\ counted.chatter = IF own.released # None /\ Tester!Since(e.at, own.released) < Bounce
                             THEN own.chatter + 1 ELSE own.chatter
      /\ counted.chatter + counted.flutter <= own.chatter + own.flutter + 1
    <2>1. CASE own.released = None
        <3>1. counted = Tester!PressedFirst(own, e.at)
            BY <2>1
        <3>. HIDE DEF own, counted
        <3>2. /\ counted \in TstKeys /\ counted.down /\ counted.presses = own.presses + 1
              /\ counted.chatter = own.chatter /\ counted.flutter = own.flutter
            BY <1>1, <1>2, <3>1, TstPressed
        <3>. QED BY <1>2, <2>1, <3>2
    <2>2. CASE own.released # None
        <3> DEFINE gap == Tester!Since(e.at, own.released)
                   again == Tester!PressedAgain(own, gap, e.at)
        <3>1. counted = again /\ gap \in Nat
            BY <1>3, <2>2
        <3>2. /\ again \in TstKeys /\ again.down /\ again.presses = own.presses + 1
              /\ again.chatter = IF gap < Bounce THEN own.chatter + 1 ELSE own.chatter
              /\ again.chatter + again.flutter <= own.chatter + own.flutter + 1
            <4>. HIDE DEF own, gap
            <4>. QED BY <1>1, <1>2, <3>1, TstPressed
        <3>3. own.released # None /\ gap = Tester!Since(e.at, own.released)
            BY <2>2
        <3>. HIDE DEF own, counted, again, gap
        <3>. QED BY <3>1, <3>2, <3>3
    <2>. QED BY <2>1, <2>2
<1>5. chords \in Nat
    BY <1>1
<1>. HIDE DEF counted, chords
<1>6. CASE e.down /\ ~own.down
    <2>1. Tester!Counted(t, e) = [k |-> [t.k EXCEPT ![e.key] = counted], chords |-> chords]
        BY <1>6 DEF Tester!Counted, counted, chords
    <2>2. [t.k EXCEPT ![e.key] = counted] \in [{1, 2} -> TstKeys]
        BY <1>1, <1>4
    <2>3. Tester!Counted(t, e) \in TstInputs
        BY <1>5, <2>1, <2>2 DEF TstInputs
    <2>4. /\ Tester!Counted(t, e).k[e.key] = counted
          /\ \A k \in {1, 2} \ {e.key} : Tester!Counted(t, e).k[k] = t.k[k]
        BY <1>1, <2>1
    <2>5. TstAfter(own, e, counted)
        BY <1>4, <1>6 DEF TstAfter
    <2>. QED BY <2>3, <2>4, <2>5
<1>7. CASE ~e.down /\ own.down
    <2> DEFINE new == [own EXCEPT !.down = FALSE, !.released = e.at]
    <2>1. /\ new \in TstKeys /\ ~new.down /\ new.released = e.at /\ new.presses = own.presses
          /\ new.chatter = own.chatter /\ new.flutter = own.flutter
        BY <1>1, <1>2 DEF TstKeys, TstTimes
    <2>2. Tester!Counted(t, e) = [t EXCEPT !.k[e.key].down = FALSE, !.k[e.key].released = e.at]
        BY <1>1, <1>7 DEF Tester!Counted
    <2>3. Tester!Counted(t, e) = [t EXCEPT !.k = [t.k EXCEPT ![e.key] = new]]
        BY <1>1, <1>2, <2>2 DEF TstInputs, TstKeys
    <2>. HIDE DEF new
    <2>4. [t.k EXCEPT ![e.key] = new] \in [{1, 2} -> TstKeys]
        BY <1>1, <2>1
    <2>5. Tester!Counted(t, e) \in TstInputs
        BY <2>3, <2>4 DEF TstInputs
    <2>6. /\ Tester!Counted(t, e).k[e.key] = new
          /\ \A k \in {1, 2} \ {e.key} : Tester!Counted(t, e).k[k] = t.k[k]
        BY <1>1, <2>3 DEF TstInputs
    <2>7. TstAfter(own, e, new)
        BY <1>7, <2>1 DEF TstAfter
    <2>. QED BY <2>5, <2>6, <2>7
<1>8. CASE e.down <=> own.down
    <2>1. Tester!Counted(t, e) = t
        BY <1>1, <1>2, <1>8 DEF Tester!Counted
    <2>2. TstAfter(own, e, own)
        BY <1>1, <1>2, <1>8 DEF TstAfter
    <2>. QED BY <2>1, <2>2
<1>. QED BY <1>1, <1>2, <1>6, <1>7, <1>8

\* What the changes of a sequence say of a key after the first n of them
TstPress(E, k, i) == E[i].key = k /\ E[i].down
TstNone(E, k, a, b) == \A l \in a .. b : E[l].key # k
TstEndsPressed(E, k, n) == \E i \in 1 .. n : TstPress(E, k, i) /\ TstNone(E, k, i + 1, n)
TstRelease(E, k, j) ==
    /\ E[j].key = k /\ ~E[j].down
    /\ \E p \in 1 .. (j - 1) : TstPress(E, k, p) /\ TstNone(E, k, p + 1, j - 1)
TstUntouched(E, k, a, b) == \A l \in a .. b : ~TstPress(E, k, l)
TstBounce(E, k, i) ==
    /\ TstPress(E, k, i)
    /\ \E j \in 1 .. (i - 1) : /\ TstRelease(E, k, j) /\ TstUntouched(E, k, j + 1, i - 1)
                               /\ E[i].at - E[j].at < Bounce
TstPresses(E, k, n) == {i \in 1 .. n : TstPress(E, k, i)}
TstBounces(E, k, n) == {i \in 1 .. n : TstBounce(E, k, i)}

\* A key is not pressed twice without a release between
TstAlternates(E) ==
    \A k \in {1, 2} : \A i, j \in 1 .. Len(E) :
        i < j /\ TstPress(E, k, i) /\ TstPress(E, k, j) => ~TstNone(E, k, i + 1, j - 1)
TstInOrder(E) == \A i, j \in 1 .. Len(E) : i <= j => E[i].at <= E[j].at

\* The tester's record of a key that has been told the first n changes
TstKnows(E, k, n, own) ==
    /\ own.down <=> TstEndsPressed(E, k, n)
    /\ own.presses = Cardinality(TstPresses(E, k, n))
    /\ own.chatter = Cardinality(TstBounces(E, k, n))
    /\ ~own.down =>
          IF own.released = None THEN TstUntouched(E, k, 1, n)
          ELSE \E j \in 1 .. n : /\ TstRelease(E, k, j) /\ E[j].at = own.released
                                 /\ TstUntouched(E, k, j + 1, n)

\* Only the first n changes matter
LEMMA TstPrefix ==
    ASSUME NEW E, NEW F, NEW n \in Nat, \A i \in 1 .. n : E[i] = F[i],
           NEW k, NEW own, TstKnows(E, k, n, own)
    PROVE  TstKnows(F, k, n, own)
<1>1. \A i \in 1 .. n : TstPress(E, k, i) <=> TstPress(F, k, i)
    BY DEF TstPress
<1>2. \A a \in Nat, b \in 0 .. n : a >= 1 =>
          /\ TstNone(E, k, a, b) <=> TstNone(F, k, a, b)
          /\ TstUntouched(E, k, a, b) <=> TstUntouched(F, k, a, b)
    <2>. SUFFICES ASSUME NEW a \in Nat, NEW b \in 0 .. n, a >= 1
                  PROVE  /\ TstNone(E, k, a, b) <=> TstNone(F, k, a, b)
                         /\ TstUntouched(E, k, a, b) <=> TstUntouched(F, k, a, b)
        OBVIOUS
    <2>1. \A l \in a .. b : l \in 1 .. n
        OBVIOUS
    <2>. QED BY <1>1, <2>1 DEF TstNone, TstUntouched
<1>3. TstEndsPressed(E, k, n) <=> TstEndsPressed(F, k, n)
    <2>1. \A i \in 1 .. n : i + 1 \in Nat /\ i + 1 >= 1 /\ n \in 0 .. n
        OBVIOUS
    <2>. QED BY <1>1, <1>2, <2>1 DEF TstEndsPressed
<1>4. \A j \in 1 .. n : TstRelease(E, k, j) <=> TstRelease(F, k, j)
    <2>. SUFFICES ASSUME NEW j \in 1 .. n PROVE TstRelease(E, k, j) <=> TstRelease(F, k, j)
        OBVIOUS
    <2>1. \A p \in 1 .. (j - 1) : p \in 1 .. n /\ p + 1 \in Nat /\ p + 1 >= 1 /\ j - 1 \in 0 .. n
        OBVIOUS
    <2>2. \A p \in 1 .. (j - 1) : TstPress(E, k, p) /\ TstNone(E, k, p + 1, j - 1)
                                  <=> TstPress(F, k, p) /\ TstNone(F, k, p + 1, j - 1)
        BY <1>1, <1>2, <2>1
    <2>. QED BY <2>2 DEF TstRelease
<1>5. \A i \in 1 .. n : TstBounce(E, k, i) <=> TstBounce(F, k, i)
    <2>. SUFFICES ASSUME NEW i \in 1 .. n PROVE TstBounce(E, k, i) <=> TstBounce(F, k, i)
        OBVIOUS
    <2>1. \A j \in 1 .. (i - 1) : j \in 1 .. n /\ j + 1 \in Nat /\ j + 1 >= 1 /\ i - 1 \in 0 .. n
        OBVIOUS
    <2>2. \A j \in 1 .. (i - 1) :
              (/\ TstRelease(E, k, j) /\ TstUntouched(E, k, j + 1, i - 1)
               /\ E[i].at - E[j].at < Bounce)
              <=>
              (/\ TstRelease(F, k, j) /\ TstUntouched(F, k, j + 1, i - 1)
               /\ F[i].at - F[j].at < Bounce)
        BY <1>2, <1>4, <2>1
    <2>. QED BY <1>1, <2>2 DEF TstBounce
<1>6. TstPresses(E, k, n) = TstPresses(F, k, n) /\ TstBounces(E, k, n) = TstBounces(F, k, n)
    BY <1>1, <1>5 DEF TstPresses, TstBounces
<1>7. TstUntouched(E, k, 1, n) <=> TstUntouched(F, k, 1, n)
    BY <1>2
<1>8. \A j \in 1 .. n :
          (/\ TstRelease(E, k, j) /\ E[j].at = own.released /\ TstUntouched(E, k, j + 1, n))
          <=> (/\ TstRelease(F, k, j) /\ F[j].at = own.released /\ TstUntouched(F, k, j + 1, n))
    <2>1. \A j \in 1 .. n : j + 1 \in Nat /\ j + 1 >= 1 /\ n \in 0 .. n
        OBVIOUS
    <2>. QED BY <1>2, <1>4, <2>1
<1>. QED BY <1>3, <1>6, <1>7, <1>8 DEF TstKnows

LEMMA TstFinite ==
    ASSUME NEW E, NEW k, NEW n \in Nat
    PROVE  /\ IsFiniteSet(TstPresses(E, k, n)) /\ IsFiniteSet(TstBounces(E, k, n))
           /\ Cardinality(TstPresses(E, k, n)) \in Nat /\ Cardinality(TstBounces(E, k, n)) \in Nat
           /\ Cardinality(TstPresses(E, k, n + 1)) =
                  Cardinality(TstPresses(E, k, n)) + (IF TstPress(E, k, n + 1) THEN 1 ELSE 0)
           /\ Cardinality(TstBounces(E, k, n + 1)) =
                  Cardinality(TstBounces(E, k, n)) + (IF TstBounce(E, k, n + 1) THEN 1 ELSE 0)
<1>1. IsFiniteSet(1 .. n)
    BY FS_Interval
<1>2. TstPresses(E, k, n) \subseteq 1 .. n /\ TstBounces(E, k, n) \subseteq 1 .. n
    BY DEF TstPresses, TstBounces
<1>3. IsFiniteSet(TstPresses(E, k, n)) /\ IsFiniteSet(TstBounces(E, k, n))
    BY <1>1, <1>2, FS_Subset
<1>4. 1 .. (n + 1) = (1 .. n) \cup {n + 1}
    OBVIOUS
<1>5. n + 1 \notin TstPresses(E, k, n) /\ n + 1 \notin TstBounces(E, k, n)
    BY <1>2
<1>6. /\ TstPresses(E, k, n + 1) = IF TstPress(E, k, n + 1) THEN TstPresses(E, k, n) \cup {n + 1}
                                                            ELSE TstPresses(E, k, n)
      /\ TstBounces(E, k, n + 1) = IF TstBounce(E, k, n + 1) THEN TstBounces(E, k, n) \cup {n + 1}
                                                             ELSE TstBounces(E, k, n)
    BY <1>4 DEF TstPresses, TstBounces
<1>7. Cardinality(TstPresses(E, k, n)) \in Nat /\ Cardinality(TstBounces(E, k, n)) \in Nat
    BY <1>3, FS_CardinalityType
<1>8. /\ Cardinality(TstPresses(E, k, n) \cup {n + 1}) = Cardinality(TstPresses(E, k, n)) + 1
      /\ Cardinality(TstBounces(E, k, n) \cup {n + 1}) = Cardinality(TstBounces(E, k, n)) + 1
    BY <1>3, <1>5, FS_AddElement
<1>. QED BY <1>3, <1>6, <1>7, <1>8

\* The next change, told
LEMMA TstTold ==
    ASSUME NEW E \in Seq(TstChanges), TstAlternates(E), TstInOrder(E),
           NEW n \in Nat, n + 1 <= Len(E), NEW k \in {1, 2},
           NEW own \in TstKeys, TstKnows(E, k, n, own),
           NEW new, IF E[n + 1].key = k THEN TstAfter(own, E[n + 1], new) ELSE new = own
    PROVE  TstKnows(E, k, n + 1, new)
<1> DEFINE e == E[n + 1]
<1>0. /\ \A i \in 1 .. (n + 1) : E[i] \in TstChanges /\ E[i].at \in Nat
      /\ e.key \in {1, 2} /\ e.down \in BOOLEAN /\ e.at \in Nat
      /\ own.down \in BOOLEAN /\ own.presses \in Nat /\ own.chatter \in Nat
      /\ own.released \in TstTimes /\ n + 1 \in 1 .. (n + 1) /\ n + 1 \in 1 .. Len(E)
    <2>1. n + 1 \in 1 .. (n + 1) /\ n + 1 \in 1 .. Len(E)
        OBVIOUS
    <2>2. \A i \in 1 .. (n + 1) : i \in 1 .. Len(E)
        OBVIOUS
    <2>3. \A i \in 1 .. (n + 1) : E[i] \in TstChanges
        BY <2>2
    <2>4. \A i \in 1 .. (n + 1) : E[i].at \in Nat
        BY <2>3 DEF TstChanges
    <2>5. e \in TstChanges
        BY <2>1, <2>3
    <2>6. e.key \in {1, 2} /\ e.down \in BOOLEAN /\ e.at \in Nat
        BY <2>5 DEF TstChanges
    <2>7. /\ own.down \in BOOLEAN /\ own.presses \in Nat /\ own.chatter \in Nat
          /\ own.released \in TstTimes
        BY DEF TstKeys
    <2>. QED BY <2>1, <2>3, <2>4, <2>6, <2>7
<1>1. /\ 1 .. (n + 1) = (1 .. n) \cup {n + 1}
      /\ \A i \in 1 .. n : (i + 1) .. (n + 1) = ((i + 1) .. n) \cup {n + 1}
      /\ (n + 2) .. (n + 1) = {}
    OBVIOUS
<1>2. TstEndsPressed(E, k, n + 1) <=>
          \/ TstPress(E, k, n + 1)
          \/ e.key # k /\ TstEndsPressed(E, k, n)
    <2>1. TstNone(E, k, n + 2, n + 1)
        BY <1>1 DEF TstNone
    <2>2. \A i \in 1 .. n : TstNone(E, k, i + 1, n + 1) <=> TstNone(E, k, i + 1, n) /\ e.key # k
        BY <1>1 DEF TstNone
    <2>3. (n + 1) + 1 = n + 2
        OBVIOUS
    <2>4. TstEndsPressed(E, k, n + 1) <=>
              \/ TstPress(E, k, n + 1) /\ TstNone(E, k, n + 2, n + 1)
              \/ \E i \in 1 .. n : TstPress(E, k, i) /\ TstNone(E, k, i + 1, n + 1)
        BY <1>1, <2>3 DEF TstEndsPressed
    <2>. QED BY <2>1, <2>2, <2>4 DEF TstEndsPressed
<1>3. \A a \in 1 .. (n + 1) : TstUntouched(E, k, a, n + 1) <=>
          TstUntouched(E, k, a, n) /\ ~TstPress(E, k, n + 1)
    <2>1. \A a \in 1 .. (n + 1) : a .. (n + 1) = (a .. n) \cup {n + 1}
        OBVIOUS
    <2>. QED BY <2>1 DEF TstUntouched
<1>4. CASE e.key # k
    <2>1. new = own /\ ~TstPress(E, k, n + 1) /\ ~TstBounce(E, k, n + 1)
        BY <1>4 DEF TstPress, TstBounce
    <2>2. /\ Cardinality(TstPresses(E, k, n + 1)) = Cardinality(TstPresses(E, k, n))
          /\ Cardinality(TstBounces(E, k, n + 1)) = Cardinality(TstBounces(E, k, n))
        BY <2>1, TstFinite
    <2>3. TstUntouched(E, k, 1, n) => TstUntouched(E, k, 1, n + 1)
        BY <1>3, <2>1
    <2>4. \A j \in 1 .. n : TstUntouched(E, k, j + 1, n) => TstUntouched(E, k, j + 1, n + 1)
        <3>1. \A j \in 1 .. n : j + 1 \in 1 .. (n + 1)
            OBVIOUS
        <3>. QED BY <1>3, <2>1, <3>1
    <2>5. \A j \in 1 .. n : j \in 1 .. (n + 1)
        OBVIOUS
    <2>. QED BY <1>2, <1>4, <2>1, <2>2, <2>3, <2>4, <2>5 DEF TstKnows
<1>5. CASE e.key = k /\ e.down /\ ~own.down
    <2>1. TstPress(E, k, n + 1) /\ TstAfter(own, e, new)
        BY <1>5 DEF TstPress
    <2>2. /\ new.down /\ new.presses = own.presses + 1
          /\ new.chatter = IF own.released # None /\ Tester!Since(e.at, own.released) < Bounce
                             THEN own.chatter + 1 ELSE own.chatter
        BY <1>5, <2>1 DEF TstAfter
    <2>3. TstBounce(E, k, n + 1) <=> own.released # None /\ Tester!Since(e.at, own.released) < Bounce
        <3>0. (n + 1) - 1 = n
            OBVIOUS
        <3>1. TstBounce(E, k, n + 1) <=>
                  \E j \in 1 .. n : /\ TstRelease(E, k, j) /\ TstUntouched(E, k, j + 1, n)
                                    /\ e.at - E[j].at < Bounce
            BY <2>1, <3>0 DEF TstBounce
        <3>2. CASE own.released = None
            <4>1. TstUntouched(E, k, 1, n)
                BY <1>5, <3>2 DEF TstKnows
            <4>2. \A j \in 1 .. n : ~TstRelease(E, k, j)
                BY <4>1 DEF TstRelease, TstUntouched
            <4>. QED BY <3>1, <3>2, <4>2
        <3>3. CASE own.released # None
            <4>1. PICK j0 \in 1 .. n : /\ TstRelease(E, k, j0) /\ E[j0].at = own.released
                                       /\ TstUntouched(E, k, j0 + 1, n)
                BY <1>5, <3>3 DEF TstKnows
            <4>2. ASSUME NEW j \in 1 .. n, TstRelease(E, k, j), TstUntouched(E, k, j + 1, n)
                  PROVE  j = j0
                <5>1. ASSUME NEW a \in 1 .. n, NEW b \in 1 .. n, a < b, TstRelease(E, k, a),
                             TstRelease(E, k, b), TstUntouched(E, k, a + 1, n)
                      PROVE  FALSE
                    <6>1. PICK p \in 1 .. (b - 1) : TstPress(E, k, p) /\ TstNone(E, k, p + 1, b - 1)
                        BY <5>1 DEF TstRelease
                    <6>2. ~(p > a)
                        BY <5>1, <6>1 DEF TstUntouched
                    <6>3. p # a
                        BY <5>1, <6>1 DEF TstRelease, TstPress
                    <6>4. a \in (p + 1) .. (b - 1)
                        BY <5>1, <6>2, <6>3
                    <6>. QED BY <5>1, <6>1, <6>4 DEF TstNone, TstRelease
                <5>. QED BY <4>1, <4>2, <5>1
            <4>3. E[j0].at \in Nat /\ E[j0].at <= e.at
                BY <1>0 DEF TstInOrder
            <4>4. Tester!Since(e.at, own.released) = e.at - E[j0].at
                BY <1>0, <4>1, <4>3 DEF Tester!Since
            <4>. QED BY <3>1, <3>3, <4>1, <4>2, <4>4
        <3>. QED BY <3>2, <3>3
    <2>4. /\ new.presses = Cardinality(TstPresses(E, k, n + 1))
          /\ new.chatter = Cardinality(TstBounces(E, k, n + 1))
        <3>1. own.presses = Cardinality(TstPresses(E, k, n)) /\ own.chatter = Cardinality(TstBounces(E, k, n))
            BY DEF TstKnows
        <3>2. CASE TstBounce(E, k, n + 1)
            BY <1>0, <2>1, <2>2, <2>3, <3>1, <3>2, TstFinite
        <3>3. CASE ~TstBounce(E, k, n + 1)
            BY <1>0, <2>1, <2>2, <2>3, <3>1, <3>3, TstFinite
        <3>. QED BY <3>2, <3>3
    <2>. QED BY <1>2, <2>1, <2>2, <2>4 DEF TstKnows
<1>6. CASE e.key = k /\ ~e.down /\ own.down
    <2>1. /\ ~new.down /\ new.released = e.at /\ new.presses = own.presses
          /\ new.chatter = own.chatter
        BY <1>6 DEF TstAfter
    <2>2. ~TstPress(E, k, n + 1) /\ ~TstBounce(E, k, n + 1)
        BY <1>6 DEF TstPress, TstBounce
    <2>3. /\ Cardinality(TstPresses(E, k, n + 1)) = Cardinality(TstPresses(E, k, n))
          /\ Cardinality(TstBounces(E, k, n + 1)) = Cardinality(TstBounces(E, k, n))
        BY <2>2, TstFinite
    <2>4. TstRelease(E, k, n + 1)
        <3>1. (n + 1) - 1 = n
            OBVIOUS
        <3>2. TstEndsPressed(E, k, n)
            BY <1>6 DEF TstKnows
        <3>. QED BY <1>6, <3>1, <3>2 DEF TstRelease, TstEndsPressed
    <2>5. TstUntouched(E, k, (n + 1) + 1, n + 1)
        BY DEF TstUntouched
    <2>6. ~TstEndsPressed(E, k, n + 1)
        BY <1>2, <1>6, <2>2
    <2>7. \E j \in 1 .. (n + 1) : /\ TstRelease(E, k, j) /\ E[j].at = new.released
                                  /\ TstUntouched(E, k, j + 1, n + 1)
        BY <1>0, <2>1, <2>4, <2>5
    <2>8. new.released # None
        BY <1>0, <2>1, TstConstants
    <2>. QED BY <2>1, <2>3, <2>6, <2>7, <2>8 DEF TstKnows
<1>7. CASE e.key = k /\ ~e.down /\ ~own.down
    <2>1. new = own
        BY <1>7 DEF TstAfter
    <2>2. ~TstPress(E, k, n + 1) /\ ~TstBounce(E, k, n + 1)
        BY <1>7 DEF TstPress, TstBounce
    <2>3. /\ Cardinality(TstPresses(E, k, n + 1)) = Cardinality(TstPresses(E, k, n))
          /\ Cardinality(TstBounces(E, k, n + 1)) = Cardinality(TstBounces(E, k, n))
        BY <2>2, TstFinite
    <2>4. ~TstEndsPressed(E, k, n + 1)
        BY <1>2, <1>7, <2>2
    <2>5. TstUntouched(E, k, 1, n) => TstUntouched(E, k, 1, n + 1)
        BY <1>3, <2>2
    <2>6. \A j \in 1 .. n : TstUntouched(E, k, j + 1, n) => TstUntouched(E, k, j + 1, n + 1)
        <3>1. \A j \in 1 .. n : j + 1 \in 1 .. (n + 1)
            OBVIOUS
        <3>. QED BY <1>3, <2>2, <3>1
    <2>7. \A j \in 1 .. n : j \in 1 .. (n + 1)
        OBVIOUS
    <2>. QED BY <1>7, <2>1, <2>3, <2>4, <2>5, <2>6, <2>7 DEF TstKnows
<1>8. ~(e.key = k /\ e.down /\ own.down)
    <2>. SUFFICES ASSUME e.key = k, e.down, own.down PROVE FALSE
        OBVIOUS
    <2>1. PICK i \in 1 .. n : TstPress(E, k, i) /\ TstNone(E, k, i + 1, n)
        BY DEF TstKnows, TstEndsPressed
    <2>2. i < n + 1 /\ i \in 1 .. Len(E) /\ (n + 1) - 1 = n
        OBVIOUS
    <2>. QED BY <1>0, <2>1, <2>2 DEF TstAlternates, TstPress
<1>. QED BY <1>0, <1>4, <1>5, <1>6, <1>7, <1>8

\* One more change at the end
LEMMA TstLonger ==
    ASSUME NEW E \in Seq(TstChanges), NEW e \in TstChanges, TstAlternates(E), TstInOrder(E),
           \A i \in 1 .. Len(E) : E[i].at <= e.at,
           e.down => ~TstEndsPressed(E, e.key, Len(E))
    PROVE  LET F == Append(E, e)
           IN  /\ F \in Seq(TstChanges) /\ TstAlternates(F) /\ TstInOrder(F)
               /\ \A i \in 1 .. Len(F) : F[i].at <= e.at
               /\ \A k \in {1, 2} : TstEndsPressed(F, k, Len(F)) <=>
                      IF e.key = k THEN e.down ELSE TstEndsPressed(E, k, Len(E))
<1> DEFINE F == Append(E, e)
           n == Len(E)
<1>1. /\ F \in Seq(TstChanges) /\ Len(F) = n + 1 /\ n \in Nat /\ F[n + 1] = e
      /\ \A i \in 1 .. n : F[i] = E[i] /\ E[i] \in TstChanges
      /\ 1 .. (n + 1) = (1 .. n) \cup {n + 1} /\ n + 1 \notin 1 .. n
    OBVIOUS
<1>2. e.at \in Nat /\ \A i \in 1 .. n : E[i].at \in Nat
    BY <1>1 DEF TstChanges
<1>. HIDE DEF F, n
<1>3. \A k : \A i \in 1 .. n : TstPress(F, k, i) <=> TstPress(E, k, i)
    BY <1>1 DEF TstPress
<1>4. \A k : \A a \in 1 .. (n + 1), b \in 0 .. n : TstNone(F, k, a, b) <=> TstNone(E, k, a, b)
    <2>. SUFFICES ASSUME NEW k, NEW a \in 1 .. (n + 1), NEW b \in 0 .. n
                  PROVE  TstNone(F, k, a, b) <=> TstNone(E, k, a, b)
        OBVIOUS
    <2>1. \A l \in a .. b : l \in 1 .. n
        BY <1>1
    <2>. QED BY <1>1, <2>1 DEF TstNone
<1>5. \A i \in 1 .. n : i + 1 \in 1 .. (n + 1) /\ n \in 0 .. n /\ (n + 1) - 1 = n /\ i - 1 \in 0 .. n
                        /\ i < n + 1
    BY <1>1
<1>6. TstAlternates(F)
    <2>. SUFFICES ASSUME NEW k \in {1, 2}, NEW i \in 1 .. (n + 1), NEW j \in 1 .. (n + 1), i < j,
                         TstPress(F, k, i), TstPress(F, k, j), TstNone(F, k, i + 1, j - 1)
                  PROVE  FALSE
        BY <1>1 DEF TstAlternates
    <2>1. i \in 1 .. n
        BY <1>1
    <2>2. CASE j \in 1 .. n
        <3>1. TstNone(E, k, i + 1, j - 1)
            BY <1>4, <1>5, <2>1, <2>2
        <3>. QED BY <1>3, <2>1, <2>2, <3>1 DEF TstAlternates, n
    <2>3. CASE j = n + 1
        <3>1. TstNone(E, k, i + 1, n) /\ TstPress(E, k, i)
            BY <1>3, <1>4, <1>5, <2>1, <2>3
        <3>2. e.key = k /\ e.down
            BY <1>1, <2>3 DEF TstPress
        <3>. QED BY <2>1, <3>1, <3>2 DEF TstEndsPressed, n
    <2>. QED BY <1>1, <2>2, <2>3
<1>7. TstInOrder(F) /\ \A i \in 1 .. Len(F) : F[i].at <= e.at
    <2>1. \A i \in 1 .. Len(F) : F[i].at <= e.at
        BY <1>1, <1>2 DEF n
    <2>2. ASSUME NEW i \in 1 .. (n + 1), NEW j \in 1 .. (n + 1), i <= j PROVE F[i].at <= F[j].at
        <3>1. CASE j = n + 1
            BY <1>1, <2>1, <3>1
        <3>2. CASE j \in 1 .. n
            <4>1. i \in 1 .. n
                BY <1>1, <2>2, <3>2
            <4>. QED BY <1>1, <2>2, <3>2, <4>1 DEF TstInOrder, n
        <3>. QED BY <1>1, <3>1, <3>2
    <2>. QED BY <1>1, <2>1, <2>2 DEF TstInOrder
<1>8. ASSUME NEW k \in {1, 2}
      PROVE  TstEndsPressed(F, k, n + 1) <=> IF e.key = k THEN e.down ELSE TstEndsPressed(E, k, n)
    <2>1. TstNone(F, k, n + 2, n + 1)
        BY <1>1 DEF TstNone
    <2>2. (n + 1) + 1 = n + 2
        BY <1>1
    <2>3. \A i \in 1 .. n : (i + 1) .. (n + 1) = ((i + 1) .. n) \cup {n + 1}
        BY <1>1
    <2>4. \A i \in 1 .. n : TstNone(F, k, i + 1, n + 1) <=> TstNone(F, k, i + 1, n) /\ e.key # k
        BY <1>1, <2>3 DEF TstNone
    <2>5. TstEndsPressed(F, k, n + 1) <=>
              \/ TstPress(F, k, n + 1)
              \/ \E i \in 1 .. n : TstPress(F, k, i) /\ TstNone(F, k, i + 1, n) /\ e.key # k
        BY <1>1, <2>1, <2>2, <2>4 DEF TstEndsPressed
    <2>6. \A i \in 1 .. n : TstPress(F, k, i) /\ TstNone(F, k, i + 1, n)
                            <=> TstPress(E, k, i) /\ TstNone(E, k, i + 1, n)
        BY <1>3, <1>4, <1>5
    <2>7. TstPress(F, k, n + 1) <=> e.key = k /\ e.down
        BY <1>1 DEF TstPress
    <2>8. e.down \in BOOLEAN
        BY DEF TstChanges
    <2>. QED BY <2>5, <2>6, <2>7, <2>8 DEF TstEndsPressed
<1>. QED BY <1>1, <1>6, <1>7, <1>8 DEF F, n

\* What is left of a sequence when its first changes are dropped
LEMMA TstRest ==
    ASSUME NEW E \in Seq(TstChanges), TstAlternates(E), TstInOrder(E),
           NEW F \in Seq(TstChanges), NEW n \in Nat, Len(E) = n + Len(F),
           \A i \in 1 .. Len(F) : F[i] = E[n + i]
    PROVE  /\ TstAlternates(F) /\ TstInOrder(F)
           /\ \A k \in {1, 2} : TstEndsPressed(F, k, Len(F)) => TstEndsPressed(E, k, Len(E))
<1>1. \A i \in 1 .. Len(F) : n + i \in 1 .. Len(E)
    OBVIOUS
<1>2. \A k : \A i \in 1 .. Len(F) : TstPress(F, k, i) <=> TstPress(E, k, n + i)
    BY DEF TstPress
<1>3. ASSUME NEW k, NEW a \in 1 .. (Len(F) + 1), NEW b \in 0 .. Len(F), TstNone(F, k, a, b)
      PROVE  TstNone(E, k, n + a, n + b)
    <2>. SUFFICES ASSUME NEW l \in (n + a) .. (n + b) PROVE E[l].key # k
        BY DEF TstNone
    <2>1. l - n \in a .. b /\ l - n \in 1 .. Len(F) /\ n + (l - n) = l
        OBVIOUS
    <2>. QED BY <1>3, <2>1 DEF TstNone
<1>4. TstAlternates(F)
    <2>. SUFFICES ASSUME NEW k \in {1, 2}, NEW i \in 1 .. Len(F), NEW j \in 1 .. Len(F), i < j,
                         TstPress(F, k, i), TstPress(F, k, j), TstNone(F, k, i + 1, j - 1)
                  PROVE  FALSE
        BY DEF TstAlternates
    <2>1. TstNone(E, k, n + (i + 1), n + (j - 1))
        BY <1>3
    <2>2. n + (i + 1) = (n + i) + 1 /\ n + (j - 1) = (n + j) - 1 /\ n + i < n + j
        OBVIOUS
    <2>3. TstPress(E, k, n + i) /\ TstPress(E, k, n + j)
        BY <1>2
    <2>. QED BY <1>1, <2>1, <2>2, <2>3 DEF TstAlternates
<1>5. TstInOrder(F)
    <2>. SUFFICES ASSUME NEW i \in 1 .. Len(F), NEW j \in 1 .. Len(F), i <= j PROVE F[i].at <= F[j].at
        BY DEF TstInOrder
    <2>1. n + i <= n + j
        OBVIOUS
    <2>. QED BY <1>1, <2>1 DEF TstInOrder
<1>6. ASSUME NEW k \in {1, 2}, TstEndsPressed(F, k, Len(F)) PROVE TstEndsPressed(E, k, Len(E))
    <2>1. PICK i \in 1 .. Len(F) : TstPress(F, k, i) /\ TstNone(F, k, i + 1, Len(F))
        BY <1>6 DEF TstEndsPressed
    <2>2. TstNone(E, k, n + (i + 1), n + Len(F))
        BY <1>3, <2>1
    <2>3. n + (i + 1) = (n + i) + 1 /\ n + Len(F) = Len(E)
        OBVIOUS
    <2>. QED BY <1>1, <1>2, <2>1, <2>2, <2>3 DEF TstEndsPressed
<1>. QED BY <1>4, <1>5, <1>6

TstBudgets == [edges : Nat, ticks : Nat, breaks : Nat, resets : Nat, evdev : BOOLEAN, focus : BOOLEAN]

TstTyped ==
    /\ switch \in [{1, 2} -> BOOLEAN] /\ clock \in Nat
    /\ plugged \in BOOLEAN /\ testShown \in BOOLEAN /\ whole \in BOOLEAN
    /\ device \in {"none", "open", "gone"} /\ last \in [{1, 2} -> BOOLEAN \cup {None}]
    /\ queued \in Seq(TstChanges) /\ sent \in Seq(TstChanges)
    /\ heard \in Seq(TstChanges) /\ edges \in Seq(TstChanges)
    /\ tester \in TstInputs
    /\ \A k \in {1, 2} : tester.k[k].chatter + tester.k[k].flutter <= tester.k[k].presses
    /\ tbounds \in TstBudgets

LEMMA TstCosts ==
    ASSUME tbounds \in TstBudgets, NEW what \in {"edges", "ticks", "breaks", "resets"},
           Tester!Costs(what)
    PROVE  tbounds' \in TstBudgets /\ tbounds'.evdev = tbounds.evdev /\ tbounds'.focus = tbounds.focus
<1>1. tbounds[what] \in Nat /\ tbounds[what] > 0 /\ tbounds' = [tbounds EXCEPT ![what] = @ - 1]
    BY DEF TstBudgets, Tester!Costs
<1>2. CASE what = "edges"
    BY <1>1, <1>2 DEF TstBudgets
<1>3. CASE what = "ticks"
    BY <1>1, <1>3 DEF TstBudgets
<1>4. CASE what = "breaks"
    BY <1>1, <1>4 DEF TstBudgets
<1>5. CASE what = "resets"
    BY <1>1, <1>5 DEF TstBudgets
<1>. QED BY <1>2, <1>3, <1>4, <1>5

LEMMA TstChange ==
    ASSUME NEW k \in {1, 2}, NEW down \in BOOLEAN, NEW at \in Nat
    PROVE  /\ Tester!Change(k, down, at) \in TstChanges
           /\ Tester!Change(k, down, at).key = k /\ Tester!Change(k, down, at).down = down
           /\ Tester!Change(k, down, at).at = at
BY DEF Tester!Change, TstChanges

LEMMA TstFreshTyped ==
    /\ Tester!NoInput \in TstInputs
    /\ \A k \in {1, 2} : /\ ~Tester!NoInput.k[k].down /\ Tester!NoInput.k[k].presses = 0
                         /\ Tester!NoInput.k[k].chatter = 0 /\ Tester!NoInput.k[k].flutter = 0
                         /\ Tester!NoInput.k[k].released = None
<1>1. Tester!Fresh \in TstKeys
    BY DEF Tester!Fresh, TstKeys, TstTimes
<1>2. /\ ~Tester!Fresh.down /\ Tester!Fresh.presses = 0 /\ Tester!Fresh.chatter = 0
      /\ Tester!Fresh.flutter = 0 /\ Tester!Fresh.released = None
    BY DEF Tester!Fresh
<1>3. Tester!NoInput = [k |-> [k \in {1, 2} |-> Tester!Fresh], chords |-> 0]
    BY DEF Tester!NoInput, Tester!TwoKeys
<1>. QED BY <1>1, <1>2, <1>3 DEF TstInputs

\* What the thread reads, key after key
TstAdd(s, k) == IF last[k] # switch[k] THEN Append(s, Tester!Change(k, switch[k], clock)) ELSE s
TstRead(s) == TstAdd(TstAdd(s, 1), 2)

LEMMA TstReads ==
    ASSUME TstTyped, NEW s \in Seq(TstChanges)
    PROVE  s \o Tester!Readings = TstRead(s) /\ TstRead(s) \in Seq(TstChanges)
           /\ TstAdd(s, 1) \in Seq(TstChanges)
<1>1. Tester!Change(1, switch[1], clock) \in TstChanges /\ Tester!Change(2, switch[2], clock) \in TstChanges
    BY TstChange DEF TstTyped
<1> DEFINE c == Tester!Change(1, switch[1], clock)
           d == Tester!Change(2, switch[2], clock)
<1>2. /\ Tester!Reading(1) = IF last[1] # switch[1] THEN <<c>> ELSE <<>>
      /\ Tester!Reading(2) = IF last[2] # switch[2] THEN <<d>> ELSE <<>>
    BY DEF Tester!Reading
<1>. HIDE DEF c, d
<1>3. /\ c \in TstChanges /\ d \in TstChanges
      /\ <<c>> \in Seq(TstChanges) /\ <<d>> \in Seq(TstChanges) /\ <<>> \in Seq(TstChanges)
      /\ Append(s, c) \in Seq(TstChanges) /\ Append(s, d) \in Seq(TstChanges)
      /\ Append(Append(s, c), d) \in Seq(TstChanges)
    BY <1>1 DEF c, d
<1>4. s \o Tester!Readings = (s \o Tester!Reading(1)) \o Tester!Reading(2)
    BY <1>2, <1>3, ConcatAssociative DEF Tester!Readings
<1>7. /\ s \o Tester!Reading(1) = IF last[1] # switch[1] THEN Append(s, c) ELSE s
      /\ \A t \in Seq(TstChanges) :
            t \o Tester!Reading(2) = IF last[2] # switch[2] THEN Append(t, d) ELSE t
    <2>1. \A t \in Seq(TstChanges) : t \o <<c>> = Append(t, c) /\ t \o <<d>> = Append(t, d) /\ t \o <<>> = t
        BY <1>3, AppendIsConcat, ConcatEmptySeq
    <2>. QED BY <1>2, <2>1
<1>5. TstAdd(s, 1) = IF last[1] # switch[1] THEN Append(s, c) ELSE s
    BY DEF TstAdd, c
<1>6. \A t : TstAdd(t, 2) = IF last[2] # switch[2] THEN Append(t, d) ELSE t
    BY DEF TstAdd, d
<1>. QED BY <1>3, <1>4, <1>5, <1>6, <1>7 DEF TstRead

LEMMA TstReleases ==
    ASSUME TstTyped
    PROVE  heard \o Tester!Released(1) \o Tester!Released(2) \in Seq(TstChanges)
<1>1. Tester!Change(1, FALSE, clock) \in TstChanges /\ Tester!Change(2, FALSE, clock) \in TstChanges
    BY TstChange DEF TstTyped
<1> DEFINE c == Tester!Change(1, FALSE, clock)
           d == Tester!Change(2, FALSE, clock)
<1>2. Tester!Released(1) \in Seq(TstChanges) /\ Tester!Released(2) \in Seq(TstChanges)
    <2>1. /\ Tester!Released(1) = IF switch[1] THEN <<c>> ELSE <<>>
          /\ Tester!Released(2) = IF switch[2] THEN <<d>> ELSE <<>>
        BY DEF Tester!Released
    <2>2. c \in TstChanges /\ d \in TstChanges
        BY <1>1
    <2>. HIDE DEF c, d
    <2>3. <<c>> \in Seq(TstChanges) /\ <<d>> \in Seq(TstChanges) /\ <<>> \in Seq(TstChanges)
        BY <2>2
    <2>. QED BY <2>1, <2>3
<1>. QED BY <1>2 DEF TstTyped

LEMMA TstTesterTyped ==
    ASSUME TstTyped, NEW e \in TstChanges
    PROVE  /\ Tester!Counted(tester, e) \in TstInputs
           /\ \A k \in {1, 2} : Tester!Counted(tester, e).k[k].chatter + Tester!Counted(tester, e).k[k].flutter
                                <= Tester!Counted(tester, e).k[k].presses
<1> DEFINE new == Tester!Counted(tester, e)
<1>1. /\ new \in TstInputs
      /\ TstAfter(tester.k[e.key], e, new.k[e.key])
      /\ \A k \in {1, 2} \ {e.key} : new.k[k] = tester.k[k]
      /\ e.key \in {1, 2} /\ e.down \in BOOLEAN
    BY TstCounted DEF TstTyped, TstChanges
<1>. HIDE DEF new
<1> DEFINE own == tester.k[e.key]
           now == new.k[e.key]
<1>2. /\ own \in TstKeys /\ now \in TstKeys
      /\ own.chatter + own.flutter <= own.presses
    BY <1>1 DEF TstInputs, TstTyped
<1>3. /\ own.down \in BOOLEAN /\ own.presses \in Nat /\ own.chatter \in Nat /\ own.flutter \in Nat
      /\ now.presses \in Nat /\ now.chatter \in Nat /\ now.flutter \in Nat
    BY <1>2 DEF TstKeys
<1>. HIDE DEF own, now
<1>4. TstAfter(own, e, now)
    BY <1>1 DEF own, now
<1>5. now.chatter + now.flutter <= now.presses
    <2>1. CASE e.down /\ ~own.down
        BY <1>2, <1>3, <1>4, <2>1 DEF TstAfter
    <2>2. CASE ~e.down /\ own.down
        BY <1>2, <1>3, <1>4, <2>2 DEF TstAfter
    <2>3. CASE e.down <=> own.down
        BY <1>2, <1>3, <1>4, <2>3 DEF TstAfter
    <2>. QED BY <1>1, <1>3, <2>1, <2>2, <2>3
<1>6. \A k \in {1, 2} : new.k[k].chatter + new.k[k].flutter <= new.k[k].presses
    <2>1. ASSUME NEW k \in {1, 2} PROVE new.k[k].chatter + new.k[k].flutter <= new.k[k].presses
        <3>1. CASE k = e.key
            BY <1>5, <3>1 DEF now
        <3>2. CASE k # e.key
            BY <1>1, <2>1, <3>2 DEF TstTyped
        <3>. QED BY <3>1, <3>2
    <2>. QED BY <2>1
<1>. QED BY <1>1, <1>6 DEF new

LEMMA TstTypedInit ==
    ASSUME Tester!TesterInit
    PROVE  TstTyped
<1>1. /\ switch = [key \in {1, 2} |-> FALSE] /\ clock = 0 /\ plugged = TRUE
      /\ testShown = TRUE /\ device = "none" /\ queued = <<>> /\ last = [key \in {1, 2} |-> None]
      /\ sent = <<>> /\ heard = <<>> /\ tester = Tester!NoInput
      /\ edges = <<>> /\ whole = TRUE
      /\ tbounds \in TesterBudgets
    BY DEF Tester!TesterInit, Tester!NothingSent, Tester!TwoKeys
<1>2. tbounds \in TstBudgets
    BY <1>1, TstConstants DEF TstBudgets
<1>3. switch \in [{1, 2} -> BOOLEAN] /\ last \in [{1, 2} -> BOOLEAN \cup {None}]
    BY <1>1
<1>4. <<>> \in Seq(TstChanges)
    OBVIOUS
<1>. QED BY <1>1, <1>2, <1>3, <1>4, TstFreshTyped DEF TstTyped

\* The kernel's queue leads from what the thread sent last to what is pressed now
TstMeets(q, l, s) ==
    /\ \A k \in {1, 2} : TstNone(q, k, 1, Len(q)) => l[k] = s[k]
    /\ \A i \in 1 .. Len(q) :
          /\ TstNone(q, q[i].key, 1, i - 1) => q[i].down # l[q[i].key]
          /\ TstNone(q, q[i].key, i + 1, Len(q)) => q[i].down = s[q[i].key]
    /\ \A i, j \in 1 .. Len(q) :
          i < j /\ q[i].key = q[j].key /\ TstNone(q, q[i].key, i + 1, j - 1) => q[i].down # q[j].down

TstQueue ==
    /\ ~tbounds.focus => heard = <<>>
    /\ device # "open" => queued = <<>>
    /\ device # "none" => testShown /\ tbounds.evdev
    /\ device = "open" => TstMeets(queued, last, switch)

\* The history is what was handled, what was sent and what is queued
TstFits(E, S, Q, n) ==
    /\ Len(E) = n + Len(S) + Len(Q)
    /\ \A i \in 1 .. Len(S) : E[n + i] = S[i]
    /\ \A i \in 1 .. Len(Q) : E[n + Len(S) + i] = Q[i]

TstHistory(E, S, Q, at, t) ==
    /\ TstAlternates(E) /\ TstInOrder(E) /\ \A i \in 1 .. Len(E) : E[i].at <= at
    /\ \E n \in Nat : TstFits(E, S, Q, n) /\ \A k \in {1, 2} : TstKnows(E, k, n, t.k[k])

TstSeen ==
    /\ TstHistory(edges, sent, queued, clock, tester)
    /\ \A k \in {1, 2} : TstEndsPressed(edges, k, Len(edges)) => device = "open" /\ switch[k]

\* A sample misses changes and makes none up
TstCount(s, k) == Cardinality(TstPresses(s, k, Len(s)))
TstSampled ==
    /\ last = [k \in {1, 2} |-> None] \/ (testShown /\ last \in [{1, 2} -> BOOLEAN])
    /\ \A k \in {1, 2} :
          tester.k[k].presses + TstCount(sent, k) + (IF last[k] = FALSE /\ switch[k] THEN 1 ELSE 0)
          <= TstCount(edges, k)

TstIInv ==
    /\ TstTyped /\ TstQueue
    /\ ~tbounds.focus => IF tbounds.evdev THEN whole => TstSeen ELSE TstSampled

\* One more change in the queue, and one less
LEMMA TstQueued ==
    ASSUME NEW q \in Seq(TstChanges), NEW l, NEW s \in [{1, 2} -> BOOLEAN], TstMeets(q, l, s),
           NEW k \in {1, 2}, NEW at \in Nat
    PROVE  TstMeets(Append(q, Tester!Change(k, ~s[k], at)), l, [s EXCEPT ![k] = ~s[k]])
<1> DEFINE e == Tester!Change(k, ~s[k], at)
           r == Append(q, e)
           t == [s EXCEPT ![k] = ~s[k]]
           n == Len(q)
<1>0. (~s[k]) \in BOOLEAN
    OBVIOUS
<1>1. e \in TstChanges /\ e.key = k /\ e.down = ~s[k]
    <2>1. PICK d \in BOOLEAN : d = ~s[k]
        BY <1>0
    <2>2. e = Tester!Change(k, d, at)
        BY <2>1
    <2>. HIDE DEF e
    <2>3. e \in TstChanges /\ e.key = k /\ e.down = d
        BY <2>2, TstChange
    <2>. QED BY <2>1, <2>3
<1>2. t[k] = ~s[k] /\ \A o \in {1, 2} \ {k} : t[o] = s[o]
    OBVIOUS
<1>. HIDE DEF e, t
<1>3. /\ Len(r) = n + 1 /\ n \in Nat /\ r[n + 1] = e
      /\ \A i \in 1 .. n : r[i] = q[i] /\ q[i] \in TstChanges /\ q[i].key \in {1, 2}
      /\ 1 .. (n + 1) = (1 .. n) \cup {n + 1} /\ n + 1 \notin 1 .. n
    <2>1. /\ Len(r) = n + 1 /\ n \in Nat /\ r[n + 1] = e
          /\ \A i \in 1 .. n : r[i] = q[i] /\ q[i] \in TstChanges
        BY <1>1
    <2>2. \A i \in 1 .. n : q[i].key \in {1, 2}
        BY <2>1 DEF TstChanges
    <2>3. 1 .. (n + 1) = (1 .. n) \cup {n + 1} /\ n + 1 \notin 1 .. n
        OBVIOUS
    <2>. QED BY <2>1, <2>2, <2>3
<1>. HIDE DEF r, n
<1>4. \A o, a : \A b \in 0 .. n : a \in 1 .. (n + 1) => (TstNone(r, o, a, b) <=> TstNone(q, o, a, b))
    <2>. SUFFICES ASSUME NEW o, NEW a \in 1 .. (n + 1), NEW b \in 0 .. n
                  PROVE  TstNone(r, o, a, b) <=> TstNone(q, o, a, b)
        OBVIOUS
    <2>1. \A i \in a .. b : i \in 1 .. n
        BY <1>3
    <2>. QED BY <1>3, <2>1 DEF TstNone
<1>5. \A o : \A a \in 1 .. (n + 1) : TstNone(r, o, a, n + 1) => TstNone(q, o, a, n) /\ o # k
    <2>. SUFFICES ASSUME NEW o, NEW a \in 1 .. (n + 1), TstNone(r, o, a, n + 1)
                  PROVE  TstNone(q, o, a, n) /\ o # k
        OBVIOUS
    <2>1. a .. (n + 1) = (a .. n) \cup {n + 1} /\ \A i \in a .. n : i \in 1 .. n
        BY <1>3
    <2>. QED BY <1>1, <1>3, <2>1 DEF TstNone
<1>6. \A o \in {1, 2} : TstNone(r, o, 1, n + 1) => l[o] = t[o]
    <2>1. 1 \in 1 .. (n + 1)
        BY <1>3
    <2>. QED BY <1>2, <1>5, <2>1 DEF TstMeets, n
<1>7. ASSUME NEW i \in 1 .. (n + 1)
      PROVE  /\ TstNone(r, r[i].key, 1, i - 1) => r[i].down # l[r[i].key]
             /\ TstNone(r, r[i].key, i + 1, n + 1) => r[i].down = t[r[i].key]
    <2>1. CASE i = n + 1
        <3>1. (n + 1) - 1 = n /\ 1 \in 1 .. (n + 1) /\ n \in 0 .. n
            BY <1>3
        <3>2. TstNone(r, k, 1, n) => l[k] = s[k]
            BY <1>4, <3>1 DEF TstMeets, n
        <3>3. ~s[k] # s[k]
            OBVIOUS
        <3>. QED BY <1>1, <1>2, <1>3, <2>1, <3>1, <3>2, <3>3
    <2>2. CASE i \in 1 .. n
        <3>1. i - 1 \in 0 .. n /\ 1 \in 1 .. (n + 1) /\ i + 1 \in 1 .. (n + 1) /\ r[i] = q[i]
            BY <1>3, <2>2
        <3>2. TstNone(r, q[i].key, 1, i - 1) => TstNone(q, q[i].key, 1, i - 1)
            BY <1>4, <3>1
        <3>3. TstNone(r, q[i].key, i + 1, n + 1) => TstNone(q, q[i].key, i + 1, n) /\ q[i].key # k
            BY <1>5, <3>1
        <3>4. q[i].key # k => t[q[i].key] = s[q[i].key]
            BY <1>2, <1>3, <2>2
        <3>5. /\ TstNone(q, q[i].key, 1, i - 1) => q[i].down # l[q[i].key]
              /\ TstNone(q, q[i].key, i + 1, n) => q[i].down = s[q[i].key]
            BY <2>2 DEF TstMeets, n
        <3>. QED BY <3>1, <3>2, <3>3, <3>4, <3>5
    <2>. QED BY <1>3, <1>7, <2>1, <2>2
<1>8. ASSUME NEW i \in 1 .. (n + 1), NEW j \in 1 .. (n + 1), i < j, r[i].key = r[j].key,
             TstNone(r, r[i].key, i + 1, j - 1)
      PROVE  r[i].down # r[j].down
    <2>1. i \in 1 .. n /\ i + 1 \in 1 .. (n + 1) /\ j - 1 \in 0 .. n /\ r[i] = q[i]
        BY <1>3, <1>8
    <2>2. TstNone(q, q[i].key, i + 1, j - 1)
        BY <1>4, <1>8, <2>1
    <2>3. CASE j \in 1 .. n
        BY <1>3, <1>8, <2>1, <2>2, <2>3 DEF TstMeets, n
    <2>4. CASE j = n + 1
        <3>1. q[i].key = k /\ j - 1 = n
            BY <1>1, <1>3, <1>8, <2>1, <2>4
        <3>2. q[i].down = s[k]
            BY <2>1, <2>2, <3>1 DEF TstMeets, n
        <3>3. s[k] # ~s[k]
            OBVIOUS
        <3>. QED BY <1>1, <1>3, <2>1, <2>4, <3>2, <3>3
    <2>. QED BY <1>3, <2>3, <2>4
<1>9. TstMeets(r, l, t)
    BY <1>3, <1>6, <1>7, <1>8 DEF TstMeets
<1>. QED BY <1>9 DEF r, t, e

LEMMA TstFetched ==
    ASSUME NEW q \in Seq(TstChanges), q # <<>>, NEW l \in [{1, 2} -> BOOLEAN \cup {None}],
           NEW s \in [{1, 2} -> BOOLEAN], TstMeets(q, l, s)
    PROVE  /\ TstMeets(Tail(q), [l EXCEPT ![Head(q).key] = Head(q).down], s)
           /\ l[Head(q).key] # Head(q).down
<1> DEFINE e == Head(q)
           r == Tail(q)
           m == [l EXCEPT ![e.key] = e.down]
           n == Len(q)
<1>1. /\ Len(r) = n - 1 /\ n \in Nat /\ n >= 1 /\ e = q[1]
      /\ \A i \in 1 .. (n - 1) : r[i] = q[i + 1]
      /\ \A i \in 1 .. n : q[i] \in TstChanges
    OBVIOUS
<1>2. e.key \in {1, 2} /\ e.down \in BOOLEAN /\ \A i \in 1 .. n : q[i].key \in {1, 2}
    BY <1>1 DEF TstChanges
<1>3. m[e.key] = e.down /\ \A o \in {1, 2} \ {e.key} : m[o] = l[o]
    BY <1>2
<1>. HIDE DEF e, r, m, n
<1>4. l[e.key] # e.down
    <2>1. TstNone(q, e.key, 1, 1 - 1)
        BY DEF TstNone
    <2>2. 1 \in 1 .. n
        BY <1>1
    <2>. QED BY <1>1, <2>1, <2>2 DEF TstMeets, n
<1>5. \A o : \A a \in 1 .. n : \A b \in 0 .. (n - 1) : TstNone(r, o, a, b) <=> TstNone(q, o, a + 1, b + 1)
    <2>. SUFFICES ASSUME NEW o, NEW a \in 1 .. n, NEW b \in 0 .. (n - 1)
                  PROVE  TstNone(r, o, a, b) <=> TstNone(q, o, a + 1, b + 1)
        OBVIOUS
    <2>1. \A i \in a .. b : i \in 1 .. (n - 1) /\ i + 1 \in (a + 1) .. (b + 1)
        BY <1>1
    <2>2. \A i \in (a + 1) .. (b + 1) : i - 1 \in a .. b /\ i - 1 \in 1 .. (n - 1) /\ (i - 1) + 1 = i
        BY <1>1
    <2>3. ASSUME TstNone(q, o, a + 1, b + 1) PROVE TstNone(r, o, a, b)
        BY <1>1, <2>1, <2>3 DEF TstNone
    <2>4. ASSUME TstNone(r, o, a, b), NEW i \in (a + 1) .. (b + 1) PROVE q[i].key # o
        <3>1. r[i - 1].key # o
            BY <2>2, <2>4 DEF TstNone
        <3>. QED BY <1>1, <2>2, <3>1
    <2>. QED BY <2>3, <2>4 DEF TstNone
<1>6. \A o : \A b \in 0 .. (n - 1) : TstNone(q, o, 2, b + 1) /\ o # e.key => TstNone(q, o, 1, b + 1)
    <2>1. \A b \in 0 .. (n - 1) : 1 .. (b + 1) = {1} \cup (2 .. (b + 1))
        OBVIOUS
    <2>. QED BY <1>1, <2>1 DEF TstNone
<1>7. \A o \in {1, 2} : TstNone(r, o, 1, n - 1) => m[o] = s[o]
    <2>. SUFFICES ASSUME NEW o \in {1, 2}, TstNone(r, o, 1, n - 1) PROVE m[o] = s[o]
        OBVIOUS
    <2>1. 1 \in 1 .. n /\ n - 1 \in 0 .. (n - 1) /\ (n - 1) + 1 = n /\ 1 + 1 = 2
        BY <1>1
    <2>2. TstNone(q, o, 2, n)
        BY <1>5, <2>1
    <2>3. CASE o = e.key
        BY <1>1, <1>3, <2>1, <2>2, <2>3 DEF TstMeets, n
    <2>4. CASE o # e.key
        <3>1. TstNone(q, o, 1, n)
            BY <1>6, <2>1, <2>2, <2>4
        <3>. QED BY <1>3, <2>4, <3>1 DEF TstMeets, n
    <2>. QED BY <2>3, <2>4
<1>8. ASSUME NEW i \in 1 .. (n - 1)
      PROVE  /\ TstNone(r, r[i].key, 1, i - 1) => r[i].down # m[r[i].key]
             /\ TstNone(r, r[i].key, i + 1, n - 1) => r[i].down = s[r[i].key]
    <2>1. /\ i - 1 \in 0 .. (n - 1) /\ 1 \in 1 .. n /\ (i - 1) + 1 = i /\ i + 1 \in 1 .. n
          /\ n - 1 \in 0 .. (n - 1) /\ (n - 1) + 1 = n /\ 1 + 1 = 2 /\ i + 1 \in 1 .. n /\ 1 < i + 1
          /\ (i + 1) - 1 = i /\ r[i] = q[i + 1] /\ q[i + 1].key \in {1, 2} /\ 1 \in 1 .. n
        BY <1>1, <1>2
    <2>2. TstNone(r, r[i].key, i + 1, n - 1) => r[i].down = s[r[i].key]
        BY <1>5, <2>1 DEF TstMeets, n
    <2>3. ASSUME TstNone(r, r[i].key, 1, i - 1) PROVE r[i].down # m[r[i].key]
        <3>1. TstNone(q, q[i + 1].key, 2, i)
            BY <1>5, <2>1, <2>3
        <3>2. CASE q[i + 1].key = e.key
            BY <1>1, <1>3, <2>1, <3>1, <3>2 DEF TstMeets, n
        <3>3. CASE q[i + 1].key # e.key
            <4>1. TstNone(q, q[i + 1].key, 1, i)
                BY <1>6, <2>1, <3>1, <3>3
            <4>. QED BY <1>3, <2>1, <3>3, <4>1 DEF TstMeets, n
        <3>. QED BY <3>2, <3>3
    <2>. QED BY <2>2, <2>3
<1>9. ASSUME NEW i \in 1 .. (n - 1), NEW j \in 1 .. (n - 1), i < j, r[i].key = r[j].key,
             TstNone(r, r[i].key, i + 1, j - 1)
      PROVE  r[i].down # r[j].down
    <2>1. /\ i + 1 \in 1 .. n /\ j + 1 \in 1 .. n /\ j - 1 \in 0 .. (n - 1) /\ i + 1 < j + 1
          /\ (j - 1) + 1 = (j + 1) - 1 /\ r[i] = q[i + 1] /\ r[j] = q[j + 1]
        BY <1>1, <1>9
    <2>2. TstNone(q, q[i + 1].key, (i + 1) + 1, (j + 1) - 1)
        BY <1>5, <1>9, <2>1
    <2>. QED BY <1>9, <2>1, <2>2 DEF TstMeets, n
<1>. QED BY <1>1, <1>4, <1>7, <1>8, <1>9 DEF TstMeets, r, m, e

\* Presses in a sequence that grows at its end or shrinks at its start
LEMMA TstCounts ==
    ASSUME NEW s \in Seq(TstChanges), NEW k \in {1, 2}
    PROVE  /\ TstCount(s, k) \in Nat
           /\ s = <<>> => TstCount(s, k) = 0
           /\ \A e \in TstChanges : TstCount(Append(s, e), k) =
                  TstCount(s, k) + (IF e.key = k /\ e.down THEN 1 ELSE 0)
           /\ s # <<>> => TstCount(s, k) =
                  TstCount(Tail(s), k) + (IF Head(s).key = k /\ Head(s).down THEN 1 ELSE 0)
<1>1. Len(s) \in Nat /\ TstCount(s, k) \in Nat
    BY TstFinite DEF TstCount
<1>2. s = <<>> => TstCount(s, k) = 0
    <2>1. s = <<>> => TstPresses(s, k, Len(s)) = {}
        BY DEF TstPresses
    <2>. QED BY <2>1, FS_EmptySet DEF TstCount
<1>3. ASSUME NEW e \in TstChanges
      PROVE  TstCount(Append(s, e), k) = TstCount(s, k) + (IF e.key = k /\ e.down THEN 1 ELSE 0)
    <2> DEFINE r == Append(s, e)
    <2>1. Len(r) = Len(s) + 1 /\ r[Len(s) + 1] = e /\ \A i \in 1 .. Len(s) : r[i] = s[i]
        OBVIOUS
    <2>. HIDE DEF r
    <2>2. TstPresses(r, k, Len(s)) = TstPresses(s, k, Len(s))
        BY <2>1 DEF TstPresses, TstPress
    <2>3. TstPress(r, k, Len(s) + 1) <=> e.key = k /\ e.down
        BY <2>1 DEF TstPress
    <2>4. TstCount(r, k) = Cardinality(TstPresses(r, k, Len(s))) + (IF TstPress(r, k, Len(s) + 1) THEN 1 ELSE 0)
        <3>1. TstCount(r, k) = Cardinality(TstPresses(r, k, Len(s) + 1))
            BY <2>1 DEF TstCount
        <3>. QED BY <1>1, <3>1, TstFinite
    <2>. QED BY <2>2, <2>3, <2>4 DEF TstCount, r
<1>4. ASSUME s # <<>>
      PROVE  TstCount(s, k) = TstCount(Tail(s), k) + (IF Head(s).key = k /\ Head(s).down THEN 1 ELSE 0)
    <2> DEFINE r == Tail(s)
               n == Len(s)
               A == {i \in 2 .. n : TstPress(s, k, i)}
               B == TstPresses(r, k, n - 1)
               f == [i \in A |-> i - 1]
    <2>1. /\ n \in Nat /\ n >= 1 /\ Len(r) = n - 1 /\ Head(s) = s[1]
          /\ \A i \in 1 .. (n - 1) : r[i] = s[i + 1]
        BY <1>4
    <2>. HIDE DEF r, n
    <2>2. \A i \in 1 .. (n - 1) : TstPress(r, k, i) <=> TstPress(s, k, i + 1)
        BY <2>1 DEF TstPress
    <2>3. f \in Bijection(A, B)
        <3>1. \A i \in A : i - 1 \in B
            <4>. SUFFICES ASSUME NEW i \in A PROVE i - 1 \in B
                OBVIOUS
            <4>1. i - 1 \in 1 .. (n - 1) /\ (i - 1) + 1 = i
                BY <2>1
            <4>. QED BY <2>2, <4>1 DEF TstPresses
        <3>2. \A j \in B : j + 1 \in A /\ (j + 1) - 1 = j
            <4>. SUFFICES ASSUME NEW j \in B PROVE j + 1 \in A /\ (j + 1) - 1 = j
                OBVIOUS
            <4>1. j \in 1 .. (n - 1) /\ TstPress(r, k, j)
                BY DEF TstPresses
            <4>2. j + 1 \in 2 .. n
                BY <2>1, <4>1
            <4>. QED BY <2>2, <4>1, <4>2
        <3>3. \A a, b \in A : a - 1 = b - 1 => a = b
            OBVIOUS
        <3>4. f \in [A -> B] /\ \A i \in A : f[i] = i - 1
            BY <3>1
        <3>. HIDE DEF f, A, B
        <3>. QED BY <3>2, <3>3, <3>4 DEF Bijection, Injection, Surjection, IsInjective
    <2>4. IsFiniteSet(B) /\ IsFiniteSet(A)
        <3>1. IsFiniteSet(2 .. n) /\ A \subseteq 2 .. n
            BY <2>1, FS_Interval
        <3>2. n - 1 \in Nat
            BY <2>1
        <3>. QED BY <3>1, <3>2, FS_Subset, TstFinite
    <2>5. Cardinality(A) = Cardinality(B)
        <3>. HIDE DEF f, A, B
        <3>. QED BY <2>3, <2>4, FS_Bijection DEF ExistsBijection
    <2>6. TstPresses(s, k, n) = IF TstPress(s, k, 1) THEN A \cup {1} ELSE A
        <3>1. 1 .. n = (2 .. n) \cup {1}
            BY <2>1
        <3>. QED BY <3>1 DEF TstPresses
    <2>7. 1 \notin A
        OBVIOUS
    <2>8. Cardinality(A \cup {1}) = Cardinality(A) + 1 /\ Cardinality(A) \in Nat
        <3>. HIDE DEF A
        <3>. QED BY <2>4, <2>7, FS_AddElement, FS_CardinalityType
    <2>9. TstPress(s, k, 1) <=> Head(s).key = k /\ Head(s).down
        BY <2>1 DEF TstPress
    <2>10. TstCount(s, k) = Cardinality(TstPresses(s, k, n)) /\ TstCount(Tail(s), k) = Cardinality(B)
        BY <2>1 DEF TstCount, n, r
    <2>. HIDE DEF A, B
    <2>. QED BY <2>5, <2>6, <2>8, <2>9, <2>10
<1>. QED BY <1>1, <1>2, <1>3, <1>4

\* The history with a change that was sent, or that waits in the queue
LEMMA TstGrows ==
    ASSUME NEW E \in Seq(TstChanges), NEW S \in Seq(TstChanges), NEW Q \in Seq(TstChanges),
           NEW at \in Nat, NEW t, TstHistory(E, S, Q, at, t),
           NEW e \in TstChanges, e.at = at, e.down => ~TstEndsPressed(E, e.key, Len(E))
    PROVE  /\ Append(E, e) \in Seq(TstChanges)
           /\ TstHistory(Append(E, e), S, Append(Q, e), at, t)
           /\ Q = <<>> => TstHistory(Append(E, e), Append(S, e), Q, at, t)
           /\ \A k \in {1, 2} : TstEndsPressed(Append(E, e), k, Len(Append(E, e))) <=>
                  IF e.key = k THEN e.down ELSE TstEndsPressed(E, k, Len(E))
<1> DEFINE F == Append(E, e)
<1>1. /\ F \in Seq(TstChanges) /\ TstAlternates(F) /\ TstInOrder(F) /\ \A i \in 1 .. Len(F) : F[i].at <= at
      /\ \A k \in {1, 2} : TstEndsPressed(F, k, Len(F)) <=>
                  IF e.key = k THEN e.down ELSE TstEndsPressed(E, k, Len(E))
    BY TstLonger DEF TstHistory
<1>2. PICK n \in Nat : TstFits(E, S, Q, n) /\ \A k \in {1, 2} : TstKnows(E, k, n, t.k[k])
    BY DEF TstHistory
<1>3. /\ Len(F) = Len(E) + 1 /\ F[Len(E) + 1] = e /\ \A i \in 1 .. Len(E) : F[i] = E[i]
      /\ Len(E) = n + Len(S) + Len(Q) /\ Len(E) \in Nat /\ Len(S) \in Nat /\ Len(Q) \in Nat
    BY <1>2 DEF TstFits
<1>. HIDE DEF F
<1>4. \A k \in {1, 2} : TstKnows(F, k, n, t.k[k])
    <2>1. \A i \in 1 .. n : i \in 1 .. Len(E)
        BY <1>3
    <2>2. \A i \in 1 .. n : E[i] = F[i]
        BY <1>3, <2>1
    <2>. QED BY <1>2, <2>2, TstPrefix
<1>5. /\ \A i \in 1 .. Len(S) : n + i \in 1 .. Len(E)
      /\ \A i \in 1 .. Len(Q) : n + Len(S) + i \in 1 .. Len(E)
    BY <1>3
<1>6. /\ \A i \in 1 .. Len(S) : F[n + i] = S[i]
      /\ \A i \in 1 .. Len(Q) : F[n + Len(S) + i] = Q[i]
    BY <1>2, <1>3, <1>5 DEF TstFits
<1>7. TstFits(F, S, Append(Q, e), n)
    <2> DEFINE R == Append(Q, e)
    <2>1. Len(R) = Len(Q) + 1 /\ R[Len(Q) + 1] = e /\ \A i \in 1 .. Len(Q) : R[i] = Q[i]
        OBVIOUS
    <2>. HIDE DEF R
    <2>2. ASSUME NEW i \in 1 .. Len(R) PROVE F[n + Len(S) + i] = R[i]
        <3>1. CASE i \in 1 .. Len(Q)
            BY <1>6, <2>1, <3>1
        <3>2. CASE i = Len(Q) + 1
            <4>1. n + Len(S) + i = Len(E) + 1
                BY <1>3, <3>2
            <4>. QED BY <1>3, <2>1, <3>2, <4>1
        <3>. QED BY <1>3, <2>1, <3>1, <3>2
    <2>3. Len(F) = n + Len(S) + Len(R)
        BY <1>3, <2>1
    <2>. QED BY <1>6, <2>2, <2>3 DEF TstFits, R
<1>8. Q = <<>> => TstFits(F, Append(S, e), Q, n)
    <2>. SUFFICES ASSUME Q = <<>> PROVE TstFits(F, Append(S, e), Q, n)
        OBVIOUS
    <2> DEFINE R == Append(S, e)
    <2>1. Len(R) = Len(S) + 1 /\ R[Len(S) + 1] = e /\ \A i \in 1 .. Len(S) : R[i] = S[i]
        OBVIOUS
    <2>. HIDE DEF R
    <2>2. ASSUME NEW i \in 1 .. Len(R) PROVE F[n + i] = R[i]
        <3>1. CASE i \in 1 .. Len(S)
            BY <1>6, <2>1, <3>1
        <3>2. CASE i = Len(S) + 1
            <4>1. n + i = Len(E) + 1
                BY <1>3, <3>2
            <4>. QED BY <1>3, <2>1, <3>2, <4>1
        <3>. QED BY <1>3, <2>1, <3>1, <3>2
    <2>3. Len(Q) = 0
        OBVIOUS
    <2>4. Len(F) = n + Len(R) + Len(Q) /\ 1 .. Len(Q) = {}
        BY <1>3, <2>1, <2>3
    <2>. QED BY <2>2, <2>4 DEF TstFits, R
<1>. QED BY <1>1, <1>4, <1>7, <1>8 DEF TstHistory, F

\* What the thread reads, sent and remembered
LEMMA TstReadGrows ==
    ASSUME TstTyped, NEW t, TstHistory(edges, sent, <<>>, clock, t),
           \A k \in {1, 2} : ~TstEndsPressed(edges, k, Len(edges))
    PROVE  /\ TstHistory(TstRead(edges), TstRead(sent), <<>>, clock, t)
           /\ \A k \in {1, 2} : TstEndsPressed(TstRead(edges), k, Len(TstRead(edges))) => switch[k]
<1>1. /\ clock \in Nat /\ edges \in Seq(TstChanges) /\ sent \in Seq(TstChanges)
      /\ switch[1] \in BOOLEAN /\ switch[2] \in BOOLEAN
    BY DEF TstTyped
<1>2. /\ TstAdd(edges, 1) \in Seq(TstChanges) /\ TstAdd(sent, 1) \in Seq(TstChanges)
    BY <1>1, TstReads
<1>3. ASSUME NEW E \in Seq(TstChanges), NEW S \in Seq(TstChanges), NEW k \in {1, 2},
             TstHistory(E, S, <<>>, clock, t), ~TstEndsPressed(E, k, Len(E))
      PROVE  /\ TstHistory(TstAdd(E, k), TstAdd(S, k), <<>>, clock, t)
             /\ TstEndsPressed(TstAdd(E, k), k, Len(TstAdd(E, k))) => switch[k]
             /\ TstEndsPressed(TstAdd(E, k), 3 - k, Len(TstAdd(E, k))) => TstEndsPressed(E, 3 - k, Len(E))
    <2> DEFINE e == Tester!Change(k, switch[k], clock)
    <2>1. e \in TstChanges /\ e.key = k /\ e.down = switch[k] /\ e.at = clock
        BY <1>1, TstChange
    <2>. HIDE DEF e
    <2>2. CASE last[k] # switch[k]
        <3>1. TstAdd(E, k) = Append(E, e) /\ TstAdd(S, k) = Append(S, e)
            BY <2>2 DEF TstAdd, e
        <3>2. <<>> \in Seq(TstChanges)
            OBVIOUS
        <3>3. /\ TstHistory(Append(E, e), Append(S, e), <<>>, clock, t)
              /\ \A o \in {1, 2} : TstEndsPressed(Append(E, e), o, Len(Append(E, e))) <=>
                      IF e.key = o THEN e.down ELSE TstEndsPressed(E, o, Len(E))
            BY <1>1, <1>3, <2>1, <3>2, TstGrows
        <3>4. 3 - k \in {1, 2} /\ 3 - k # k
            OBVIOUS
        <3>. QED BY <2>1, <3>1, <3>3, <3>4
    <2>3. CASE last[k] = switch[k]
        <3>1. TstAdd(E, k) = E /\ TstAdd(S, k) = S
            BY <2>3 DEF TstAdd
        <3>. QED BY <1>3, <3>1
    <2>. QED BY <2>2, <2>3
<1> DEFINE E1 == TstAdd(edges, 1)
           S1 == TstAdd(sent, 1)
<1>4. /\ TstHistory(E1, S1, <<>>, clock, t)
      /\ TstEndsPressed(E1, 1, Len(E1)) => switch[1]
      /\ ~TstEndsPressed(E1, 2, Len(E1))
    <2>1. 3 - 1 = 2
        OBVIOUS
    <2>. QED BY <1>1, <1>3, <2>1
<1>. HIDE DEF E1, S1
<1>5. /\ TstHistory(TstAdd(E1, 2), TstAdd(S1, 2), <<>>, clock, t)
      /\ TstEndsPressed(TstAdd(E1, 2), 2, Len(TstAdd(E1, 2))) => switch[2]
      /\ TstEndsPressed(TstAdd(E1, 2), 1, Len(TstAdd(E1, 2))) => switch[1]
    <2>1. 3 - 2 = 1
        OBVIOUS
    <2>2. E1 \in Seq(TstChanges) /\ S1 \in Seq(TstChanges)
        BY <1>2 DEF E1, S1
    <2>. QED BY <1>3, <1>4, <2>1, <2>2
<1>. QED BY <1>5 DEF TstRead, E1, S1

LEMMA TstReadCount ==
    ASSUME TstTyped, NEW s \in Seq(TstChanges), NEW k \in {1, 2}
    PROVE  TstCount(TstRead(s), k) =
               TstCount(s, k) + (IF last[k] # switch[k] /\ switch[k] THEN 1 ELSE 0)
<1>1. ASSUME NEW q \in Seq(TstChanges), NEW o \in {1, 2}
      PROVE  TstCount(TstAdd(q, o), k) =
                 TstCount(q, k) + (IF o = k /\ last[o] # switch[o] /\ switch[o] THEN 1 ELSE 0)
    <2>1. switch[o] \in BOOLEAN /\ clock \in Nat
        BY DEF TstTyped
    <2> DEFINE e == Tester!Change(o, switch[o], clock)
    <2>2. e \in TstChanges /\ e.key = o /\ e.down = switch[o]
        BY <2>1, TstChange
    <2>. HIDE DEF e
    <2>3. TstCount(Append(q, e), k) = TstCount(q, k) + (IF e.key = k /\ e.down THEN 1 ELSE 0)
        BY <2>2, TstCounts
    <2>4. TstCount(q, k) \in Nat
        BY TstCounts
    <2>5. TstAdd(q, o) = IF last[o] # switch[o] THEN Append(q, e) ELSE q
        BY DEF TstAdd, e
    <2>6. CASE last[o] # switch[o]
        BY <2>2, <2>3, <2>4, <2>5, <2>6
    <2>7. CASE last[o] = switch[o]
        BY <2>4, <2>5, <2>7
    <2>. QED BY <2>6, <2>7
<1>2. TstAdd(s, 1) \in Seq(TstChanges)
    BY TstReads
<1>3. /\ TstCount(TstAdd(s, 1), k) = TstCount(s, k) + (IF 1 = k /\ last[1] # switch[1] /\ switch[1] THEN 1 ELSE 0)
      /\ TstCount(TstRead(s), k) =
             TstCount(TstAdd(s, 1), k) + (IF 2 = k /\ last[2] # switch[2] /\ switch[2] THEN 1 ELSE 0)
    BY <1>1, <1>2 DEF TstRead
<1>4. TstCount(s, k) \in Nat
    BY TstCounts
<1>5. CASE k = 1
    BY <1>3, <1>4, <1>5
<1>6. CASE k = 2
    BY <1>3, <1>4, <1>6
<1>. QED BY <1>5, <1>6

\* The window takes a change: the next one of the history
LEMMA TstHandleStep ==
    ASSUME TstIInv, Tester!Handle
    PROVE  TstIInv'
<1> DEFINE e == Head(sent)
<1>0. TstTyped /\ TstQueue
    BY DEF TstIInv
<1>1. /\ sent # <<>> /\ sent' = Tail(sent) /\ tester' = Tester!Counted(tester, e)
      /\ UNCHANGED <<switch, clock, plugged, testShown, device, queued, last, heard, edges, whole, tbounds>>
    BY DEF Tester!Handle
<1>2. e \in TstChanges /\ Tail(sent) \in Seq(TstChanges)
    BY <1>0, <1>1 DEF TstTyped
<1>3. e = sent[1] /\ e.key \in {1, 2} /\ e.down \in BOOLEAN
    BY <1>1, <1>2 DEF TstChanges
<1>. HIDE DEF e
<1>4. TstTyped'
    BY <1>0, <1>1, <1>2, TstTesterTyped DEF TstTyped
<1>5. TstQueue'
    BY <1>0, <1>1 DEF TstQueue
<1>6. /\ TstAfter(tester.k[e.key], e, tester'.k[e.key])
      /\ \A k \in {1, 2} \ {e.key} : tester'.k[k] = tester.k[k]
    BY <1>0, <1>1, <1>2, TstCounted DEF TstTyped
<1>7. ASSUME TstSeen PROVE TstSeen'
    <2>1. PICK n \in Nat : TstFits(edges, sent, queued, n) /\ \A k \in {1, 2} : TstKnows(edges, k, n, tester.k[k])
        BY <1>7 DEF TstSeen, TstHistory
    <2>2. /\ sent \in Seq(TstChanges) /\ Len(sent) \in Nat /\ Len(sent) >= 1 /\ Len(queued) \in Nat
          /\ Len(Tail(sent)) = Len(sent) - 1 /\ \A i \in 1 .. Len(Tail(sent)) : Tail(sent)[i] = sent[i + 1]
        BY <1>0, <1>1 DEF TstTyped
    <2>3. n + 1 <= Len(edges) /\ edges[n + 1] = e
        <3>1. 1 \in 1 .. Len(sent)
            BY <2>2
        <3>. QED BY <1>3, <2>1, <2>2, <3>1 DEF TstFits
    <2>4. TstFits(edges, Tail(sent), queued, n + 1)
        <3> DEFINE r == Tail(sent)
                   m == Len(sent)
        <3>0. /\ m \in Nat /\ m >= 1 /\ Len(r) = m - 1 /\ Len(queued) \in Nat
              /\ \A i \in 1 .. (m - 1) : r[i] = sent[i + 1]
              /\ Len(edges) = n + m + Len(queued)
              /\ \A i \in 1 .. m : edges[n + i] = sent[i]
              /\ \A i \in 1 .. Len(queued) : edges[n + m + i] = queued[i]
            BY <2>1, <2>2 DEF TstFits
        <3>. HIDE DEF r, m
        <3>1. \A i \in 1 .. (m - 1) : (n + 1) + i = n + (i + 1) /\ i + 1 \in 1 .. m
            BY <3>0
        <3>2. \A i \in 1 .. Len(queued) : (n + 1) + (m - 1) + i = n + m + i
            BY <3>0
        <3>3. Len(edges) = (n + 1) + (m - 1) + Len(queued)
            BY <3>0
        <3>4. TstFits(edges, r, queued, n + 1)
            BY <3>0, <3>1, <3>2, <3>3 DEF TstFits
        <3>. QED BY <3>4 DEF r
    <2>5. \A k \in {1, 2} : TstKnows(edges, k, n + 1, tester'.k[k])
        <3>. SUFFICES ASSUME NEW k \in {1, 2} PROVE TstKnows(edges, k, n + 1, tester'.k[k])
            OBVIOUS
        <3>1. IF edges[n + 1].key = k THEN TstAfter(tester.k[k], edges[n + 1], tester'.k[k])
                                      ELSE tester'.k[k] = tester.k[k]
            BY <1>6, <2>3
        <3>2. tester.k[k] \in TstKeys /\ edges \in Seq(TstChanges)
            BY <1>0 DEF TstTyped, TstInputs
        <3>3. TstAlternates(edges) /\ TstInOrder(edges)
            BY <1>7 DEF TstSeen, TstHistory
        <3>. QED BY <2>1, <2>3, <3>1, <3>2, <3>3, TstTold
    <2>6. TstHistory(edges, Tail(sent), queued, clock, tester')
        <3>1. n + 1 \in Nat
            OBVIOUS
        <3>. QED BY <1>7, <2>4, <2>5, <3>1 DEF TstSeen, TstHistory
    <2>. QED BY <1>1, <1>7, <2>6 DEF TstSeen
<1>8. ASSUME TstSampled PROVE TstSampled'
    <2>1. ASSUME NEW k \in {1, 2}
          PROVE  tester'.k[k].presses + TstCount(sent', k) <= tester.k[k].presses + TstCount(sent, k)
        <3>1. /\ TstCount(sent, k) = TstCount(sent', k) + (IF e.key = k /\ e.down THEN 1 ELSE 0)
              /\ TstCount(sent', k) \in Nat
            BY <1>0, <1>1, <1>2, TstCounts DEF TstTyped, e
        <3>2. tester.k[k] \in TstKeys
            BY <1>0 DEF TstTyped, TstInputs
        <3>3. tester.k[k].presses \in Nat /\ tester.k[k].down \in BOOLEAN
            BY <3>2 DEF TstKeys
        <3>4. \/ tester'.k[k].presses = tester.k[k].presses
              \/ (e.key = k /\ e.down /\ tester'.k[k].presses = tester.k[k].presses + 1)
            <4>1. CASE e.key = k
                BY <1>3, <1>6, <3>3, <4>1 DEF TstAfter
            <4>2. CASE e.key # k
                BY <1>6, <4>2
            <4>. QED BY <4>1, <4>2
        <3>. QED BY <3>1, <3>3, <3>4
    <2>2. \A k \in {1, 2} : /\ tester'.k[k].presses \in Nat /\ tester.k[k].presses \in Nat
                            /\ TstCount(sent', k) \in Nat /\ TstCount(sent, k) \in Nat
                            /\ TstCount(edges, k) \in Nat
        <3>1. \A k \in {1, 2} : tester'.k[k] \in TstKeys /\ tester.k[k] \in TstKeys
            BY <1>0, <1>4 DEF TstTyped, TstInputs
        <3>2. \A k \in {1, 2} : tester'.k[k].presses \in Nat /\ tester.k[k].presses \in Nat
            BY <3>1 DEF TstKeys
        <3>. QED BY <1>0, <1>4, <3>2, TstCounts DEF TstTyped
    <2>3. ASSUME NEW k \in {1, 2}
          PROVE  tester'.k[k].presses + TstCount(sent', k) + (IF last[k] = FALSE /\ switch[k] THEN 1 ELSE 0)
                 <= TstCount(edges, k)
        <3>1. tester.k[k].presses + TstCount(sent, k) + (IF last[k] = FALSE /\ switch[k] THEN 1 ELSE 0)
              <= TstCount(edges, k)
            BY <1>8 DEF TstSampled
        <3>. QED BY <2>1, <2>2, <3>1
    <2>4. \A k \in {1, 2} : TstCount(sent, k)' = TstCount(sent', k) /\ TstCount(edges, k)' = TstCount(edges, k)
        BY <1>1 DEF TstCount
    <2>. QED BY <1>1, <1>8, <2>3, <2>4 DEF TstSampled
<1>9. tbounds' = tbounds /\ whole' = whole
    BY <1>1
<1>. QED BY <1>4, <1>5, <1>7, <1>8, <1>9 DEF TstIInv

\* The tester is told nothing yet
LEMMA TstStart ==
    ASSUME NEW E, NEW k \in {1, 2}
    PROVE  TstKnows(E, k, 0, Tester!NoInput.k[k])
<1>1. 1 .. 0 = {}
    OBVIOUS
<1>2. TstPresses(E, k, 0) = {} /\ TstBounces(E, k, 0) = {} /\ ~TstEndsPressed(E, k, 0) /\ TstUntouched(E, k, 1, 0)
    BY <1>1 DEF TstPresses, TstBounces, TstEndsPressed, TstUntouched
<1>3. Cardinality({}) = 0
    BY FS_EmptySet
<1>. QED BY <1>2, <1>3, TstFreshTyped DEF TstKnows

\* Nothing under way and every key up: the history ends with no key pressed
LEMMA TstQuietEnds ==
    ASSUME TstTyped, TstHistory(edges, sent, queued, clock, tester), Tester!Quiet
    PROVE  /\ sent = <<>> /\ queued = <<>>
           /\ \A k \in {1, 2} : ~TstEndsPressed(edges, k, Len(edges))
<1>1. sent = <<>> /\ queued = <<>> /\ \A k \in {1, 2} : ~tester.k[k].down
    BY DEF Tester!Quiet, Tester!TwoKeys
<1>2. PICK n \in Nat : TstFits(edges, sent, queued, n) /\ \A k \in {1, 2} : TstKnows(edges, k, n, tester.k[k])
    BY DEF TstHistory
<1>3. Len(edges) = n
    <2>1. Len(sent) = 0 /\ Len(queued) = 0
        BY <1>1
    <2>. QED BY <1>2, <2>1 DEF TstFits
<1>. QED BY <1>1, <1>2, <1>3 DEF TstKnows

\* The clock goes on
LEMMA TstLater ==
    ASSUME NEW E \in Seq(TstChanges), NEW S, NEW Q, NEW at \in Nat, NEW t, TstHistory(E, S, Q, at, t)
    PROVE  TstHistory(E, S, Q, at + 1, t)
<1>1. \A i \in 1 .. Len(E) : E[i] \in TstChanges
    OBVIOUS
<1>2. \A i \in 1 .. Len(E) : E[i].at \in Nat
    BY <1>1 DEF TstChanges
<1>3. \A i \in 1 .. Len(E) : E[i].at <= at + 1
    BY <1>2 DEF TstHistory
<1>. QED BY <1>3 DEF TstHistory

\* The head of the queue is sent
LEMMA TstSends ==
    ASSUME NEW E, NEW S \in Seq(TstChanges), NEW Q \in Seq(TstChanges), Q # <<>>,
           NEW at, NEW t, TstHistory(E, S, Q, at, t)
    PROVE  TstHistory(E, Append(S, Head(Q)), Tail(Q), at, t)
<1>1. PICK n \in Nat : TstFits(E, S, Q, n) /\ \A k \in {1, 2} : TstKnows(E, k, n, t.k[k])
    BY DEF TstHistory
<1> DEFINE A == Append(S, Head(Q))
           B == Tail(Q)
           m == Len(S)
           l == Len(Q)
<1>2. /\ m \in Nat /\ l \in Nat /\ l >= 1 /\ Len(A) = m + 1 /\ Len(B) = l - 1
      /\ \A i \in 1 .. m : A[i] = S[i]
      /\ A[m + 1] = Q[1] /\ \A i \in 1 .. (l - 1) : B[i] = Q[i + 1]
    OBVIOUS
<1>3. /\ Len(E) = n + m + l /\ \A i \in 1 .. m : E[n + i] = S[i]
      /\ \A i \in 1 .. l : E[n + m + i] = Q[i]
    BY <1>1 DEF TstFits
<1>. HIDE DEF A, B, m, l
<1>4. Len(E) = n + (m + 1) + (l - 1)
    BY <1>2, <1>3
<1>5. ASSUME NEW i \in 1 .. (m + 1) PROVE E[n + i] = A[i]
    <2>1. CASE i \in 1 .. m
        BY <1>2, <1>3, <2>1
    <2>2. CASE i = m + 1
        <3>1. n + i = n + m + 1 /\ 1 \in 1 .. l
            BY <1>2, <2>2
        <3>2. E[n + m + 1] = Q[1]
            BY <1>3, <3>1
        <3>. QED BY <1>2, <2>2, <3>1, <3>2
    <2>. QED BY <1>2, <2>1, <2>2
<1>6. ASSUME NEW i \in 1 .. (l - 1) PROVE E[n + (m + 1) + i] = B[i]
    <2>1. n + (m + 1) + i = n + m + (i + 1) /\ i + 1 \in 1 .. l
        BY <1>2
    <2>2. E[n + m + (i + 1)] = Q[i + 1]
        BY <1>3, <2>1
    <2>3. B[i] = Q[i + 1]
        BY <1>2
    <2>. QED BY <2>1, <2>2, <2>3
<1>7. TstFits(E, A, B, n)
    BY <1>2, <1>4, <1>5, <1>6 DEF TstFits
<1>. QED BY <1>1, <1>7 DEF TstHistory, A, B

\* Nothing is known at the start, and what is under way is the history
LEMMA TstRestarts ==
    ASSUME NEW E \in Seq(TstChanges), NEW S \in Seq(TstChanges), NEW Q \in Seq(TstChanges),
           NEW at, NEW t, TstHistory(E, S, Q, at, t)
    PROVE  /\ TstHistory(S \o Q, S, Q, at, Tester!NoInput)
           /\ \A k \in {1, 2} : TstEndsPressed(S \o Q, k, Len(S \o Q)) => TstEndsPressed(E, k, Len(E))
<1>1. PICK n \in Nat : TstFits(E, S, Q, n)
    BY DEF TstHistory
<1> DEFINE F == S \o Q
<1>2. /\ F \in Seq(TstChanges) /\ Len(F) = Len(S) + Len(Q) /\ Len(S) \in Nat /\ Len(Q) \in Nat
      /\ \A i \in 1 .. Len(S) : F[i] = S[i]
      /\ \A i \in 1 .. Len(Q) : F[Len(S) + i] = Q[i]
    <2>1. F \in Seq(TstChanges) /\ Len(F) = Len(S) + Len(Q) /\ Len(S) \in Nat /\ Len(Q) \in Nat
        OBVIOUS
    <2>2. \A i \in 1 .. Len(F) : F[i] = IF i <= Len(S) THEN S[i] ELSE Q[i - Len(S)]
        OBVIOUS
    <2>. HIDE DEF F
    <2>3. \A i \in 1 .. Len(S) : i \in 1 .. Len(F) /\ i <= Len(S)
        BY <2>1
    <2>4. \A i \in 1 .. Len(Q) : Len(S) + i \in 1 .. Len(F) /\ ~(Len(S) + i <= Len(S)) /\ (Len(S) + i) - Len(S) = i
        BY <2>1
    <2>5. \A i \in 1 .. Len(S) : F[i] = S[i]
        BY <2>2, <2>3
    <2>6. \A i \in 1 .. Len(Q) : F[Len(S) + i] = Q[i]
        BY <2>2, <2>4
    <2>. QED BY <2>1, <2>5, <2>6
<1>. HIDE DEF F
<1> DEFINE m == Len(S)
           l == Len(Q)
<1>3. /\ m \in Nat /\ l \in Nat /\ Len(F) = m + l /\ F \in Seq(TstChanges)
      /\ \A i \in 1 .. m : F[i] = S[i] /\ E[n + i] = S[i]
      /\ \A i \in 1 .. l : F[m + i] = Q[i] /\ E[n + m + i] = Q[i]
      /\ Len(E) = n + m + l
    BY <1>1, <1>2 DEF TstFits
<1>4. TstFits(F, S, Q, 0)
    <2>1. \A i \in 1 .. m : 0 + i = i
        BY <1>3
    <2>2. \A i \in 1 .. l : 0 + m + i = m + i
        BY <1>3
    <2>3. Len(F) = 0 + m + l
        BY <1>3
    <2>. QED BY <1>3, <2>1, <2>2, <2>3 DEF TstFits
<1>. HIDE DEF m, l
<1>5. Len(E) = n + Len(F) /\ \A i \in 1 .. Len(F) : F[i] = E[n + i]
    <2>1. ASSUME NEW i \in 1 .. (m + l) PROVE F[i] = E[n + i]
        <3>1. CASE i \in 1 .. m
            BY <1>3, <3>1
        <3>2. CASE i \notin 1 .. m
            <4>1. i - m \in 1 .. l /\ m + (i - m) = i /\ n + m + (i - m) = n + i
                BY <1>3, <3>2
            <4>2. F[m + (i - m)] = E[n + m + (i - m)]
                BY <1>3, <4>1
            <4>. QED BY <4>1, <4>2
        <3>. QED BY <3>1, <3>2
    <2>2. Len(E) = n + (m + l)
        BY <1>3
    <2>. QED BY <1>3, <2>1, <2>2
<1>6. TstAlternates(E) /\ TstInOrder(E) /\ \A i \in 1 .. Len(E) : E[i].at <= at
    BY DEF TstHistory
<1>7. /\ TstAlternates(F) /\ TstInOrder(F)
      /\ \A k \in {1, 2} : TstEndsPressed(F, k, Len(F)) => TstEndsPressed(E, k, Len(E))
    BY <1>2, <1>5, <1>6, TstRest
<1>8. \A i \in 1 .. Len(F) : F[i].at <= at
    <2>1. \A i \in 1 .. Len(F) : n + i \in 1 .. Len(E)
        BY <1>2, <1>5
    <2>. QED BY <1>5, <1>6, <2>1
<1>9. 0 \in Nat /\ \A k \in {1, 2} : TstKnows(F, k, 0, Tester!NoInput.k[k])
    BY TstStart
<1>. QED BY <1>4, <1>7, <1>8, <1>9 DEF TstHistory, F

LEMMA TstEmpty ==
    ASSUME NEW at
    PROVE  /\ TstHistory(<<>>, <<>>, <<>>, at, Tester!NoInput)
           /\ \A k \in {1, 2} : ~TstEndsPressed(<<>>, k, Len(<<>>))
<1>1. Len(<<>>) = 0 /\ 1 .. Len(<<>>) = {} /\ <<>> \in Seq(TstChanges)
    OBVIOUS
<1>2. TstAlternates(<<>>) /\ TstInOrder(<<>>) /\ \A k : ~TstEndsPressed(<<>>, k, Len(<<>>))
    BY <1>1 DEF TstAlternates, TstInOrder, TstEndsPressed
<1>3. 0 \in Nat /\ TstFits(<<>>, <<>>, <<>>, 0)
    BY <1>1 DEF TstFits
<1>4. \A k \in {1, 2} : TstKnows(<<>>, k, 0, Tester!NoInput.k[k])
    BY TstStart
<1>. QED BY <1>1, <1>2, <1>3, <1>4 DEF TstHistory

\* The keyboard is heard under the focus alone
LEMMA TstHandleKeyboardStep ==
    ASSUME TstIInv, Tester!HandleKeyboard
    PROVE  TstIInv'
<1>0. TstTyped /\ TstQueue
    BY DEF TstIInv
<1> DEFINE e == Tester!Change(Head(heard).key, Head(heard).down, clock)
<1>1. /\ heard # <<>> /\ heard' = Tail(heard) /\ tester' = Tester!Counted(tester, e)
      /\ UNCHANGED <<switch, clock, plugged, testShown, device, queued, last, sent, edges, whole, tbounds>>
    BY DEF Tester!HandleKeyboard
<1>2. e \in TstChanges /\ Tail(heard) \in Seq(TstChanges)
    <2>1. Head(heard) \in TstChanges /\ Tail(heard) \in Seq(TstChanges) /\ clock \in Nat
        BY <1>0, <1>1 DEF TstTyped
    <2>2. Head(heard).key \in {1, 2} /\ Head(heard).down \in BOOLEAN
        BY <2>1 DEF TstChanges
    <2>. QED BY <2>1, <2>2, TstChange
<1>. HIDE DEF e
<1>3. TstTyped'
    BY <1>0, <1>1, <1>2, TstTesterTyped DEF TstTyped
<1>4. tbounds.focus /\ tbounds' = tbounds
    BY <1>0, <1>1 DEF TstQueue, TstTyped, TstBudgets
<1>5. TstQueue'
    BY <1>0, <1>1, <1>4 DEF TstQueue
<1>. QED BY <1>3, <1>4, <1>5 DEF TstIInv

LEMMA TstOpensStep ==
    ASSUME TstIInv, Tester!Opens
    PROVE  TstIInv'
<1>0. TstTyped /\ TstQueue
    BY DEF TstIInv
<1>1. /\ testShown /\ tbounds.evdev /\ device = "none" /\ device' = "open"
      /\ sent' = sent \o Tester!Readings /\ edges' = edges \o Tester!Readings /\ last' = switch
      /\ UNCHANGED <<switch, clock, plugged, testShown, queued, heard, tester, whole, tbounds>>
    BY DEF Tester!Opens
<1>2. /\ sent' = TstRead(sent) /\ sent' \in Seq(TstChanges)
      /\ edges' = TstRead(edges) /\ edges' \in Seq(TstChanges)
    BY <1>0, <1>1, TstReads DEF TstTyped
<1>3. TstTyped'
    <2>1. last' \in [{1, 2} -> BOOLEAN \cup {None}]
        BY <1>0, <1>1 DEF TstTyped
    <2>. QED BY <1>0, <1>1, <1>2, <2>1 DEF TstTyped
<1>4. queued = <<>>
    BY <1>0, <1>1 DEF TstQueue
<1>5. TstMeets(<<>>, switch, switch)
    <2>1. 1 .. Len(<<>>) = {}
        OBVIOUS
    <2>. QED BY <2>1 DEF TstMeets
<1>6. TstQueue'
    <2>1. queued' = <<>>
        BY <1>1, <1>4
    <2>2. TstMeets(queued', last', switch')
        BY <1>1, <1>5, <2>1
    <2>3. testShown' /\ tbounds'.evdev /\ heard' = heard /\ tbounds' = tbounds
        BY <1>1
    <2>. QED BY <1>0, <2>1, <2>2, <2>3 DEF TstQueue
<1>7. ASSUME TstSeen PROVE TstSeen'
    <2>1. \A k \in {1, 2} : ~TstEndsPressed(edges, k, Len(edges))
        BY <1>1, <1>7 DEF TstSeen
    <2>2. TstHistory(edges, sent, <<>>, clock, tester)
        BY <1>4, <1>7 DEF TstSeen
    <2>3. /\ TstHistory(TstRead(edges), TstRead(sent), <<>>, clock, tester)
          /\ \A k \in {1, 2} : TstEndsPressed(TstRead(edges), k, Len(TstRead(edges))) => switch[k]
        BY <1>0, <2>1, <2>2, TstReadGrows
    <2>4. TstHistory(edges', sent', queued', clock', tester')
        BY <1>1, <1>2, <1>4, <2>3
    <2>5. \A k \in {1, 2} : TstEndsPressed(edges', k, Len(edges')) => switch'[k]
        BY <1>1, <1>2, <2>3
    <2>. QED BY <1>1, <2>4, <2>5 DEF TstSeen
<1>8. tbounds' = tbounds /\ whole' = whole
    BY <1>1
<1>. QED BY <1>1, <1>3, <1>6, <1>7, <1>8 DEF TstIInv

LEMMA TstFetchesStep ==
    ASSUME TstIInv, Tester!Fetches
    PROVE  TstIInv'
<1>0. TstTyped /\ TstQueue
    BY DEF TstIInv
<1> DEFINE e == Head(queued)
<1>1. /\ testShown /\ device = "open" /\ queued # <<>> /\ queued' = Tail(queued)
      /\ sent' = IF last[e.key] = e.down THEN sent
                 ELSE Append(sent, Tester!Change(e.key, e.down, Tester!Stamp(e)))
      /\ last' = [last EXCEPT ![e.key] = e.down]
      /\ UNCHANGED <<switch, clock, plugged, testShown, device, heard, tester, edges, whole, tbounds>>
    BY DEF Tester!Fetches
<1>2. e \in TstChanges /\ Tail(queued) \in Seq(TstChanges)
    BY <1>0, <1>1 DEF TstTyped
<1>3. Tester!Change(e.key, e.down, Tester!Stamp(e)) = e
    BY <1>2 DEF Tester!Change, Tester!Stamp, TstChanges
<1>4. /\ TstMeets(Tail(queued), [last EXCEPT ![e.key] = e.down], switch)
      /\ last[e.key] # e.down /\ tbounds.evdev
    <2>1. TstMeets(queued, last, switch) /\ tbounds.evdev
        BY <1>0, <1>1 DEF TstQueue
    <2>2. /\ queued \in Seq(TstChanges) /\ last \in [{1, 2} -> BOOLEAN \cup {None}]
          /\ switch \in [{1, 2} -> BOOLEAN]
        BY <1>0 DEF TstTyped
    <2>. QED BY <1>1, <2>1, <2>2, TstFetched
<1>5. sent' = Append(sent, Head(queued)) /\ queued' = Tail(queued)
    BY <1>1, <1>3, <1>4
<1>6. TstTyped'
    <2>1. e.key \in {1, 2} /\ e.down \in BOOLEAN
        BY <1>2 DEF TstChanges
    <2>2. last' \in [{1, 2} -> BOOLEAN \cup {None}]
        BY <1>0, <1>1, <2>1 DEF TstTyped
    <2>3. sent' \in Seq(TstChanges)
        BY <1>0, <1>2, <1>5 DEF TstTyped
    <2>. QED BY <1>0, <1>1, <1>2, <2>2, <2>3 DEF TstTyped
<1>7. TstQueue'
    <2>1. TstMeets(queued', last', switch')
        BY <1>1, <1>4
    <2>. QED BY <1>0, <1>1, <2>1 DEF TstQueue
<1>8. ASSUME TstSeen PROVE TstSeen'
    <2>1. TstHistory(edges, Append(sent, Head(queued)), Tail(queued), clock, tester)
        BY <1>0, <1>1, <1>8, TstSends DEF TstSeen, TstTyped
    <2>2. TstHistory(edges', sent', queued', clock', tester')
        BY <1>1, <1>5, <2>1
    <2>. QED BY <1>1, <1>8, <2>2 DEF TstSeen
<1>9. tbounds' = tbounds /\ whole' = whole
    BY <1>1
<1>. QED BY <1>4, <1>6, <1>7, <1>8, <1>9 DEF TstIInv

LEMMA TstLostStep ==
    ASSUME TstIInv, Tester!Lost
    PROVE  TstIInv'
<1>0. TstTyped /\ TstQueue
    BY DEF TstIInv
<1>1. /\ device = "gone" /\ device' = "none"
      /\ UNCHANGED <<switch, clock, plugged, testShown, queued, last, sent, heard, tester, edges, whole, tbounds>>
    BY DEF Tester!Lost
<1>2. TstTyped'
    BY <1>0, <1>1 DEF TstTyped
<1>3. TstQueue'
    BY <1>0, <1>1 DEF TstQueue
<1>4. ASSUME TstSeen PROVE TstSeen'
    <2>1. TstHistory(edges', sent', queued', clock', tester')
        BY <1>1, <1>4 DEF TstSeen
    <2>2. \A k \in {1, 2} : ~TstEndsPressed(edges', k, Len(edges'))
        BY <1>1, <1>4 DEF TstSeen
    <2>. QED BY <2>1, <2>2 DEF TstSeen
<1>5. tbounds' = tbounds /\ whole' = whole /\ tbounds.evdev
    BY <1>0, <1>1 DEF TstQueue
<1>. QED BY <1>2, <1>3, <1>4, <1>5 DEF TstIInv

LEMMA TstSamplesStep ==
    ASSUME TstIInv, Tester!Samples
    PROVE  TstIInv'
<1>0. TstTyped /\ TstQueue
    BY DEF TstIInv
<1>1. /\ testShown /\ ~tbounds.evdev
      /\ sent' = sent \o Tester!Readings /\ last' = switch
      /\ edges' = IF last = Tester!NothingSent THEN edges \o Tester!Readings ELSE edges
      /\ UNCHANGED <<switch, clock, plugged, testShown, device, queued, heard, tester, whole, tbounds>>
    BY DEF Tester!Samples
<1>2. Tester!NothingSent = [k \in {1, 2} |-> None]
    BY DEF Tester!NothingSent, Tester!TwoKeys
<1>3. /\ sent' = TstRead(sent) /\ sent' \in Seq(TstChanges)
      /\ edges' = IF last = [k \in {1, 2} |-> None] THEN TstRead(edges) ELSE edges
      /\ edges' \in Seq(TstChanges)
    BY <1>0, <1>1, <1>2, TstReads DEF TstTyped
<1>4. TstTyped'
    <2>1. last' \in [{1, 2} -> BOOLEAN \cup {None}]
        BY <1>0, <1>1 DEF TstTyped
    <2>. QED BY <1>0, <1>1, <1>3, <2>1 DEF TstTyped
<1>5. TstQueue'
    <2>1. device' = device /\ device = "none"
        BY <1>0, <1>1 DEF TstQueue, TstTyped
    <2>. QED BY <1>0, <1>1, <2>1 DEF TstQueue
<1>6. ASSUME TstSampled PROVE TstSampled'
    <2>1. last' \in [{1, 2} -> BOOLEAN] /\ testShown'
        BY <1>0, <1>1 DEF TstTyped
    <2>2. ASSUME NEW k \in {1, 2}
          PROVE  tester'.k[k].presses + TstCount(sent', k) + (IF last'[k] = FALSE /\ switch'[k] THEN 1 ELSE 0)
                 <= TstCount(edges', k)
        <3>1. /\ TstCount(sent', k) = TstCount(sent, k) + (IF last[k] # switch[k] /\ switch[k] THEN 1 ELSE 0)
              /\ TstCount(TstRead(edges), k) =
                     TstCount(edges, k) + (IF last[k] # switch[k] /\ switch[k] THEN 1 ELSE 0)
            BY <1>0, <1>3, TstReadCount DEF TstTyped
        <3>2. /\ tester.k[k].presses + TstCount(sent, k) + (IF last[k] = FALSE /\ switch[k] THEN 1 ELSE 0)
                 <= TstCount(edges, k)
              /\ last = [o \in {1, 2} |-> None] \/ last \in [{1, 2} -> BOOLEAN]
            BY <1>6 DEF TstSampled
        <3>3. TstCount(sent, k) \in Nat /\ TstCount(edges, k) \in Nat /\ tester.k[k].presses \in Nat
            <4>1. tester.k[k] \in TstKeys
                BY <1>0 DEF TstTyped, TstInputs
            <4>. QED BY <1>0, <4>1, TstCounts DEF TstTyped, TstKeys
        <3>4. last'[k] = switch[k] /\ switch'[k] = switch[k] /\ tester' = tester /\ switch[k] \in BOOLEAN
            BY <1>0, <1>1 DEF TstTyped
        <3>5. CASE last = [o \in {1, 2} |-> None]
            <4>1. edges' = TstRead(edges) /\ last[k] = None
                BY <1>3, <3>5
            <4>2. last[k] # FALSE
                BY <4>1, TstConstants
            <4>. QED BY <3>1, <3>2, <3>3, <3>4, <4>1, <4>2
        <3>6. CASE last \in [{1, 2} -> BOOLEAN] /\ last # [o \in {1, 2} |-> None]
            <4>1. edges' = edges /\ last[k] \in BOOLEAN
                BY <1>3, <3>6
            <4>2. CASE last[k] = FALSE
                BY <3>1, <3>2, <3>3, <3>4, <4>1, <4>2
            <4>3. CASE last[k] = TRUE
                <5>1. ~(last[k] # switch[k] /\ switch[k]) /\ ~(last'[k] = FALSE /\ switch'[k])
                    BY <3>4, <4>3
                <5>. QED BY <3>1, <3>2, <3>3, <3>4, <4>1, <4>3, <5>1
            <4>. QED BY <4>1, <4>2, <4>3
        <3>. QED BY <3>2, <3>5, <3>6
    <2>3. \A k \in {1, 2} : TstCount(sent, k)' = TstCount(sent', k) /\ TstCount(edges, k)' = TstCount(edges', k)
        BY DEF TstCount
    <2>. QED BY <2>1, <2>2, <2>3 DEF TstSampled
<1>7. tbounds' = tbounds /\ whole' = whole
    BY <1>1
<1>. QED BY <1>1, <1>4, <1>5, <1>6, <1>7 DEF TstIInv

\* A key changes: the device queues it, and a sampler may never see it
LEMMA TstSwitchesStep ==
    ASSUME TstIInv, NEW key \in {1, 2}, Tester!Switches(key)
    PROVE  TstIInv'
<1>0. TstTyped /\ TstQueue
    BY DEF TstIInv
<1> DEFINE e == Tester!Change(key, ~switch[key], clock)
<1>1. /\ Tester!Costs("edges") /\ switch' = [switch EXCEPT ![key] = ~@]
      /\ queued' = IF device = "open" THEN Append(queued, e) ELSE queued
      /\ heard' = IF testShown /\ tbounds.focus THEN Append(heard, e) ELSE heard
      /\ edges' = IF testShown /\ Tester!Watched THEN Append(edges, e) ELSE edges
      /\ UNCHANGED <<clock, plugged, testShown, device, last, sent, tester, whole>>
    BY DEF Tester!Switches
<1>2. e \in TstChanges /\ e.key = key /\ e.down = ~switch[key] /\ e.at = clock
    <2>1. PICK d \in BOOLEAN : d = ~switch[key]
        OBVIOUS
    <2>2. e = Tester!Change(key, d, clock) /\ clock \in Nat
        BY <1>0, <2>1 DEF TstTyped
    <2>. HIDE DEF e
    <2>3. e \in TstChanges /\ e.key = key /\ e.down = d /\ e.at = clock
        BY <2>2, TstChange
    <2>. QED BY <2>1, <2>3
<1>3. /\ switch' = [switch EXCEPT ![key] = ~switch[key]] /\ switch' \in [{1, 2} -> BOOLEAN]
      /\ switch'[key] = ~switch[key] /\ \A o \in {1, 2} \ {key} : switch'[o] = switch[o]
      /\ switch[key] \in BOOLEAN
    BY <1>0, <1>1 DEF TstTyped
<1>4. TstMeets(queued, last, switch) => TstMeets(Append(queued, e), last, switch')
    <2>1. queued \in Seq(TstChanges) /\ switch \in [{1, 2} -> BOOLEAN] /\ clock \in Nat
        BY <1>0 DEF TstTyped
    <2>. QED BY <1>3, <2>1, TstQueued
<1>. HIDE DEF e
<1>5. /\ tbounds' \in TstBudgets /\ tbounds'.evdev = tbounds.evdev /\ tbounds'.focus = tbounds.focus
    BY <1>0, <1>1, TstCosts DEF TstTyped
<1>6. TstTyped'
    <2>1. queued' \in Seq(TstChanges) /\ heard' \in Seq(TstChanges) /\ edges' \in Seq(TstChanges)
        BY <1>0, <1>1, <1>2 DEF TstTyped
    <2>. QED BY <1>0, <1>1, <1>3, <1>5, <2>1 DEF TstTyped
<1>7. TstQueue'
    <2>1. CASE device = "open"
        <3>1. TstMeets(queued', last', switch')
            BY <1>0, <1>1, <1>4, <2>1 DEF TstQueue
        <3>. QED BY <1>0, <1>1, <1>5, <2>1, <3>1 DEF TstQueue
    <2>2. CASE device # "open"
        BY <1>0, <1>1, <1>5, <2>2 DEF TstQueue
    <2>. QED BY <2>1, <2>2
<1>8. ASSUME tbounds.evdev, TstSeen PROVE TstSeen'
    <2>1. TstHistory(edges, sent, queued, clock, tester)
        BY <1>8 DEF TstSeen
    <2>2. \A k \in {1, 2} : TstEndsPressed(edges, k, Len(edges)) => device = "open" /\ switch[k]
        BY <1>8 DEF TstSeen
    <2>3. CASE device = "open"
        <3>1. queued' = Append(queued, e) /\ edges' = Append(edges, e)
            BY <1>0, <1>1, <1>8, <2>3 DEF TstQueue, Tester!Watched
        <3>2. e.down => ~TstEndsPressed(edges, e.key, Len(edges))
            BY <1>2, <1>3, <2>2
        <3>3. /\ TstHistory(Append(edges, e), sent, Append(queued, e), clock, tester)
              /\ \A k \in {1, 2} : TstEndsPressed(Append(edges, e), k, Len(Append(edges, e))) <=>
                     IF e.key = k THEN e.down ELSE TstEndsPressed(edges, k, Len(edges))
            BY <1>0, <1>2, <2>1, <3>2, TstGrows DEF TstTyped
        <3>4. TstHistory(edges', sent', queued', clock', tester')
            BY <1>1, <3>1, <3>3
        <3>5. \A k \in {1, 2} : TstEndsPressed(edges', k, Len(edges')) => switch'[k]
            BY <1>2, <1>3, <2>2, <3>1, <3>3
        <3>. QED BY <1>1, <2>3, <3>4, <3>5 DEF TstSeen
    <2>4. CASE device # "open"
        <3>1. queued' = queued /\ edges' = edges
            BY <1>1, <1>8, <2>4 DEF Tester!Watched
        <3>2. TstHistory(edges', sent', queued', clock', tester')
            BY <1>1, <2>1, <3>1
        <3>3. \A k \in {1, 2} : ~TstEndsPressed(edges', k, Len(edges'))
            BY <2>2, <2>4, <3>1
        <3>. QED BY <3>2, <3>3 DEF TstSeen
    <2>. QED BY <2>3, <2>4
<1>9. ASSUME ~tbounds.evdev, TstSampled PROVE TstSampled'
    <2>1. last' = [k \in {1, 2} |-> None] \/ (testShown' /\ last' \in [{1, 2} -> BOOLEAN])
        BY <1>1, <1>9 DEF TstSampled
    <2>2. ASSUME NEW k \in {1, 2}
          PROVE  tester'.k[k].presses + TstCount(sent', k) + (IF last'[k] = FALSE /\ switch'[k] THEN 1 ELSE 0)
                 <= TstCount(edges', k)
        <3>1. /\ tester.k[k].presses + TstCount(sent, k) + (IF last[k] = FALSE /\ switch[k] THEN 1 ELSE 0)
                 <= TstCount(edges, k)
            BY <1>9 DEF TstSampled
        <3>2. TstCount(sent, k) \in Nat /\ TstCount(edges, k) \in Nat /\ tester.k[k].presses \in Nat
            <4>1. tester.k[k] \in TstKeys
                BY <1>0 DEF TstTyped, TstInputs
            <4>. QED BY <1>0, <4>1, TstCounts DEF TstTyped, TstKeys
        <3>3. TstCount(Append(edges, e), k) = TstCount(edges, k) + (IF e.key = k /\ e.down THEN 1 ELSE 0)
            BY <1>0, <1>2, TstCounts DEF TstTyped
        <3>4. tester' = tester /\ sent' = sent /\ last' = last
            BY <1>1
        <3>5. TstCount(edges, k) <= TstCount(edges', k)
            BY <1>1, <3>2, <3>3
        <3>6. CASE last[k] = FALSE /\ switch'[k] /\ ~switch[k]
            <4>1. k = key
                BY <1>3, <3>6
            <4>2. testShown /\ last # [o \in {1, 2} |-> None]
                BY <1>9, <3>6, TstConstants DEF TstSampled
            <4>3. Tester!Watched
                BY <1>9, <4>2 DEF Tester!Watched, Tester!NothingSent, Tester!TwoKeys
            <4>4. edges' = Append(edges, e) /\ e.key = k /\ e.down
                BY <1>1, <1>2, <3>6, <4>1, <4>2, <4>3
            <4>5. TstCount(edges', k) = TstCount(edges, k) + 1
                BY <3>3, <4>4
            <4>. QED BY <3>1, <3>2, <3>4, <3>6, <4>5
        <3>7. CASE ~(last[k] = FALSE /\ switch'[k] /\ ~switch[k])
            <4>1. TstCount(edges', k) \in Nat
                BY <1>1, <3>2, <3>3
            <4>. QED BY <3>1, <3>2, <3>4, <3>5, <3>7, <4>1
        <3>. QED BY <3>6, <3>7
    <2>3. \A k \in {1, 2} : TstCount(sent, k)' = TstCount(sent', k) /\ TstCount(edges, k)' = TstCount(edges', k)
        BY DEF TstCount
    <2>. QED BY <2>1, <2>2, <2>3 DEF TstSampled
<1>10. whole' = whole
    BY <1>1
<1>. QED BY <1>5, <1>6, <1>7, <1>8, <1>9, <1>10 DEF TstIInv

LEMMA TstPassesStep ==
    ASSUME TstIInv, Tester!Passes
    PROVE  TstIInv'
<1>0. TstTyped /\ TstQueue
    BY DEF TstIInv
<1>1. /\ Tester!Costs("ticks") /\ clock' = clock + 1
      /\ UNCHANGED <<switch, plugged, testShown, device, queued, last, sent, heard, tester, edges, whole>>
    BY DEF Tester!Passes
<1>2. /\ tbounds' \in TstBudgets /\ tbounds'.evdev = tbounds.evdev /\ tbounds'.focus = tbounds.focus
    BY <1>0, <1>1, TstCosts DEF TstTyped
<1>3. TstTyped'
    BY <1>0, <1>1, <1>2 DEF TstTyped
<1>4. TstQueue'
    BY <1>0, <1>1, <1>2 DEF TstQueue
<1>5. ASSUME TstSeen PROVE TstSeen'
    <2>1. TstHistory(edges, sent, queued, clock + 1, tester)
        BY <1>0, <1>5, TstLater DEF TstSeen, TstTyped
    <2>2. TstHistory(edges', sent', queued', clock', tester')
        BY <1>1, <2>1
    <2>. QED BY <1>1, <1>5, <2>2 DEF TstSeen
<1>6. ASSUME TstSampled PROVE TstSampled'
    BY <1>1, <1>6 DEF TstSampled, TstCount
<1>7. whole' = whole
    BY <1>1
<1>. QED BY <1>2, <1>3, <1>4, <1>5, <1>6, <1>7 DEF TstIInv

\* Nothing that is kept is under way when the pad goes
LEMMA TstUnplugsStep ==
    ASSUME TstIInv, Tester!Unplugs
    PROVE  TstIInv'
<1>0. TstTyped /\ TstQueue
    BY DEF TstIInv
<1>1. /\ Tester!Costs("breaks") /\ plugged' = FALSE
      /\ switch' = [key \in {1, 2} |-> FALSE] /\ queued' = <<>>
      /\ device' = IF device = "open" THEN "gone" ELSE device
      /\ heard' = IF testShown /\ tbounds.focus
                  THEN heard \o Tester!Released(1) \o Tester!Released(2) ELSE heard
      /\ whole' = (whole /\ Tester!Quiet)
      /\ UNCHANGED <<clock, testShown, last, sent, tester, edges>>
    BY DEF Tester!Unplugs, Tester!TwoKeys
<1>2. /\ tbounds' \in TstBudgets /\ tbounds'.evdev = tbounds.evdev /\ tbounds'.focus = tbounds.focus
    BY <1>0, <1>1, TstCosts DEF TstTyped
<1>3. TstTyped'
    <2>1. switch' \in [{1, 2} -> BOOLEAN] /\ queued' \in Seq(TstChanges)
        BY <1>1
    <2>2. heard' \in Seq(TstChanges)
        BY <1>0, <1>1, TstReleases DEF TstTyped
    <2>3. whole' \in BOOLEAN
        BY <1>1 DEF Tester!Quiet
    <2>. QED BY <1>0, <1>1, <1>2, <2>1, <2>2, <2>3 DEF TstTyped
<1>4. TstQueue'
    <2>1. device' # "open" /\ (device' # "none" => device # "none")
        BY <1>0, <1>1 DEF TstTyped
    <2>. QED BY <1>0, <1>1, <1>2, <2>1 DEF TstQueue
<1>5. ASSUME TstSeen, whole' PROVE TstSeen'
    <2>1. Tester!Quiet /\ TstHistory(edges, sent, queued, clock, tester)
        BY <1>1, <1>5 DEF TstSeen
    <2>2. /\ sent = <<>> /\ queued = <<>>
          /\ \A k \in {1, 2} : ~TstEndsPressed(edges, k, Len(edges))
        BY <1>0, <2>1, TstQuietEnds
    <2>3. TstHistory(edges', sent', queued', clock', tester')
        BY <1>1, <2>1, <2>2
    <2>4. \A k \in {1, 2} : ~TstEndsPressed(edges', k, Len(edges'))
        BY <1>1, <2>2
    <2>. QED BY <2>3, <2>4 DEF TstSeen
<1>6. ASSUME TstSampled PROVE TstSampled'
    <2>1. ASSUME NEW k \in {1, 2}
          PROVE  tester'.k[k].presses + TstCount(sent', k) + (IF last'[k] = FALSE /\ switch'[k] THEN 1 ELSE 0)
                 <= TstCount(edges', k)
        <3>1. /\ tester.k[k].presses + TstCount(sent, k) + (IF last[k] = FALSE /\ switch[k] THEN 1 ELSE 0)
                 <= TstCount(edges, k)
            BY <1>6 DEF TstSampled
        <3>2. TstCount(sent, k) \in Nat /\ TstCount(edges, k) \in Nat /\ tester.k[k].presses \in Nat
            <4>1. tester.k[k] \in TstKeys
                BY <1>0 DEF TstTyped, TstInputs
            <4>. QED BY <1>0, <4>1, TstCounts DEF TstTyped, TstKeys
        <3>3. ~switch'[k] /\ tester' = tester /\ sent' = sent /\ edges' = edges
            BY <1>1
        <3>. QED BY <3>1, <3>2, <3>3
    <2>2. \A k \in {1, 2} : TstCount(sent, k)' = TstCount(sent', k) /\ TstCount(edges, k)' = TstCount(edges', k)
        BY DEF TstCount
    <2>. QED BY <1>1, <1>6, <2>1, <2>2 DEF TstSampled
<1>7. whole' => whole
    BY <1>1
<1>. QED BY <1>2, <1>3, <1>4, <1>5, <1>6, <1>7 DEF TstIInv

LEMMA TstLeavesStep ==
    ASSUME TstIInv, Tester!Leaves
    PROVE  TstIInv'
<1>0. TstTyped /\ TstQueue
    BY DEF TstIInv
<1>1. /\ Tester!Costs("breaks") /\ testShown' = FALSE
      /\ device' = "none" /\ queued' = <<>> /\ last' = [k \in {1, 2} |-> None]
      /\ sent' = <<>> /\ heard' = <<>> /\ whole' = (whole /\ Tester!Quiet)
      /\ UNCHANGED <<switch, clock, plugged, tester, edges>>
    BY DEF Tester!Leaves, Tester!NothingSent, Tester!TwoKeys
<1>2. /\ tbounds' \in TstBudgets /\ tbounds'.evdev = tbounds.evdev /\ tbounds'.focus = tbounds.focus
    BY <1>0, <1>1, TstCosts DEF TstTyped
<1>3. TstTyped'
    <2>1. last' \in [{1, 2} -> BOOLEAN \cup {None}] /\ <<>> \in Seq(TstChanges)
        BY <1>1
    <2>2. whole' \in BOOLEAN
        BY <1>1 DEF Tester!Quiet
    <2>. QED BY <1>0, <1>1, <1>2, <2>1, <2>2 DEF TstTyped
<1>4. TstQueue'
    BY <1>1 DEF TstQueue
<1>5. ASSUME TstSeen, whole' PROVE TstSeen'
    <2>1. Tester!Quiet /\ TstHistory(edges, sent, queued, clock, tester)
        BY <1>1, <1>5 DEF TstSeen
    <2>2. /\ sent = <<>> /\ queued = <<>>
          /\ \A k \in {1, 2} : ~TstEndsPressed(edges, k, Len(edges))
        BY <1>0, <2>1, TstQuietEnds
    <2>3. TstHistory(edges', sent', queued', clock', tester')
        BY <1>1, <2>1, <2>2
    <2>4. \A k \in {1, 2} : ~TstEndsPressed(edges', k, Len(edges'))
        BY <1>1, <2>2
    <2>. QED BY <2>3, <2>4 DEF TstSeen
<1>6. ASSUME TstSampled PROVE TstSampled'
    <2>1. ASSUME NEW k \in {1, 2}
          PROVE  tester'.k[k].presses + TstCount(sent', k) + (IF last'[k] = FALSE /\ switch'[k] THEN 1 ELSE 0)
                 <= TstCount(edges', k)
        <3>1. /\ tester.k[k].presses + TstCount(sent, k) + (IF last[k] = FALSE /\ switch[k] THEN 1 ELSE 0)
                 <= TstCount(edges, k)
            BY <1>6 DEF TstSampled
        <3>2. TstCount(sent, k) \in Nat /\ TstCount(edges, k) \in Nat /\ tester.k[k].presses \in Nat
            <4>1. tester.k[k] \in TstKeys
                BY <1>0 DEF TstTyped, TstInputs
            <4>. QED BY <1>0, <4>1, TstCounts DEF TstTyped, TstKeys
        <3>3. last'[k] # FALSE /\ tester' = tester /\ edges' = edges
            BY <1>1, TstConstants
        <3>4. TstCount(sent', k) = 0
            <4>1. <<>> \in Seq(TstChanges)
                OBVIOUS
            <4>2. TstCount(<<>>, k) = 0
                BY <4>1, TstCounts
            <4>3. sent' = <<>>
                BY <1>1
            <4>. QED BY <4>2, <4>3 DEF TstCount
        <3>5. (IF last'[k] = FALSE /\ switch'[k] THEN 1 ELSE 0) = 0
            BY <3>3
        <3>6. tester.k[k].presses <= TstCount(edges, k)
            BY <3>1, <3>2
        <3>7. tester'.k[k].presses = tester.k[k].presses /\ TstCount(edges', k) = TstCount(edges, k)
            BY <3>3
        <3>. QED BY <3>2, <3>4, <3>5, <3>6, <3>7
    <2>2. \A k \in {1, 2} : TstCount(sent, k)' = TstCount(sent', k) /\ TstCount(edges, k)' = TstCount(edges', k)
        BY DEF TstCount
    <2>. QED BY <1>1, <2>1, <2>2 DEF TstSampled
<1>7. whole' => whole
    BY <1>1
<1>. QED BY <1>2, <1>3, <1>4, <1>5, <1>6, <1>7 DEF TstIInv

LEMMA TstComesStep ==
    ASSUME TstIInv, Tester!Plugs \/ Tester!Returns
    PROVE  TstIInv'
<1>0. TstTyped /\ TstQueue
    BY DEF TstIInv
<1>1. /\ plugged' \in BOOLEAN /\ testShown' \in BOOLEAN /\ (testShown => testShown')
      /\ UNCHANGED <<switch, clock, device, queued, last, sent, heard, tester, edges, whole, tbounds>>
    BY <1>0 DEF Tester!Plugs, Tester!Returns, TstTyped
<1>2. TstTyped'
    BY <1>0, <1>1 DEF TstTyped
<1>3. TstQueue'
    BY <1>0, <1>1 DEF TstQueue
<1>4. ASSUME TstSeen PROVE TstSeen'
    <2>1. TstHistory(edges', sent', queued', clock', tester')
        BY <1>1, <1>4 DEF TstSeen
    <2>. QED BY <1>1, <1>4, <2>1 DEF TstSeen
<1>5. ASSUME TstSampled PROVE TstSampled'
    BY <1>1, <1>5 DEF TstSampled, TstCount
<1>6. whole' = whole /\ tbounds' = tbounds
    BY <1>1
<1>. QED BY <1>2, <1>3, <1>4, <1>5, <1>6 DEF TstIInv

\* The tester starts again, and so does the history: with what is under way
LEMMA TstResetsStep ==
    ASSUME TstIInv, Tester!Resets
    PROVE  TstIInv'
<1>0. TstTyped /\ TstQueue
    BY DEF TstIInv
<1>1. /\ Tester!Costs("resets") /\ tester' = Tester!NoInput
      /\ edges' = sent \o (IF tbounds.evdev THEN queued ELSE Tester!Readings)
      /\ whole' = (whole \/ Tester!Quiet)
      /\ UNCHANGED <<switch, clock, plugged, testShown, device, queued, last, sent, heard>>
    BY DEF Tester!Resets
<1>2. /\ tbounds' \in TstBudgets /\ tbounds'.evdev = tbounds.evdev /\ tbounds'.focus = tbounds.focus
    BY <1>0, <1>1, TstCosts DEF TstTyped
<1>3. /\ sent \o queued \in Seq(TstChanges) /\ sent \o Tester!Readings = TstRead(sent)
      /\ TstRead(sent) \in Seq(TstChanges)
    <2>1. sent \in Seq(TstChanges) /\ queued \in Seq(TstChanges)
        BY <1>0 DEF TstTyped
    <2>2. sent \o queued \in Seq(TstChanges)
        BY <2>1
    <2>. QED BY <1>0, <2>1, <2>2, TstReads
<1>4. TstTyped'
    <2>1. edges' \in Seq(TstChanges)
        BY <1>1, <1>3
    <2>2. whole' \in BOOLEAN
        BY <1>1 DEF Tester!Quiet
    <2>3. /\ tester' \in TstInputs
          /\ \A k \in {1, 2} : tester'.k[k].chatter + tester'.k[k].flutter <= tester'.k[k].presses
        BY <1>1, TstFreshTyped
    <2>. QED BY <1>0, <1>1, <1>2, <2>1, <2>2, <2>3 DEF TstTyped
<1>5. TstQueue'
    BY <1>0, <1>1, <1>2 DEF TstQueue
<1>6. ASSUME tbounds.evdev, whole => TstSeen, whole' PROVE TstSeen'
    <2>0. edges' = sent \o queued
        BY <1>1, <1>6
    <2>1. CASE whole
        <3>1. TstHistory(edges, sent, queued, clock, tester)
            BY <1>6, <2>1 DEF TstSeen
        <3>2. /\ TstHistory(sent \o queued, sent, queued, clock, Tester!NoInput)
              /\ \A k \in {1, 2} : TstEndsPressed(sent \o queued, k, Len(sent \o queued))
                                   => TstEndsPressed(edges, k, Len(edges))
            BY <1>0, <3>1, TstRestarts DEF TstTyped
        <3>3. TstHistory(edges', sent', queued', clock', tester')
            BY <1>1, <2>0, <3>2
        <3>4. \A k \in {1, 2} : TstEndsPressed(edges', k, Len(edges')) => TstEndsPressed(edges, k, Len(edges))
            BY <2>0, <3>2
        <3>. QED BY <1>1, <1>6, <2>1, <3>3, <3>4 DEF TstSeen
    <2>2. CASE ~whole
        <3>1. sent = <<>> /\ queued = <<>>
            BY <1>1, <1>6, <2>2 DEF Tester!Quiet
        <3>2. sent' = <<>> /\ queued' = <<>> /\ edges' = <<>> /\ tester' = Tester!NoInput
            BY <1>1, <2>0, <3>1
        <3>3. /\ TstHistory(edges', sent', queued', clock', tester')
              /\ \A k \in {1, 2} : ~TstEndsPressed(edges', k, Len(edges'))
            BY <3>2, TstEmpty
        <3>. QED BY <3>3 DEF TstSeen
    <2>. QED BY <2>1, <2>2
<1>7. ASSUME ~tbounds.evdev, TstSampled PROVE TstSampled'
    <2>1. edges' = TstRead(sent)
        BY <1>1, <1>3, <1>7
    <2>2. ASSUME NEW k \in {1, 2}
          PROVE  tester'.k[k].presses + TstCount(sent', k) + (IF last'[k] = FALSE /\ switch'[k] THEN 1 ELSE 0)
                 <= TstCount(edges', k)
        <3>1. TstCount(TstRead(sent), k) =
                  TstCount(sent, k) + (IF last[k] # switch[k] /\ switch[k] THEN 1 ELSE 0)
            BY <1>0, TstReadCount DEF TstTyped
        <3>2. TstCount(sent, k) \in Nat /\ switch[k] \in BOOLEAN
            BY <1>0, TstCounts DEF TstTyped
        <3>3. tester'.k[k].presses = 0 /\ sent' = sent /\ last' = last /\ switch' = switch
            BY <1>1, TstFreshTyped
        <3>4. CASE last[k] = FALSE /\ switch[k]
            <4>1. last[k] # switch[k] /\ switch[k]
                BY <3>2, <3>4
            <4>. QED BY <2>1, <3>1, <3>2, <3>3, <4>1
        <3>5. CASE ~(last[k] = FALSE /\ switch[k])
            BY <2>1, <3>1, <3>2, <3>3, <3>5
        <3>. QED BY <3>4, <3>5
    <2>3. \A k \in {1, 2} : TstCount(sent, k)' = TstCount(sent', k) /\ TstCount(edges, k)' = TstCount(edges', k)
        BY DEF TstCount
    <2>. QED BY <1>1, <1>7, <2>2, <2>3 DEF TstSampled
<1>. QED BY <1>2, <1>4, <1>5, <1>6, <1>7 DEF TstIInv

LEMMA TesterInitial ==
    ASSUME Tester!TesterInit
    PROVE  TstIInv
<1>1. /\ switch = [key \in {1, 2} |-> FALSE] /\ clock = 0 /\ testShown = TRUE
      /\ device = "none" /\ queued = <<>> /\ last = [key \in {1, 2} |-> None]
      /\ sent = <<>> /\ heard = <<>> /\ tester = Tester!NoInput /\ edges = <<>>
    BY DEF Tester!TesterInit, Tester!NothingSent, Tester!TwoKeys
<1>2. TstTyped
    BY TstTypedInit
<1>3. TstQueue
    BY <1>1 DEF TstQueue
<1>4. TstSeen
    BY <1>1, TstEmpty DEF TstSeen
<1>5. TstSampled
    <2>1. <<>> \in Seq(TstChanges)
        OBVIOUS
    <2>2. \A k \in {1, 2} : TstCount(<<>>, k) = 0
        BY <2>1, TstCounts
    <2>3. \A k \in {1, 2} : TstCount(sent, k) = 0 /\ TstCount(edges, k) = 0
        BY <1>1, <2>2
    <2>4. \A k \in {1, 2} : tester.k[k].presses = 0 /\ ~switch[k]
        BY <1>1, TstFreshTyped
    <2>. QED BY <1>1, <2>3, <2>4 DEF TstSampled
<1>. QED BY <1>2, <1>3, <1>4, <1>5 DEF TstIInv

LEMMA TesterStep ==
    ASSUME TstIInv, [Tester!TesterNext]_tstvars
    PROVE  TstIInv'
<1>1. CASE Tester!Handle
    BY <1>1, TstHandleStep
<1>2. CASE Tester!HandleKeyboard
    BY <1>2, TstHandleKeyboardStep
<1>3. CASE Tester!Opens
    BY <1>3, TstOpensStep
<1>4. CASE Tester!Fetches
    BY <1>4, TstFetchesStep
<1>5. CASE Tester!Lost
    BY <1>5, TstLostStep
<1>6. CASE Tester!Samples
    BY <1>6, TstSamplesStep
<1>7. CASE Tester!Passes
    BY <1>7, TstPassesStep
<1>8. CASE Tester!Unplugs
    BY <1>8, TstUnplugsStep
<1>9. CASE Tester!Leaves
    BY <1>9, TstLeavesStep
<1>10. CASE Tester!Plugs \/ Tester!Returns
    BY <1>10, TstComesStep
<1>11. CASE Tester!Resets
    BY <1>11, TstResetsStep
<1>12. ASSUME NEW key \in {1, 2}, Tester!Switches(key) PROVE TstIInv'
    BY <1>12, TstSwitchesStep
<1>13. CASE UNCHANGED tstvars
    BY <1>13 DEF TstIInv, TstTyped, TstQueue, TstSeen, TstSampled, TstCount, tstvars
<1>. QED BY <1>1, <1>2, <1>3, <1>4, <1>5, <1>6, <1>7, <1>8, <1>9, <1>10, <1>11, <1>12, <1>13
         DEF Tester!TesterNext, Tester!TwoKeys

\* The tester's counts are those of the history's part it was told
LEMMA TesterHolds ==
    ASSUME TstIInv
    PROVE  Tester!ChatterIsTheSwitches /\ Tester!TesterTypeOK
<1>0. TstTyped /\ TstQueue /\ edges \in Seq(TstChanges)
    BY DEF TstIInv, TstTyped
<1>1. Tester!TesterTypeOK
    BY <1>0 DEF TstTyped, Tester!TesterTypeOK, Tester!TwoKeys
<1>2. \A k \in {1, 2} : Tester!PressesOf(k) = TstPresses(edges, k, Len(edges))
    <2>1. DOMAIN edges = 1 .. Len(edges)
        BY <1>0
    <2>. QED BY <2>1 DEF Tester!PressesOf, Tester!Pressing, TstPresses, TstPress
<1>3. ASSUME NEW k \in {1, 2} PROVE Tester!BouncesOf(k) = TstBounces(edges, k, Len(edges))
    <2>1. ASSUME NEW i \in 1 .. Len(edges), TstPress(edges, k, i)
          PROVE  (\E j \in Tester!ReleasedBefore(i) : edges[i].at - edges[j].at < Bounce) <=> TstBounce(edges, k, i)
        <3>1. edges[i].key = k
            BY <2>1 DEF TstPress
        <3>2. \A j : j \in Tester!ReleasedBefore(i) <=>
                        /\ j \in 1 .. (i - 1) /\ TstRelease(edges, k, j)
                        /\ TstUntouched(edges, k, j + 1, i - 1)
            BY <3>1 DEF Tester!ReleasedBefore, Tester!Pressing, TstRelease, TstPress, TstNone, TstUntouched
        <3>. QED BY <2>1, <3>2 DEF TstBounce
    <2>2. \A i : i \in Tester!BouncesOf(k) <=>
                    /\ i \in TstPresses(edges, k, Len(edges))
                    /\ \E j \in Tester!ReleasedBefore(i) : edges[i].at - edges[j].at < Bounce
        BY <1>2 DEF Tester!BouncesOf
    <2>3. \A i : i \in TstPresses(edges, k, Len(edges)) <=> i \in 1 .. Len(edges) /\ TstPress(edges, k, i)
        BY DEF TstPresses
    <2>4. \A i : i \in TstBounces(edges, k, Len(edges)) <=> i \in 1 .. Len(edges) /\ TstBounce(edges, k, i)
        BY DEF TstBounces
    <2>5. \A i : TstBounce(edges, k, i) => TstPress(edges, k, i)
        BY DEF TstBounce
    <2>. QED BY <2>1, <2>2, <2>3, <2>4, <2>5
<1>4. \A s : Tester!Cardinality(s) = Cardinality(s)
    BY DEF Tester!Cardinality, Cardinality
<1>5. \A k \in {1, 2} : tester.k[k].presses \in Nat /\ tester.k[k].chatter \in Nat
    <2>1. \A k \in {1, 2} : tester.k[k] \in TstKeys
        BY <1>0 DEF TstTyped, TstInputs
    <2>. QED BY <2>1 DEF TstKeys
<1>6. ASSUME tbounds.evdev, TstSeen, NEW k \in {1, 2}
      PROVE  /\ tester.k[k].presses <= Cardinality(TstPresses(edges, k, Len(edges)))
             /\ tester.k[k].chatter <= Cardinality(TstBounces(edges, k, Len(edges)))
             /\ sent = <<>> /\ queued = <<>> =>
                   /\ tester.k[k].presses = Cardinality(TstPresses(edges, k, Len(edges)))
                   /\ tester.k[k].chatter = Cardinality(TstBounces(edges, k, Len(edges)))
    <2>1. PICK n \in Nat : TstFits(edges, sent, queued, n) /\ TstKnows(edges, k, n, tester.k[k])
        BY <1>6 DEF TstSeen, TstHistory
    <2>2. Len(edges) = n + Len(sent) + Len(queued) /\ Len(sent) \in Nat /\ Len(queued) \in Nat
        BY <1>0, <2>1 DEF TstFits, TstTyped
    <2>3. sent = <<>> /\ queued = <<>> => Len(edges) = n
        <3>1. sent = <<>> /\ queued = <<>> => Len(sent) = 0 /\ Len(queued) = 0
            OBVIOUS
        <3>. QED BY <2>2, <3>1
    <2>4. n <= Len(edges) /\ Len(edges) \in Nat
        BY <2>2
    <2>5. /\ TstPresses(edges, k, n) \subseteq TstPresses(edges, k, Len(edges))
          /\ TstBounces(edges, k, n) \subseteq TstBounces(edges, k, Len(edges))
        BY <2>4 DEF TstPresses, TstBounces
    <2>6. /\ Cardinality(TstPresses(edges, k, n)) <= Cardinality(TstPresses(edges, k, Len(edges)))
          /\ Cardinality(TstBounces(edges, k, n)) <= Cardinality(TstBounces(edges, k, Len(edges)))
        BY <2>4, <2>5, TstFinite, FS_Subset
    <2>. QED BY <2>1, <2>3, <2>6 DEF TstKnows
<1>7. ASSUME TstSampled, NEW k \in {1, 2}
      PROVE  tester.k[k].presses <= Cardinality(TstPresses(edges, k, Len(edges)))
    <2>1. tester.k[k].presses + TstCount(sent, k) + (IF last[k] = FALSE /\ switch[k] THEN 1 ELSE 0)
          <= TstCount(edges, k)
        BY <1>7 DEF TstSampled
    <2>2. TstCount(sent, k) \in Nat /\ TstCount(edges, k) \in Nat
        BY <1>0, TstCounts DEF TstTyped
    <2>. QED BY <1>5, <2>1, <2>2 DEF TstCount
<1>8. Tester!ChatterIsTheSwitches
    BY <1>2, <1>3, <1>4, <1>6, <1>7 DEF TstIInv, Tester!ChatterIsTheSwitches, Tester!TwoKeys
<1>. QED BY <1>1, <1>8

-----------------------------------------------------------------------------
(* The monitor of the debug firmware's log *)

HeTimes == {t \in Nat : t < Wrap}
HeTags == {"up", "down", "pre", "tap", "missed", "late", "stuck", "off"}
HeLines == [tag : HeTags, key : {1, 2}, ms : HeTimes, of : Nat, v : BOOLEAN]
HeStrokes == [key : {1, 2}, down : BOOLEAN, ms : HeTimes, jump : BOOLEAN]
HeThree == {"short", "repress", "phantom"}
HeKinds == HeThree \cup {"presses", "missed", "late", "stuck", "off"}
HeEvents == [kind : HeKinds, key : {1, 2}, of : Nat]
HeJudges == [down : [{1, 2} -> HeTimes \cup {None}], up : [{1, 2} -> HeTimes \cup {None}],
             pending : {1, 2, None}]
HeBudgets == [edges : Nat, ticks : HeTimes, losses : Nat, breaks : Nat, keys : SUBSET {1, 2}, mx : BOOLEAN]

LEMMA HeConstants ==
    /\ MaxLines \in Nat /\ MaxLines > 0 /\ ShortMs \in Nat /\ RepressMs \in Nat /\ Wrap \in Nat /\ Wrap > 0
    /\ None \notin Nat /\ MonitorBudgets \subseteq HeBudgets
<1>1. /\ MaxLines \in Nat /\ MaxLines > 0 /\ ShortMs \in Nat /\ RepressMs \in Nat /\ Wrap \in Nat /\ Wrap > 0
      /\ None \notin Nat
    BY MonitorAssumption DEF Monitor!MonitorConstants
<1>2. ASSUME NEW b \in MonitorBudgets PROVE b \in HeBudgets
    <2>1. /\ b \in [edges : Nat, ticks : Nat, losses : Nat, breaks : Nat, keys : SUBSET {1, 2}, mx : BOOLEAN]
          /\ b.ticks < Wrap
        BY MonitorAssumption DEF Monitor!MonitorConstants, Monitor!Keys2
    <2>2. b.ticks \in HeTimes
        BY <2>1 DEF HeTimes
    <2>. QED BY <2>1, <2>2 DEF HeBudgets
<1>. QED BY <1>1, <1>2

HeTyped ==
    /\ ms \in HeTimes /\ pressed \in [{1, 2} -> BOOLEAN] /\ strokes \in Seq(HeStrokes)
    /\ files \in Seq(Seq(HeLines)) /\ Len(files) >= 1 /\ there \in BOOLEAN
    /\ written = Len(files[Len(files)]) /\ written <= MaxLines + 1
    /\ followed \in 0 .. Len(files) /\ pos \in Nat
    /\ len = <<>> \/ \E n \in Nat \cup {None} : len = <<n>>
    /\ judge \in HeJudges /\ news \in Seq(HeEvents)
    /\ he = [counts |-> he.counts, off |-> he.off, log |-> he.log] /\ he.log \in Seq(HeEvents)
    /\ cleared \subseteq HeEvents /\ seen \subseteq Nat \X HeLines
    /\ start = <<>> \/ start \in Nat \X Nat
    /\ monHbounds \in HeBudgets

LEMMA HeTakes ==
    ASSUME monHbounds \in HeBudgets, NEW what \in {"ticks", "losses", "breaks"}, Monitor!Takes(what)
    PROVE  /\ monHbounds' \in HeBudgets /\ monHbounds'.mx = monHbounds.mx
           /\ monHbounds'.ticks = IF what = "ticks" THEN monHbounds.ticks - 1 ELSE monHbounds.ticks
           /\ what = "ticks" => monHbounds.ticks > 0
<1>1. /\ monHbounds[what] > 0 /\ monHbounds' = [monHbounds EXCEPT ![what] = @ - 1]
      /\ Wrap \in Nat
    BY HeConstants DEF Monitor!Takes
<1>2. CASE what = "ticks"
    <2>1. monHbounds.ticks - 1 \in HeTimes
        BY <1>1, <1>2 DEF HeBudgets, HeTimes
    <2>. QED BY <1>1, <1>2, <2>1 DEF HeBudgets
<1>3. CASE what = "losses"
    BY <1>1, <1>3 DEF HeBudgets
<1>4. CASE what = "breaks"
    BY <1>1, <1>4 DEF HeBudgets
<1>. QED BY <1>2, <1>3, <1>4

\* The strokes, told by the pad's clock: none is older than it can tell
HeAge(i) == Monitor!Elapsed(ms, strokes[i].ms)
HeClock ==
    /\ \A i \in 1 .. Len(strokes) : HeAge(i) + monHbounds.ticks < Wrap
    /\ \A i, j \in 1 .. Len(strokes) : i <= j => HeAge(j) <= HeAge(i)

HeBefore(S, n) ==
    {i \in 1 .. (n - 1) : S[i].key = S[n].key /\ \A j \in (i + 1) .. (n - 1) : S[j].key # S[n].key}
HeAgo(S, n, limit) == \E i \in HeBefore(S, n) : Monitor!Elapsed(S[n].ms, S[i].ms) < limit
HeDeserves(S, kind, n) ==
    \/ kind = "short" /\ ~S[n].down /\ HeAgo(S, n, ShortMs)
    \/ kind = "repress" /\ S[n].down /\ HeAgo(S, n, RepressMs)
    \/ kind = "phantom" /\ S[n].down /\ S[n].jump

\* A key is down when its last stroke was, and pressed when it was up
HeHeld(S, k, n) ==
    \E i \in 1 .. n : S[i].key = k /\ S[i].down /\ \A j \in (i + 1) .. n : S[j].key # k
HeAlternates ==
    /\ \A k \in {1, 2} : pressed[k] <=> HeHeld(strokes, k, Len(strokes))
    /\ \A n \in 1 .. Len(strokes) : strokes[n].down <=> ~HeHeld(strokes, strokes[n].key, n - 1)

\* Only what came before matters
LEMMA HePrefix ==
    ASSUME NEW S, NEW T, NEW n \in Nat, \A i \in 1 .. n : S[i] = T[i]
    PROVE  /\ \A k : HeHeld(S, k, n) <=> HeHeld(T, k, n)
           /\ n >= 1 => HeBefore(S, n) = HeBefore(T, n)
           /\ n >= 1 => \A kind : HeDeserves(S, kind, n) <=> HeDeserves(T, kind, n)
<1>1. ASSUME NEW k PROVE HeHeld(S, k, n) <=> HeHeld(T, k, n)
    <2>1. \A i \in 1 .. n : \A j \in (i + 1) .. n : j \in 1 .. n
        OBVIOUS
    <2>. QED BY <2>1 DEF HeHeld
<1>2. n >= 1 => HeBefore(S, n) = HeBefore(T, n)
    <2>1. \A i \in 1 .. (n - 1) : i \in 1 .. n /\ \A j \in (i + 1) .. (n - 1) : j \in 1 .. n
        OBVIOUS
    <2>2. n >= 1 => n \in 1 .. n
        OBVIOUS
    <2>. QED BY <2>1, <2>2 DEF HeBefore
<1>3. n >= 1 => \A limit : HeAgo(S, n, limit) <=> HeAgo(T, n, limit)
    <2>1. n >= 1 => \A i \in HeBefore(S, n) : i \in 1 .. n /\ n \in 1 .. n
        BY DEF HeBefore
    <2>. QED BY <1>2, <2>1 DEF HeAgo
<1>4. n >= 1 => S[n] = T[n]
    OBVIOUS
<1>. QED BY <1>1, <1>2, <1>3, <1>4 DEF HeDeserves

\* The last of the strokes of a key before the n-th
LEMMA HeLastStroke ==
    ASSUME NEW S, NEW n \in Nat, NEW m \in 1 .. (n - 1), S[m].key = S[n].key
    PROVE  \E i \in HeBefore(S, n) : m <= i
<1> DEFINE T == {d \in Nat : \E i \in 1 .. (n - 1) : S[i].key = S[n].key /\ m <= i /\ d = n - i}
<1>1. T # {} /\ T \subseteq Nat
    <2>1. n - m \in T
        OBVIOUS
    <2>. QED BY <2>1
<1>2. PICK d \in T : \A c \in T : ~(<<c, d>> \in OpToRel(<, Nat))
    <2>1. IsWellFoundedOn(OpToRel(<, Nat), Nat)
        BY NatLessThanWellFounded
    <2>. HIDE DEF T
    <2>. QED BY <1>1, <2>1, WFMin
<1>3. \A c \in T : ~(c < d)
    BY <1>1, <1>2 DEF OpToRel
<1>4. PICK i \in 1 .. (n - 1) : S[i].key = S[n].key /\ m <= i /\ d = n - i
    OBVIOUS
<1>5. \A j \in (i + 1) .. (n - 1) : S[j].key # S[n].key
    <2>. SUFFICES ASSUME NEW j \in (i + 1) .. (n - 1), S[j].key = S[n].key PROVE FALSE
        OBVIOUS
    <2>1. n - j \in T /\ n - j < n - i
        BY <1>4
    <2>. QED BY <1>3, <1>4, <2>1
<1>. QED BY <1>4, <1>5 DEF HeBefore

\* Of two earlier strokes the earlier is longer ago
LEMMA HeLonger ==
    ASSUME HeTyped, HeClock, NEW n \in 1 .. Len(strokes), NEW i \in 1 .. n, NEW j \in 1 .. n, i <= j
    PROVE  Monitor!Elapsed(strokes[n].ms, strokes[j].ms) <= Monitor!Elapsed(strokes[n].ms, strokes[i].ms)
<1>1. i \in 1 .. Len(strokes) /\ j \in 1 .. Len(strokes) /\ i <= n /\ j <= n
    BY DEF HeTyped
<1>2. strokes[i] \in HeStrokes /\ strokes[j] \in HeStrokes /\ strokes[n] \in HeStrokes
    BY <1>1 DEF HeTyped
<1> DEFINE a == strokes[i].ms
           b == strokes[j].ms
           c == strokes[n].ms
<1>3. a \in HeTimes /\ b \in HeTimes /\ c \in HeTimes /\ ms \in HeTimes
    BY <1>2 DEF HeStrokes, HeTyped
<1>4. /\ Monitor!Elapsed(ms, b) <= Monitor!Elapsed(ms, a)
      /\ Monitor!Elapsed(ms, c) <= Monitor!Elapsed(ms, b)
    BY <1>1 DEF HeClock, HeAge
<1>. HIDE DEF a, b, c
<1>5. Monitor!Elapsed(c, b) <= Monitor!Elapsed(c, a)
    BY <1>3, <1>4, HeConstants DEF HeTimes, Monitor!Elapsed
<1>. QED BY <1>5 DEF a, b, c

\* A stroke more, at this time
LEMMA HeStroke ==
    ASSUME HeTyped, HeClock, HeAlternates, NEW k \in {1, 2}, NEW jump \in BOOLEAN,
           strokes' = Append(strokes, [key |-> k, down |-> ~pressed[k], ms |-> ms, jump |-> jump]),
           pressed' = [pressed EXCEPT ![k] = ~@], ms' = ms,
           monHbounds' \in HeBudgets, monHbounds'.ticks = monHbounds.ticks
    PROVE  /\ strokes' \in Seq(HeStrokes) /\ pressed' \in [{1, 2} -> BOOLEAN]
           /\ Len(strokes') = Len(strokes) + 1 /\ Len(strokes) \in Nat
           /\ \A i \in 1 .. Len(strokes) : strokes'[i] = strokes[i]
           /\ LET e == strokes'[Len(strokes) + 1]
              IN  e.key = k /\ e.ms = ms /\ e.jump = jump /\ (e.down <=> ~pressed[k])
           /\ HeClock' /\ HeAlternates'
<1> DEFINE e == [key |-> k, down |-> ~pressed[k], ms |-> ms, jump |-> jump]
           n == Len(strokes)
           S == strokes
           T == strokes'
<1>1. e \in HeStrokes /\ e.key = k /\ e.ms = ms /\ e.jump = jump /\ (e.down <=> ~pressed[k])
    <2>1. PICK d \in BOOLEAN : d = ~pressed[k]
        OBVIOUS
    <2>2. e = [key |-> k, down |-> d, ms |-> ms, jump |-> jump]
        BY <2>1
    <2>3. e \in HeStrokes /\ e.down = d
        BY <2>2 DEF HeStrokes, HeTyped
    <2>. QED BY <2>1, <2>2, <2>3
<1>2. /\ S \in Seq(HeStrokes) /\ n \in Nat /\ T \in Seq(HeStrokes) /\ Len(T) = n + 1
      /\ T[n + 1] = e /\ \A i \in 1 .. n : T[i] = S[i] /\ S[i] \in HeStrokes
    BY <1>1 DEF HeTyped
<1>3. /\ pressed' \in [{1, 2} -> BOOLEAN] /\ (pressed'[k] <=> ~pressed[k])
      /\ \A o \in {1, 2} \ {k} : pressed'[o] = pressed[o]
    BY DEF HeTyped
<1>. HIDE DEF e, n, S, T
<1>4. 1 .. (n + 1) = (1 .. n) \cup {n + 1} /\ n + 1 \notin 1 .. n
    BY <1>2
<1>5. HeClock'
    <2>1. \A i \in 1 .. n : Monitor!Elapsed(ms', T[i].ms) = Monitor!Elapsed(ms, S[i].ms)
        BY <1>2
    <2>2. /\ Monitor!Elapsed(ms', T[n + 1].ms) = 0
          /\ \A i \in 1 .. n : Monitor!Elapsed(ms, S[i].ms) >= 0
        <3>1. ms \in HeTimes /\ \A i \in 1 .. n : S[i].ms \in HeTimes
            BY <1>2 DEF HeTyped, HeStrokes
        <3>. QED BY <1>1, <1>2, <3>1, HeConstants DEF Monitor!Elapsed, HeTimes
    <2>3. monHbounds'.ticks \in HeTimes /\ monHbounds'.ticks = monHbounds.ticks
        BY DEF HeBudgets
    <2>4. \A i \in 1 .. (n + 1) : Monitor!Elapsed(ms', T[i].ms) + monHbounds'.ticks < Wrap
        BY <1>4, <2>1, <2>2, <2>3, HeConstants DEF HeClock, HeAge, HeTimes, S, n
    <2>5. ASSUME NEW i \in 1 .. (n + 1), NEW j \in 1 .. (n + 1), i <= j
          PROVE  Monitor!Elapsed(ms', T[j].ms) <= Monitor!Elapsed(ms', T[i].ms)
        <3>1. CASE j \in 1 .. n
            <4>1. i \in 1 .. n
                BY <1>2, <2>5, <3>1
            <4>. QED BY <2>1, <2>5, <3>1, <4>1 DEF HeClock, HeAge, S, n
        <3>2. CASE j = n + 1
            <4>1. Monitor!Elapsed(ms', T[i].ms) >= 0
                BY <1>4, <2>1, <2>2
            <4>. QED BY <2>2, <3>2, <4>1
        <3>. QED BY <1>4, <3>1, <3>2
    <2>. QED BY <1>2, <2>4, <2>5 DEF HeClock, HeAge, T
<1>6. ASSUME NEW o \in {1, 2} PROVE pressed'[o] <=> HeHeld(T, o, n + 1)
    <2>1. CASE o = k
        <3>1. HeHeld(T, k, n + 1) <=> ~pressed[k]
            <4>1. ASSUME HeHeld(T, k, n + 1) PROVE ~pressed[k]
                <5>1. PICK i \in 1 .. (n + 1) : T[i].down /\ \A j \in (i + 1) .. (n + 1) : T[j].key # k
                    BY <4>1 DEF HeHeld
                <5>2. i = n + 1
                    <6>1. i \in 1 .. n => n + 1 \in (i + 1) .. (n + 1)
                        BY <1>2
                    <6>. QED BY <1>1, <1>2, <1>4, <5>1, <6>1
                <5>. QED BY <1>1, <1>2, <5>1, <5>2
            <4>2. ASSUME ~pressed[k] PROVE HeHeld(T, k, n + 1)
                <5>1. n + 1 \in 1 .. (n + 1) /\ ((n + 1) + 1) .. (n + 1) = {}
                    BY <1>2
                <5>. QED BY <1>1, <1>2, <4>2, <5>1 DEF HeHeld
            <4>. QED BY <4>1, <4>2
        <3>. QED BY <1>3, <2>1, <3>1
    <2>2. CASE o # k
        <3>1. HeHeld(T, o, n + 1) <=> HeHeld(T, o, n)
            <4>1. ASSUME HeHeld(T, o, n + 1) PROVE HeHeld(T, o, n)
                <5>1. PICK i \in 1 .. (n + 1) : T[i].key = o /\ T[i].down
                                                /\ \A j \in (i + 1) .. (n + 1) : T[j].key # o
                    BY <4>1 DEF HeHeld
                <5>2. i \in 1 .. n /\ \A j \in (i + 1) .. n : j \in (i + 1) .. (n + 1)
                    BY <1>1, <1>2, <1>4, <2>2, <5>1
                <5>. QED BY <5>1, <5>2 DEF HeHeld
            <4>2. ASSUME HeHeld(T, o, n) PROVE HeHeld(T, o, n + 1)
                <5>1. PICK i \in 1 .. n : T[i].key = o /\ T[i].down /\ \A j \in (i + 1) .. n : T[j].key # o
                    BY <4>2 DEF HeHeld
                <5>2. i \in 1 .. (n + 1) /\ \A j \in (i + 1) .. (n + 1) : j \in (i + 1) .. n \/ j = n + 1
                    BY <1>2
                <5>. QED BY <1>1, <1>2, <2>2, <5>1, <5>2 DEF HeHeld
            <4>. QED BY <4>1, <4>2
        <3>2. HeHeld(T, o, n) <=> HeHeld(S, o, n)
            BY <1>2, HePrefix
        <3>. QED BY <1>3, <2>2, <3>1, <3>2 DEF HeAlternates, S, n
    <2>. QED BY <2>1, <2>2
<1>7. ASSUME NEW i \in 1 .. (n + 1) PROVE T[i].down <=> ~HeHeld(T, T[i].key, i - 1)
    <2>1. i - 1 \in Nat /\ \A j \in 1 .. (i - 1) : j \in 1 .. n
        BY <1>2
    <2>2. \A o : HeHeld(T, o, i - 1) <=> HeHeld(S, o, i - 1)
        BY <1>2, <2>1, HePrefix
    <2>3. CASE i \in 1 .. n
        BY <1>2, <2>2, <2>3 DEF HeAlternates, S, n
    <2>4. CASE i = n + 1
        <3>1. i - 1 = n
            BY <1>2, <2>4
        <3>. QED BY <1>1, <1>2, <2>2, <2>4, <3>1 DEF HeAlternates, S, n
    <2>. QED BY <1>4, <2>3, <2>4
<1>8. HeAlternates'
    BY <1>2, <1>6, <1>7 DEF HeAlternates, T
<1>. QED BY <1>1, <1>2, <1>3, <1>5, <1>8 DEF S, T, n

LEMMA HeTicks ==
    ASSUME HeTyped, HeClock, Monitor!TimePasses
    PROVE  HeClock' /\ ms' \in HeTimes
<1>1. /\ Monitor!Takes("ticks") /\ ms' = IF ms + 1 = Wrap THEN 0 ELSE ms + 1
      /\ strokes' = strokes
    BY DEF Monitor!TimePasses
<1>2. monHbounds'.ticks = monHbounds.ticks - 1 /\ monHbounds.ticks > 0 /\ monHbounds.ticks \in HeTimes
    BY <1>1, HeTakes DEF HeTyped, HeBudgets
<1>3. ms \in HeTimes /\ ms' \in HeTimes
    <2>1. ms \in HeTimes
        BY DEF HeTyped
    <2>. QED BY <1>1, <2>1, HeConstants DEF HeTimes
<1>4. ASSUME NEW i \in 1 .. Len(strokes) PROVE Monitor!Elapsed(ms', strokes[i].ms) = HeAge(i) + 1
    <2> DEFINE a == strokes[i].ms
    <2>1. strokes[i] \in HeStrokes
        BY DEF HeTyped
    <2>2. a \in HeTimes
        BY <2>1 DEF HeStrokes
    <2>3. Monitor!Elapsed(ms, a) + monHbounds.ticks < Wrap
        BY DEF HeClock, HeAge
    <2>. HIDE DEF a
    <2>4. Monitor!Elapsed(ms', a) = Monitor!Elapsed(ms, a) + 1
        BY <1>1, <1>2, <1>3, <2>2, <2>3, HeConstants DEF Monitor!Elapsed, HeTimes
    <2>. QED BY <2>4 DEF a, HeAge
<1>5. \A i \in 1 .. Len(strokes) : HeAge(i) \in Int
    <2>1. \A i \in 1 .. Len(strokes) : strokes[i] \in HeStrokes
        BY DEF HeTyped
    <2>2. \A i \in 1 .. Len(strokes) : strokes[i].ms \in HeTimes
        BY <2>1 DEF HeStrokes
    <2>. QED BY <1>3, <2>2, HeConstants DEF HeAge, Monitor!Elapsed, HeTimes
<1>6. \A i \in 1 .. Len(strokes) : HeAge(i)' = HeAge(i) + 1
    BY <1>1, <1>4 DEF HeAge
<1>7. HeClock'
    BY <1>1, <1>2, <1>5, <1>6, HeConstants DEF HeClock, HeTimes
<1>. QED BY <1>3, <1>7

\* The lines of the files: of the stroke each is about, in their order
HeFour == {"up", "down", "pre", "tap"}
HeShows(tag, kind) ==
    \/ kind = "short" /\ tag \in {"up", "tap"}
    \/ kind = "repress" /\ tag = "down"
    \/ kind = "phantom" /\ tag = "pre"

HeLine(S, mx, l) ==
    /\ l.of \in 1 .. (Len(S) + 1)
    /\ l.tag \in HeFour =>
          /\ l.of <= Len(S) /\ S[l.of].key = l.key /\ S[l.of].ms = l.ms
          /\ S[l.of].down <=> l.tag \in {"down", "pre"}
          /\ l.tag = "pre" => l.v = S[l.of].jump
    /\ l.tag = "tap" <=> mx /\ l.tag \in HeFour

HeLogs(F, S, mx) ==
    /\ \A g \in 1 .. Len(F) : \A i \in 1 .. Len(F[g]) :
          /\ HeLine(S, mx, F[g][i])
          /\ F[g][i].tag = "pre" =>
                i > 1 /\ F[g][i - 1].tag = "down" /\ F[g][i - 1].of = F[g][i].of
    /\ \A g \in 1 .. Len(F) : \A i, j \in 1 .. Len(F[g]) : i <= j => F[g][i].of <= F[g][j].of
    /\ \A g, h \in 1 .. Len(F) : \A i \in 1 .. Len(F[g]), j \in 1 .. Len(F[h]), kind \in HeThree :
          HeShows(F[g][i].tag, kind) /\ HeShows(F[h][j].tag, kind) /\ F[g][i].of = F[h][j].of
          => g = h /\ i = j

\* Lines are added to the last file, or make a new one
HeExtends(F, G, N) ==
    \/ G = Append(F, N)
    \/ Len(G) = Len(F) /\ G = [F EXCEPT ![Len(F)] = @ \o N]
HeBase(F, G) == IF Len(G) = Len(F) THEN Len(F[Len(F)]) ELSE 0

LEMMA HePlaces ==
    ASSUME NEW F \in Seq(Seq(HeLines)), Len(F) >= 1, NEW N \in Seq(HeLines), NEW G, HeExtends(F, G, N)
    PROVE  /\ G \in Seq(Seq(HeLines)) /\ Len(F) \in Nat /\ Len(G) \in Nat
           /\ Len(G) = Len(F) \/ Len(G) = Len(F) + 1
           /\ HeBase(F, G) \in Nat /\ Len(N) \in Nat
           /\ Len(G[Len(G)]) = HeBase(F, G) + Len(N)
           /\ Len(G) = Len(F) => HeBase(F, G) = Len(F[Len(F)])
           /\ Len(G) # Len(F) => HeBase(F, G) = 0
           /\ \A i \in 1 .. Len(N) : G[Len(G)][HeBase(F, G) + i] = N[i]
           /\ \A g \in 1 .. Len(F) :
                 /\ g \in 1 .. Len(G) /\ Len(F[g]) \in Nat /\ Len(G[g]) \in Nat /\ Len(F[g]) <= Len(G[g])
                 /\ \A i \in 1 .. Len(F[g]) : G[g][i] = F[g][i]
                 /\ g # Len(G) => G[g] = F[g]
           /\ \A g \in 1 .. Len(G) : g \in 1 .. Len(F) \/ g = Len(G)
           /\ \A i \in 1 .. Len(G[Len(G)]) : i > HeBase(F, G) => i - HeBase(F, G) \in 1 .. Len(N)
<1>1. Len(F) \in Nat /\ Len(F) \in 1 .. Len(F) /\ Len(N) \in Nat /\ \A g \in 1 .. Len(F) : F[g] \in Seq(HeLines)
    OBVIOUS
<1>2. CASE G = Append(F, N)
    <2>1. /\ Len(G) = Len(F) + 1 /\ G[Len(F) + 1] = N /\ \A g \in 1 .. Len(F) : G[g] = F[g]
          /\ G \in Seq(Seq(HeLines))
        BY <1>2
    <2>2. HeBase(F, G) = 0
        BY <1>1, <2>1 DEF HeBase
    <2>3. \A i \in 1 .. Len(N) : 0 + i = i /\ i - 0 = i
        OBVIOUS
    <2>. HIDE <1>2
    <2>. QED BY <1>1, <2>1, <2>2, <2>3
<1>3. CASE Len(G) = Len(F) /\ G = [F EXCEPT ![Len(F)] = @ \o N]
    <2> DEFINE a == Len(F)
               A == F[a]
               B == A \o N
    <2>1. /\ A \in Seq(HeLines) /\ B \in Seq(HeLines) /\ Len(B) = Len(A) + Len(N) /\ Len(A) \in Nat
        BY <1>1
    <2>2. /\ \A i \in 1 .. Len(A) : B[i] = A[i]
          /\ \A i \in 1 .. Len(N) : B[Len(A) + i] = N[i]
        <3>1. \A i \in 1 .. Len(B) : B[i] = IF i <= Len(A) THEN A[i] ELSE N[i - Len(A)]
            BY <2>1
        <3>. HIDE DEF A, B
        <3>2. \A i \in 1 .. Len(A) : i \in 1 .. Len(B) /\ i <= Len(A)
            BY <1>1, <2>1
        <3>3. \A i \in 1 .. Len(N) :
                  Len(A) + i \in 1 .. Len(B) /\ ~(Len(A) + i <= Len(A)) /\ (Len(A) + i) - Len(A) = i
            BY <1>1, <2>1
        <3>. QED BY <3>1, <3>2, <3>3
    <2>3. G[a] = B /\ \A g \in 1 .. a : g # a => G[g] = F[g]
        <3>1. G = [F EXCEPT ![a] = B] /\ a \in DOMAIN F /\ DOMAIN F = 1 .. a
            BY <1>1, <1>3
        <3>. HIDE DEF a, B
        <3>. QED BY <3>1
    <2>4. G \in Seq(Seq(HeLines))
        BY <1>1, <1>3, <2>1
    <2>5. HeBase(F, G) = Len(A)
        BY <1>3 DEF HeBase
    <2>6. Len(G) = a /\ a = Len(F) /\ A = F[a]
        BY <1>3
    <2>. HIDE <1>3 DEF a, A, B
    <2>. QED BY <1>1, <2>1, <2>2, <2>3, <2>4, <2>5, <2>6
<1>. QED BY <1>2, <1>3 DEF HeExtends

\* The lines from a on are not read: nothing they show is found
HeRest(F, D, X, g, a) ==
    \A i \in 1 .. Len(F[g]) : i > a /\ F[g][i].tag \in HeFour =>
        /\ <<g, F[g][i]>> \notin X
        /\ \A e \in D : HeShows(F[g][i].tag, e.kind) => e.of # F[g][i].of

\* What is new in the files is of a stroke nobody knew
HeNew(D, X, N) ==
    \A i \in 1 .. Len(N) : N[i].tag \in HeFour =>
        /\ \A g : <<g, N[i]>> \notin X
        /\ \A e \in D : HeShows(N[i].tag, e.kind) => e.of # N[i].of

LEMMA HeRestGrows ==
    ASSUME NEW F \in Seq(Seq(HeLines)), Len(F) >= 1, NEW N \in Seq(HeLines), NEW G, HeExtends(F, G, N),
           NEW D, NEW X, HeNew(D, X, N)
    PROVE  /\ \A g \in 1 .. Len(F), a \in Nat : HeRest(F, D, X, g, a) => HeRest(G, D, X, g, a)
           /\ Len(G) # Len(F) => \A a \in Nat : HeRest(G, D, X, Len(G), a)
<1> DEFINE b == HeBase(F, G)
           h == Len(G)
<1>1. /\ b \in Nat /\ Len(N) \in Nat /\ h \in Nat /\ Len(F) \in Nat
      /\ \A i \in 1 .. Len(N) : G[h][b + i] = N[i]
      /\ \A g \in 1 .. Len(F) :
            /\ \A i \in 1 .. Len(F[g]) : G[g][i] = F[g][i]
            /\ g # h => G[g] = F[g]
      /\ \A i \in 1 .. Len(G[h]) : i > b => i - b \in 1 .. Len(N)
      /\ h = Len(F) => b = Len(F[h])
      /\ h # Len(F) => b = 0
      /\ \A g \in 1 .. Len(F) : Len(F[g]) \in Nat /\ Len(G[g]) \in Nat
      /\ h = Len(F) \/ h = Len(F) + 1
      /\ Len(G[h]) = b + Len(N)
    <2>1. /\ Len(F) \in Nat /\ Len(G) \in Nat /\ HeBase(F, G) \in Nat /\ Len(N) \in Nat
          /\ Len(G) = Len(F) \/ Len(G) = Len(F) + 1
          /\ Len(G[Len(G)]) = HeBase(F, G) + Len(N)
          /\ Len(G) = Len(F) => HeBase(F, G) = Len(F[Len(F)])
          /\ Len(G) # Len(F) => HeBase(F, G) = 0
        BY HePlaces
    <2>2. /\ \A i \in 1 .. Len(N) : G[Len(G)][HeBase(F, G) + i] = N[i]
          /\ \A i \in 1 .. Len(G[Len(G)]) : i > HeBase(F, G) => i - HeBase(F, G) \in 1 .. Len(N)
        BY HePlaces
    <2>3. \A g \in 1 .. Len(F) :
            /\ \A i \in 1 .. Len(F[g]) : G[g][i] = F[g][i]
            /\ g # Len(G) => G[g] = F[g]
            /\ Len(F[g]) \in Nat /\ Len(G[g]) \in Nat
        BY HePlaces
    <2>. HIDE DEF b, h
    <2>. QED BY <2>1, <2>2, <2>3 DEF b, h
<1>. HIDE DEF b, h
<1>2. ASSUME NEW i \in 1 .. Len(G[h]), i > b, G[h][i].tag \in HeFour
      PROVE  /\ <<h, G[h][i]>> \notin X
             /\ \A e \in D : HeShows(G[h][i].tag, e.kind) => e.of # G[h][i].of
    <2>1. i - b \in 1 .. Len(N) /\ b + (i - b) = i
        BY <1>1, <1>2
    <2>2. G[h][i] = N[i - b]
        BY <1>1, <2>1
    <2>. QED BY <1>2, <2>1, <2>2 DEF HeNew
<1>3. ASSUME NEW g \in 1 .. Len(F), NEW a \in Nat, HeRest(F, D, X, g, a)
      PROVE  HeRest(G, D, X, g, a)
    <2>1. CASE g # h
        BY <1>1, <1>3, <2>1 DEF HeRest
    <2>2. CASE g = h
        <3>. SUFFICES ASSUME NEW i \in 1 .. Len(G[g]), i > a, G[g][i].tag \in HeFour
                      PROVE  /\ <<g, G[g][i]>> \notin X
                             /\ \A e \in D : HeShows(G[g][i].tag, e.kind) => e.of # G[g][i].of
            BY DEF HeRest
        <3>1. CASE i > b
            BY <1>2, <2>2, <3>1
        <3>2. CASE ~(i > b)
            <4>1. i \in 1 .. Len(F[g]) /\ G[g][i] = F[g][i]
                BY <1>1, <2>2, <3>2
            <4>. QED BY <1>3, <4>1 DEF HeRest
        <3>. QED BY <3>1, <3>2
    <2>. QED BY <2>1, <2>2
<1>4. ASSUME h # Len(F), NEW a \in Nat PROVE HeRest(G, D, X, h, a)
    <2>1. b = 0 /\ \A i \in 1 .. Len(G[h]) : i > b
        BY <1>1, <1>4
    <2>. QED BY <1>2, <2>1 DEF HeRest
<1>. QED BY <1>3, <1>4 DEF h

\* The added lines are in order, and of the strokes that are added with them
HeAdds(S, T, mx, N) ==
    /\ Len(T) \in {Len(S), Len(S) + 1} /\ \A i \in 1 .. Len(S) : T[i] = S[i]
    /\ \A i \in 1 .. Len(N) :
          /\ HeLine(T, mx, N[i]) /\ N[i].of = Len(S) + 1
          /\ N[i].tag = "pre" => i > 1 /\ N[i - 1].tag = "down"
    /\ \A i, j \in 1 .. Len(N), kind \in HeThree :
          HeShows(N[i].tag, kind) /\ HeShows(N[j].tag, kind) => i = j

LEMMA HeLogsGrow ==
    ASSUME NEW F \in Seq(Seq(HeLines)), Len(F) >= 1, NEW N \in Seq(HeLines), NEW G, HeExtends(F, G, N),
           NEW S \in Seq(HeStrokes), NEW T \in Seq(HeStrokes), NEW mx \in BOOLEAN, HeLogs(F, S, mx),
           HeAdds(S, T, mx, N)
    PROVE  HeLogs(G, T, mx)
<1>0. /\ Len(T) \in {Len(S), Len(S) + 1} /\ \A i \in 1 .. Len(S) : T[i] = S[i]
      /\ \A i \in 1 .. Len(N) :
            /\ HeLine(T, mx, N[i]) /\ N[i].of = Len(S) + 1
            /\ N[i].tag = "pre" => i > 1 /\ N[i - 1].tag = "down"
      /\ \A i, j \in 1 .. Len(N), kind \in HeThree :
            HeShows(N[i].tag, kind) /\ HeShows(N[j].tag, kind) => i = j
    BY DEF HeAdds
<1> DEFINE b == HeBase(F, G)
           h == Len(G)
           s == Len(S)
<1>. HIDE DEF b, h, s
<1>1. /\ b \in Nat /\ Len(N) \in Nat /\ h \in Nat /\ Len(F) \in Nat
      /\ \A i \in 1 .. Len(N) : G[h][b + i] = N[i]
      /\ \A g \in 1 .. Len(F) :
            /\ \A i \in 1 .. Len(F[g]) : G[g][i] = F[g][i]
            /\ g # h => G[g] = F[g]
      /\ \A i \in 1 .. Len(G[h]) : i > b => i - b \in 1 .. Len(N)
      /\ h = Len(F) => b = Len(F[h])
      /\ h # Len(F) => b = 0
      /\ \A g \in 1 .. Len(F) : Len(F[g]) \in Nat /\ Len(G[g]) \in Nat
      /\ h = Len(F) \/ h = Len(F) + 1
      /\ Len(G[h]) = b + Len(N)
      /\ \A g \in 1 .. h : g \in 1 .. Len(F) \/ g = h
    <2>1. /\ G \in Seq(Seq(HeLines)) /\ Len(F) \in Nat /\ Len(G) \in Nat
          /\ Len(G) = Len(F) \/ Len(G) = Len(F) + 1
          /\ HeBase(F, G) \in Nat /\ Len(N) \in Nat
          /\ Len(G[Len(G)]) = HeBase(F, G) + Len(N)
          /\ Len(G) = Len(F) => HeBase(F, G) = Len(F[Len(F)])
          /\ Len(G) # Len(F) => HeBase(F, G) = 0
        BY HePlaces
    <2>2. /\ \A i \in 1 .. Len(N) : G[Len(G)][HeBase(F, G) + i] = N[i]
          /\ \A i \in 1 .. Len(G[Len(G)]) : i > HeBase(F, G) => i - HeBase(F, G) \in 1 .. Len(N)
          /\ \A g \in 1 .. Len(G) : g \in 1 .. Len(F) \/ g = Len(G)
        BY HePlaces
    <2>3. \A g \in 1 .. Len(F) :
            /\ \A i \in 1 .. Len(F[g]) : G[g][i] = F[g][i]
            /\ g # Len(G) => G[g] = F[g]
            /\ Len(F[g]) \in Nat /\ Len(G[g]) \in Nat
        BY HePlaces
    <2>. QED BY <2>1, <2>2, <2>3 DEF b, h
<1>2. s \in Nat /\ Len(T) \in Nat
    BY DEF s
<1> DEFINE Old(g, i) == g \in 1 .. Len(F) /\ i \in 1 .. Len(F[g]) /\ G[g][i] = F[g][i]
           Fresh(g, i) == g = h /\ i > b /\ i - b \in 1 .. Len(N) /\ G[g][i] = N[i - b]
<1>3. ASSUME NEW g \in 1 .. h, NEW i \in 1 .. Len(G[g]) PROVE Old(g, i) \/ Fresh(g, i)
    <2>1. CASE g # h
        BY <1>1, <1>3, <2>1
    <2>2. CASE g = h /\ i > b
        <3>1. i - b \in 1 .. Len(N) /\ b + (i - b) = i
            BY <1>1, <2>2
        <3>2. G[h][b + (i - b)] = N[i - b]
            BY <1>1, <3>1
        <3>. QED BY <2>2, <3>1, <3>2
    <2>3. CASE g = h /\ ~(i > b)
        <3>1. h = Len(F) /\ i \in 1 .. Len(F[g])
            BY <1>1, <2>3
        <3>. QED BY <1>1, <1>3, <2>3, <3>1
    <2>. QED BY <2>1, <2>2, <2>3
<1>4. ASSUME NEW g, NEW i, Old(g, i)
      PROVE  /\ HeLine(T, mx, G[g][i]) /\ G[g][i].of \in Nat /\ G[g][i].of <= s + 1
             /\ G[g][i].tag = "pre" => i > 1 /\ G[g][i - 1].tag = "down" /\ G[g][i - 1].of = G[g][i].of
             /\ G[g][i].tag \in HeFour => G[g][i].of <= s
    <2>0. g \in 1 .. Len(F) /\ i \in 1 .. Len(F[g]) /\ G[g][i] = F[g][i]
        BY <1>4
    <2>1. HeLine(S, mx, F[g][i]) /\ (F[g][i].tag = "pre" =>
              i > 1 /\ F[g][i - 1].tag = "down" /\ F[g][i - 1].of = F[g][i].of)
        BY <2>0 DEF HeLogs
    <2> DEFINE l == F[g][i]
    <2>2. l.of \in 1 .. (s + 1) /\ (l.tag \in HeFour => l.of \in 1 .. s)
        BY <1>2, <2>1 DEF HeLine, s
    <2>3. l.tag \in HeFour => T[l.of] = S[l.of] /\ l.of <= Len(T)
        BY <1>0, <1>2, <2>2 DEF s
    <2>. HIDE DEF l
    <2>4. l.of \in 1 .. (Len(T) + 1)
        BY <1>0, <1>2, <2>2 DEF s
    <2>5. HeLine(S, mx, l)
        BY <2>1 DEF l
    <2>6. HeLine(T, mx, l)
        BY <2>3, <2>4, <2>5 DEF HeLine
    <2>7. i > 1 => i - 1 \in 1 .. Len(F[g])
        BY <1>1, <2>0
    <2>8. i > 1 => G[g][i - 1] = F[g][i - 1]
        BY <1>1, <2>0, <2>7
    <2>9. l.of \in Nat /\ l.of <= s + 1
        BY <1>2, <2>2
    <2>10. l.tag \in HeFour => l.of <= s
        BY <1>2, <2>2
    <2>11. G[g][i] = l
        BY <2>0 DEF l
    <2>12. l.tag = "pre" => i > 1 /\ G[g][i - 1].tag = "down" /\ G[g][i - 1].of = l.of
        BY <2>1, <2>8 DEF l
    <2>. QED BY <2>6, <2>9, <2>10, <2>11, <2>12
<1>5. ASSUME NEW g, NEW i \in Nat, Fresh(g, i)
      PROVE  /\ HeLine(T, mx, G[g][i]) /\ G[g][i].of = s + 1
             /\ G[g][i].tag = "pre" => i > 1 /\ G[g][i - 1].tag = "down" /\ G[g][i - 1].of = G[g][i].of
    <2>0. g = h /\ i > b /\ i - b \in 1 .. Len(N) /\ G[g][i] = N[i - b]
        BY <1>5
    <2>1. HeLine(T, mx, N[i - b]) /\ N[i - b].of = s + 1
        BY <1>0, <2>0 DEF s
    <2>2. ASSUME N[i - b].tag = "pre"
          PROVE  i > 1 /\ G[g][i - 1].tag = "down" /\ G[g][i - 1].of = G[g][i].of
        <3>1. i - b > 1 /\ N[(i - b) - 1].tag = "down"
            BY <1>0, <2>0, <2>2
        <3>2. (i - b) - 1 \in 1 .. Len(N) /\ b + ((i - b) - 1) = i - 1 /\ i > 1
            BY <1>1, <2>0, <3>1
        <3>3. G[h][i - 1] = N[(i - b) - 1] /\ N[(i - b) - 1].of = s + 1
            BY <1>0, <1>1, <3>2 DEF s
        <3>. QED BY <2>0, <2>1, <3>1, <3>2, <3>3
    <2>. QED BY <2>0, <2>1, <2>2
<1>6. \A g \in 1 .. h : \A i \in 1 .. Len(G[g]) :
          /\ HeLine(T, mx, G[g][i])
          /\ G[g][i].tag = "pre" => i > 1 /\ G[g][i - 1].tag = "down" /\ G[g][i - 1].of = G[g][i].of
    <2>. SUFFICES ASSUME NEW g \in 1 .. h, NEW i \in 1 .. Len(G[g])
                  PROVE  /\ HeLine(T, mx, G[g][i])
                         /\ G[g][i].tag = "pre" =>
                               i > 1 /\ G[g][i - 1].tag = "down" /\ G[g][i - 1].of = G[g][i].of
        OBVIOUS
    <2>1. Old(g, i) \/ Fresh(g, i)
        BY <1>3
    <2>2. i \in Nat
        OBVIOUS
    <2>. HIDE DEF Old, Fresh
    <2>. QED BY <1>4, <1>5, <2>1, <2>2
<1>7. ASSUME NEW g \in 1 .. h, NEW i \in 1 .. Len(G[g]), NEW j \in 1 .. Len(G[g]), i <= j
      PROVE  G[g][i].of <= G[g][j].of
    <2>0. i \in Nat /\ j \in Nat
        OBVIOUS
    <2>1. (Old(g, i) \/ Fresh(g, i)) /\ (Old(g, j) \/ Fresh(g, j)) /\ i \in Nat /\ j \in Nat
        <3>. HIDE DEF Old, Fresh
        <3>. QED BY <1>3, <2>0
    <2>2. CASE Old(g, i) /\ Old(g, j)
        BY <1>7, <2>2 DEF HeLogs
    <2>3. CASE Fresh(g, j)
        <3>1. G[g][j].of = s + 1
            BY <1>5, <2>1, <2>3
        <3>2. G[g][i].of <= s + 1
            <4>. HIDE DEF Old, Fresh
            <4>. QED BY <1>2, <1>4, <1>5, <2>1
        <3>. QED BY <3>1, <3>2
    <2>4. CASE Fresh(g, i) /\ Old(g, j)
        <3>1. g = h /\ i > b /\ g \in 1 .. Len(F) /\ j \in 1 .. Len(F[g])
            BY <2>4
        <3>. HIDE DEF Old, Fresh
        <3>2. b = Len(F[h])
            BY <1>1, <3>1
        <3>. QED BY <1>1, <1>7, <2>0, <3>1, <3>2
    <2>. QED BY <2>1, <2>2, <2>3, <2>4
<1>8. ASSUME NEW g \in 1 .. h, NEW f \in 1 .. h, NEW i \in 1 .. Len(G[g]), NEW j \in 1 .. Len(G[f]),
             NEW kind \in HeThree,
             HeShows(G[g][i].tag, kind), HeShows(G[f][j].tag, kind), G[g][i].of = G[f][j].of
      PROVE  g = f /\ i = j
    <2>0. i \in Nat /\ j \in Nat
        OBVIOUS
    <2>1. (Old(g, i) \/ Fresh(g, i)) /\ (Old(f, j) \/ Fresh(f, j)) /\ i \in Nat /\ j \in Nat
        <3>. HIDE DEF Old, Fresh
        <3>. QED BY <1>3, <2>0
    <2>2. G[g][i].tag \in HeFour /\ G[f][j].tag \in HeFour
        BY <1>8 DEF HeShows, HeFour
    <2>3. CASE Old(g, i) /\ Old(f, j)
        BY <1>8, <2>3 DEF HeLogs
    <2>4. CASE Fresh(g, i) /\ Fresh(f, j)
        <3>1. i - b = j - b
            BY <1>0, <1>8, <2>4
        <3>. QED BY <1>1, <2>1, <2>4, <3>1
    <2>5. CASE Old(g, i) /\ Fresh(f, j)
        <3>1. G[g][i].of <= s /\ G[g][i].of \in Nat
            BY <1>4, <2>2, <2>5
        <3>2. G[f][j].of = s + 1
            BY <1>5, <2>1, <2>5
        <3>. QED BY <1>2, <1>8, <3>1, <3>2
    <2>6. CASE Fresh(g, i) /\ Old(f, j)
        <3>1. G[f][j].of <= s /\ G[f][j].of \in Nat
            BY <1>4, <2>2, <2>6
        <3>2. G[g][i].of = s + 1
            BY <1>5, <2>1, <2>6
        <3>. QED BY <1>2, <1>8, <3>1, <3>2
    <2>. QED BY <2>1, <2>3, <2>4, <2>5, <2>6
<1>. HIDE DEF Old, Fresh
<1>. QED BY <1>6, <1>7, <1>8 DEF HeLogs, h

\* Where the reader is, and what it has not read
HeUnread(g, a) == HeRest(files, Monitor!Findings, seen, g, a)
HeBound == IF start[1] = followed THEN start[2] ELSE 0

HeReader ==
    /\ followed # 0 =>
          /\ HeUnread(followed, pos)
          /\ \A g \in 1 .. Len(files) : g > followed => HeUnread(g, 0)
          /\ pos > Len(files[followed]) => HeUnread(followed, 0) /\ start = <<followed, pos>>
          /\ there /\ len = <<None>> => HeUnread(Len(files), 0)
          /\ there /\ len # <<>> /\ len # <<None>> /\ len[1] < pos => HeUnread(Len(files), 0)
          /\ start # <<>>
          /\ pos = 0 => there /\ followed = Len(files) /\ len # <<None>>
    /\ followed = 0 =>
          /\ pos # 0 /\ there => HeUnread(Len(files), 0)
          /\ pos = 0 => start = <<>>
          /\ pos = 0 /\ len # <<>> /\ len # <<None>> =>
                /\ HeUnread(Len(files), len[1])
                /\ len[1] <= Len(files[Len(files)]) \/ HeUnread(Len(files), 0)
    /\ start = <<>> => seen = {} /\ followed = 0 /\ pos = 0

\* What it has read is seen, and is of the files
HeSeen ==
    /\ \A s \in seen : s[1] \in 1 .. Len(files) /\ \E i \in 1 .. Len(files[s[1]]) : s[2] = files[s[1]][i]
    /\ followed # 0 => \A i \in 1 .. Len(files[followed]) :
          i > HeBound /\ i <= pos => <<followed, files[followed][i]>> \in seen

\* What the judge remembers of a key is the last line of it that it saw
HeOf(tag, k) == {s \in seen : s[1] = followed /\ s[2].tag = tag /\ s[2].key = k}
HeLast(tag, k, v) ==
    \/ v = None /\ HeOf(tag, k) = {}
    \/ \E s \in HeOf(tag, k) : v = s[2].ms /\ \A r \in HeOf(tag, k) : r[2].of <= s[2].of
HeJudge ==
    followed # 0 =>
        /\ \A k \in {1, 2} : HeLast("down", k, judge.down[k]) /\ HeLast("up", k, judge.up[k])
        /\ pos \in 1 .. Len(files[followed]) =>
              LET l == files[followed][pos]
              IN  l.tag = "down" /\ <<followed, l>> \in seen => judge.pending = l.key

HeOnce ==
    /\ \A i, j \in 1 .. Len(he.log) : he.log[i].kind \in HeThree /\ he.log[i] = he.log[j] => i = j
    /\ \A i, j \in 1 .. Len(news) : news[i].kind \in HeThree /\ news[i] = news[j] => i = j
    /\ \A i \in 1 .. Len(he.log), j \in 1 .. Len(news) : he.log[i].kind \in HeThree => he.log[i] # news[j]
    /\ \A e \in cleared : e.kind \in HeThree =>
          /\ \A i \in 1 .. Len(he.log) : he.log[i] # e
          /\ \A i \in 1 .. Len(news) : news[i] # e

HeTrue ==
    \A e \in Monitor!Findings : e.of \in 1 .. Len(strokes) /\ HeDeserves(strokes, e.kind, e.of)

HeJudgedBy(S, kind, n) == IF kind = "phantom" THEN {n} ELSE HeBefore(S, n)
HeFoundOut ==
    \A s, r \in seen, kind \in HeThree :
        /\ s[1] = r[1] /\ r[2].tag \in {"up", "down"}
        /\ s[2].tag = Monitor!ShownBy(kind) /\ r[2].of \in HeJudgedBy(strokes, kind, s[2].of)
        /\ HeDeserves(strokes, kind, s[2].of)
        => [kind |-> kind, key |-> s[2].key, of |-> s[2].of] \in Monitor!Findings

HeNews == \A i \in 1 .. Len(news) : news[i].of \in 1 .. (Len(strokes) + 1)

HeIInv ==
    /\ HeTyped /\ HeClock /\ HeAlternates /\ HeLogs(files, strokes, monHbounds.mx)
    /\ HeReader /\ HeSeen /\ HeJudge /\ HeOnce /\ HeTrue /\ HeFoundOut /\ HeNews

\* A finding is in the log, on its way to it or was cleared from it
LEMMA HeFindings ==
    ASSUME NEW e
    PROVE  e \in Monitor!Findings <=>
              /\ e.kind \in HeThree
              /\ \/ e \in cleared
                 \/ \E i \in DOMAIN he.log : e = he.log[i]
                 \/ \E i \in DOMAIN news : e = news[i]
BY DEF Monitor!Findings, Monitor!Members, HeThree

\* What is written leaves the reader where it was
LEMMA HeFilesGrow ==
    ASSUME HeTyped, HeReader, HeSeen, HeJudge, NEW N \in Seq(HeLines), HeExtends(files, files', N),
           HeNew(Monitor!Findings, seen, N), there', there \/ Len(files') # Len(files),
           followed # 0 /\ pos = 0 => there /\ Len(files') = Len(files),
           UNCHANGED <<followed, pos, len, judge, news, he, cleared, seen, start>>
    PROVE  HeReader' /\ HeSeen' /\ HeJudge'
<1> DEFINE D == Monitor!Findings
           F == files
           G == files'
           b == HeBase(F, G)
<1>0. PICK h : h = Len(G)
    OBVIOUS
<1>1. /\ F \in Seq(Seq(HeLines)) /\ Len(F) >= 1 /\ Len(F) \in Nat /\ followed \in 0 .. Len(F) /\ pos \in Nat
      /\ len = <<>> \/ \E n \in Nat \cup {None} : len = <<n>>
    BY DEF HeTyped
<1>2. /\ h \in Nat
      /\ h = Len(F) \/ h = Len(F) + 1
      /\ \A g \in 1 .. Len(F) :
            /\ g \in 1 .. h /\ Len(F[g]) \in Nat /\ Len(G[g]) \in Nat /\ Len(F[g]) <= Len(G[g])
            /\ \A i \in 1 .. Len(F[g]) : G[g][i] = F[g][i]
            /\ g # h => G[g] = F[g]
      /\ \A g \in 1 .. h : g \in 1 .. Len(F) \/ g = h
    BY <1>0, <1>1, HePlaces
<1>3. /\ D' = D
      /\ \A g \in 1 .. Len(F), a \in Nat : HeRest(F, D, seen, g, a) => HeRest(G, D, seen, g, a)
      /\ h # Len(F) => \A a \in Nat : HeRest(G, D, seen, h, a)
    <2>1. D' = D
        BY DEF Monitor!Findings, Monitor!Members
    <2>. QED BY <1>0, <1>1, <2>1, HeRestGrows
<1>4. /\ \A g, a : HeUnread(g, a) = HeRest(F, D, seen, g, a)
      /\ \A g, a : HeUnread(g, a)' = HeRest(G, D, seen, g, a)
    BY <1>3 DEF HeUnread
<1>5. followed \in 0 .. h /\ Len(F) \in 1 .. Len(F)
    BY <1>1, <1>2
<1>6. 0 \in Nat /\ (len # <<>> /\ len # <<None>> => len[1] \in Nat)
    BY <1>1
<1>. HIDE DEF D, b
<1>7. ASSUME NEW a \in Nat, HeUnread(Len(F), a) PROVE HeUnread(h, a)'
    BY <1>2, <1>3, <1>4, <1>5, <1>7
<1>8. ASSUME h # Len(F), NEW a \in Nat PROVE HeUnread(h, a)'
    BY <1>3, <1>4, <1>8
<1>9. ASSUME followed # 0
      PROVE  /\ HeUnread(followed, pos)'
             /\ \A g \in 1 .. h : g > followed => HeUnread(g, 0)'
             /\ pos > Len(G[followed]) => HeUnread(followed, 0)' /\ start = <<followed, pos>>
             /\ len = <<None>> => HeUnread(h, 0)'
             /\ len # <<>> /\ len # <<None>> /\ len[1] < pos => HeUnread(h, 0)'
             /\ start # <<>>
             /\ pos = 0 => followed = h /\ len # <<None>>
    <2>1. followed \in 1 .. Len(F)
        BY <1>1, <1>9
    <2>2. HeUnread(followed, pos)'
        BY <1>1, <1>3, <1>4, <1>9, <2>1 DEF HeReader
    <2>3. ASSUME NEW g \in 1 .. h, g > followed PROVE HeUnread(g, 0)'
        <3>1. CASE g \in 1 .. Len(F)
            BY <1>3, <1>4, <1>6, <1>9, <2>3, <3>1 DEF HeReader
        <3>2. CASE g = h /\ h # Len(F)
            BY <1>6, <1>8, <3>2
        <3>. QED BY <1>2, <1>5, <3>1, <3>2
    <2>4. pos > Len(G[followed]) => HeUnread(followed, 0)' /\ start = <<followed, pos>>
        <3>1. pos > Len(G[followed]) => pos > Len(F[followed])
            BY <1>1, <1>2, <2>1
        <3>. QED BY <1>3, <1>4, <1>6, <1>9, <2>1, <3>1 DEF HeReader
    <2>5. len = <<None>> \/ (len # <<>> /\ len # <<None>> /\ len[1] < pos) => HeUnread(h, 0)'
        <3>1. CASE h # Len(F)
            BY <1>6, <1>8, <3>1
        <3>2. CASE h = Len(F)
            <4>1. there
                BY <1>0, <3>2
            <4>. QED BY <1>6, <1>7, <1>9, <4>1 DEF HeReader
        <3>. QED BY <3>1, <3>2
    <2>6. start # <<>>
        BY <1>9 DEF HeReader
    <2>7. pos = 0 => followed = h /\ len # <<None>>
        BY <1>0, <1>9 DEF HeReader
    <2>. QED BY <2>2, <2>3, <2>4, <2>5, <2>6, <2>7
<1>10. ASSUME followed = 0
       PROVE  /\ pos # 0 => HeUnread(h, 0)'
              /\ pos = 0 => start = <<>>
              /\ pos = 0 /\ len # <<>> /\ len # <<None>> =>
                    /\ HeUnread(h, len[1])'
                    /\ len[1] <= Len(G[h]) \/ HeUnread(h, 0)'
    <2>1. CASE h # Len(F)
        BY <1>6, <1>8, <1>10, <2>1 DEF HeReader
    <2>2. CASE h = Len(F)
        <3>1. there
            BY <1>0, <2>2
        <3>2. pos # 0 => HeUnread(h, 0)'
            BY <1>6, <1>7, <1>10, <3>1 DEF HeReader
        <3>3. ASSUME pos = 0, len # <<>>, len # <<None>>
              PROVE  /\ HeUnread(h, len[1])'
                     /\ len[1] <= Len(G[h]) \/ HeUnread(h, 0)'
            <4>1. HeUnread(Len(F), len[1]) /\ (len[1] <= Len(F[Len(F)]) \/ HeUnread(Len(F), 0))
                BY <1>10, <3>3 DEF HeReader
            <4>2. HeUnread(h, len[1])'
                BY <1>6, <1>7, <3>3, <4>1
            <4>3. len[1] <= Len(F[Len(F)]) => len[1] <= Len(G[h])
                BY <1>2, <1>5, <1>6, <2>2, <3>3
            <4>4. HeUnread(Len(F), 0) => HeUnread(h, 0)'
                BY <1>6, <1>7
            <4>. QED BY <4>1, <4>2, <4>3, <4>4
        <3>4. pos = 0 => start = <<>>
            BY <1>10 DEF HeReader
        <3>. QED BY <3>2, <3>3, <3>4
    <2>. QED BY <2>1, <2>2
<1>11. start = <<>> => seen = {} /\ followed = 0 /\ pos = 0
    BY DEF HeReader
<1>12. HeReader'
    BY <1>0, <1>9, <1>10, <1>11 DEF HeReader
<1>13. HeSeen'
    <2>1. ASSUME NEW s \in seen
          PROVE  s[1] \in 1 .. h /\ \E i \in 1 .. Len(G[s[1]]) : s[2] = G[s[1]][i]
        <3>1. s[1] \in 1 .. Len(F) /\ \E i \in 1 .. Len(F[s[1]]) : s[2] = F[s[1]][i]
            BY <2>1 DEF HeSeen
        <3>2. PICK i \in 1 .. Len(F[s[1]]) : s[2] = F[s[1]][i]
            BY <3>1
        <3>3. i \in 1 .. Len(G[s[1]]) /\ G[s[1]][i] = F[s[1]][i] /\ s[1] \in 1 .. h
            BY <1>2, <3>1, <3>2
        <3>. QED BY <3>2, <3>3
    <2>2. ASSUME followed # 0, NEW i \in 1 .. Len(G[followed]), i > HeBound, i <= pos
          PROVE  <<followed, G[followed][i]>> \in seen
        <3>1. followed \in 1 .. Len(F)
            BY <1>1, <2>2
        <3>2. CASE i <= Len(F[followed])
            <4>1. i \in 1 .. Len(F[followed]) /\ G[followed][i] = F[followed][i]
                BY <1>2, <3>1, <3>2
            <4>. QED BY <2>2, <4>1 DEF HeSeen
        <3>3. CASE ~(i <= Len(F[followed]))
            <4>1. pos > Len(F[followed])
                BY <1>1, <1>2, <2>2, <3>1, <3>3
            <4>2. start = <<followed, pos>>
                BY <2>2, <4>1 DEF HeReader
            <4>3. HeBound = pos
                BY <4>2 DEF HeBound
            <4>. QED BY <1>1, <2>2, <4>3
        <3>. QED BY <3>2, <3>3
    <2>3. HeBound' = HeBound
        BY DEF HeBound
    <2>. QED BY <1>0, <2>1, <2>2, <2>3 DEF HeSeen
<1>14. HeJudge'
    <2>. SUFFICES ASSUME followed # 0 PROVE HeJudge'
        BY DEF HeJudge
    <2>1. \A tag, k : HeOf(tag, k)' = HeOf(tag, k)
        BY DEF HeOf
    <2>2. \A k \in {1, 2} : HeLast("down", k, judge.down[k])' /\ HeLast("up", k, judge.up[k])'
        BY <2>1 DEF HeJudge, HeLast
    <2>3. followed \in 1 .. Len(F)
        BY <1>1
    <2>4. ASSUME pos \in 1 .. Len(G[followed]), G[followed][pos].tag = "down",
                 <<followed, G[followed][pos]>> \in seen
          PROVE  judge.pending = G[followed][pos].key
        <3>1. CASE pos <= Len(F[followed])
            <4>1. pos \in 1 .. Len(F[followed]) /\ G[followed][pos] = F[followed][pos]
                BY <1>2, <2>3, <2>4, <3>1
            <4>. QED BY <2>4, <4>1 DEF HeJudge
        <3>2. CASE pos > Len(F[followed])
            <4>1. HeRest(G, D, seen, followed, 0)
                BY <1>3, <1>4, <1>6, <2>3, <3>2 DEF HeReader
            <4>2. <<followed, G[followed][pos]>> \notin seen
                BY <2>4, <4>1 DEF HeRest, HeFour
            <4>. QED BY <2>4, <4>2
        <3>. QED BY <1>1, <1>2, <2>3, <3>1, <3>2
    <2>. QED BY <2>2, <2>4 DEF HeJudge
<1>. QED BY <1>12, <1>13, <1>14

\* The daemon writes to the last file, or to a new one when that is full
LEMMA HeWrites ==
    ASSUME HeTyped, NEW N \in Seq(HeLines), Len(N) <= 2, Monitor!Written(N)
    PROVE  /\ there /\ HeExtends(files, files', N)
           /\ files' \in Seq(Seq(HeLines)) /\ Len(files') >= Len(files) /\ Len(files') \in Nat
           /\ written' = Len(files'[Len(files')]) /\ written' <= MaxLines + 1
           /\ followed # 0 /\ pos = 0 => there /\ Len(files') = Len(files)
<1> DEFINE a == Len(files)
           A == files[a]
<1>1. /\ files \in Seq(Seq(HeLines)) /\ a \in Nat /\ a >= 1 /\ a \in 1 .. a
      /\ written = Len(A) /\ written <= MaxLines + 1 /\ pos \in Nat /\ Len(N) \in Nat
      /\ A \in Seq(HeLines) /\ Len(A) \in Nat
    BY DEF HeTyped
<1>2. /\ there
      /\ Monitor!Full => followed = 0 \/ pos > 0
      /\ Monitor!Full <=> written >= MaxLines
      /\ Monitor!Full  => files' = Append(files, N) /\ written' = Len(N)
      /\ ~Monitor!Full => files' = [files EXCEPT ![a] = @ \o N] /\ written' = written + Len(N)
    BY DEF Monitor!Written, Monitor!Polled, Monitor!Full
<1>3. CASE Monitor!Full
    <2>1. Len(files') = a + 1 /\ files'[a + 1] = N /\ HeExtends(files, files', N)
        BY <1>1, <1>2, <1>3 DEF HeExtends
    <2>. QED BY <1>1, <1>2, <1>3, <2>1, HeConstants, HePlaces
<1>4. CASE ~Monitor!Full
    <2>1. Len(files') = a /\ HeExtends(files, files', N)
        BY <1>1, <1>2, <1>4 DEF HeExtends
    <2>2. Len(files'[a]) = HeBase(files, files') + Len(N) /\ HeBase(files, files') = Len(A)
          /\ files' \in Seq(Seq(HeLines))
        BY <1>1, <2>1, HePlaces
    <2>. QED BY <1>1, <1>2, <1>4, <2>1, <2>2, HeConstants
<1>. QED BY <1>3, <1>4

\* All that is known is of a stroke that was
LEMMA HeKnown ==
    ASSUME HeTyped, HeLogs(files, strokes, monHbounds.mx), HeSeen, HeTrue
    PROVE  /\ \A s \in seen : s[2].tag \in HeFour => s[2].of \in 1 .. Len(strokes)
           /\ \A e \in Monitor!Findings : e.of \in 1 .. Len(strokes)
           /\ \A N : (\A i \in 1 .. Len(N) : N[i].tag \in HeFour => N[i].of = Len(strokes) + 1)
                 => HeNew(Monitor!Findings, seen, N)
<1>1. Len(strokes) \in Nat
    BY DEF HeTyped
<1>2. ASSUME NEW s \in seen, s[2].tag \in HeFour PROVE s[2].of \in 1 .. Len(strokes)
    <2>1. PICK i \in 1 .. Len(files[s[1]]) : s[1] \in 1 .. Len(files) /\ s[2] = files[s[1]][i]
        BY DEF HeSeen
    <2>2. HeLine(strokes, monHbounds.mx, s[2])
        BY <2>1 DEF HeLogs
    <2>. QED BY <1>1, <1>2, <2>2 DEF HeLine
<1>3. \A e \in Monitor!Findings : e.of \in 1 .. Len(strokes)
    BY DEF HeTrue
<1>4. Len(strokes) + 1 \notin 1 .. Len(strokes)
    BY <1>1
<1>5. \A N : (\A i \in 1 .. Len(N) : N[i].tag \in HeFour => N[i].of = Len(strokes) + 1)
                 => HeNew(Monitor!Findings, seen, N)
    <2>. SUFFICES ASSUME NEW N, \A i \in 1 .. Len(N) : N[i].tag \in HeFour => N[i].of = Len(strokes) + 1,
                         NEW i \in 1 .. Len(N), N[i].tag \in HeFour
                  PROVE  /\ \A g : <<g, N[i]>> \notin seen
                         /\ \A e \in Monitor!Findings : HeShows(N[i].tag, e.kind) => e.of # N[i].of
        BY DEF HeNew
    <2>1. N[i].of = Len(strokes) + 1
        OBVIOUS
    <2>2. ASSUME NEW g, <<g, N[i]>> \in seen PROVE FALSE
        <3>1. <<g, N[i]>>[2] = N[i]
            OBVIOUS
        <3>. QED BY <1>2, <1>4, <2>1, <2>2, <3>1
    <2>. QED BY <1>3, <1>4, <2>1, <2>2
<1>. QED BY <1>2, <1>3, <1>5

\* A stroke more changes nothing of what was found
LEMMA HeTruthsKept ==
    ASSUME HeTyped, HeLogs(files, strokes, monHbounds.mx), HeSeen, HeTrue, HeFoundOut, HeNews,
           Len(strokes') \in {Len(strokes), Len(strokes) + 1},
           \A i \in 1 .. Len(strokes) : strokes'[i] = strokes[i],
           seen' \subseteq seen, Monitor!Findings' = Monitor!Findings, UNCHANGED news
    PROVE  HeTrue' /\ HeFoundOut' /\ HeNews'
<1>1. Len(strokes) \in Nat /\ Len(strokes') \in Nat /\ Len(strokes') >= Len(strokes)
    BY DEF HeTyped
<1>2. ASSUME NEW n \in 1 .. Len(strokes)
      PROVE  /\ \A kind : HeDeserves(strokes', kind, n) <=> HeDeserves(strokes, kind, n)
             /\ \A kind : HeJudgedBy(strokes', kind, n) = HeJudgedBy(strokes, kind, n)
             /\ n \in 1 .. Len(strokes')
    <2>1. n \in Nat /\ n >= 1 /\ \A i \in 1 .. n : i \in 1 .. Len(strokes)
        BY <1>1
    <2>2. \A i \in 1 .. n : strokes'[i] = strokes[i]
        BY <2>1
    <2>3. /\ HeBefore(strokes', n) = HeBefore(strokes, n)
          /\ \A kind : HeDeserves(strokes', kind, n) <=> HeDeserves(strokes, kind, n)
        BY <2>1, <2>2, HePrefix
    <2>. QED BY <1>1, <2>1, <2>3 DEF HeJudgedBy
<1>3. HeTrue'
    BY <1>2 DEF HeTrue
<1>4. HeFoundOut'
    <2>. SUFFICES ASSUME NEW s \in seen, NEW r \in seen, NEW kind \in HeThree,
                         s[1] = r[1], r[2].tag \in {"up", "down"}, s[2].tag = Monitor!ShownBy(kind),
                         r[2].of \in HeJudgedBy(strokes', kind, s[2].of), HeDeserves(strokes', kind, s[2].of)
                  PROVE  [kind |-> kind, key |-> s[2].key, of |-> s[2].of] \in Monitor!Findings
        BY DEF HeFoundOut
    <2>1. s[2].tag \in HeFour
        BY DEF HeFour, HeThree, Monitor!ShownBy
    <2>2. s[2].of \in 1 .. Len(strokes)
        BY <2>1, HeKnown
    <2>. QED BY <1>2, <2>2 DEF HeFoundOut
<1>5. HeNews'
    BY <1>1 DEF HeNews
<1>. QED BY <1>3, <1>4, <1>5

LEMMA HeFindingsKept ==
    ASSUME UNCHANGED <<he, cleared, news>>
    PROVE  Monitor!Findings' = Monitor!Findings /\ (HeOnce => HeOnce')
BY DEF Monitor!Findings, Monitor!Members, HeOnce

LEMMA HeEdge ==
    ASSUME HeIInv, NEW k \in Monitor!Keys2, NEW jump \in BOOLEAN, NEW lost \in BOOLEAN,
           Monitor!Edge(k, jump, lost)
    PROVE  HeIInv'
<1>1. /\ HeTyped /\ HeClock /\ HeAlternates /\ HeLogs(files, strokes, monHbounds.mx)
      /\ HeReader /\ HeSeen /\ HeJudge /\ HeOnce /\ HeTrue /\ HeFoundOut /\ HeNews
    BY DEF HeIInv
<1>2. /\ jump => ~pressed[k]
      /\ pressed' = [pressed EXCEPT ![k] = ~@]
      /\ strokes' = Append(strokes, [key |-> k, down |-> ~pressed[k], ms |-> ms, jump |-> jump])
      /\ lost  => Monitor!Takes("losses") /\ UNCHANGED <<files, written>>
      /\ ~lost => Monitor!Written(Monitor!LinesOf(k, jump)) /\ UNCHANGED monHbounds
      /\ UNCHANGED <<ms, there, followed, pos, len, judge, news, he, cleared, seen, start>>
    BY DEF Monitor!Edge
<1>3. k \in {1, 2}
    BY DEF Monitor!Keys2
<1>4. monHbounds' \in HeBudgets /\ monHbounds'.ticks = monHbounds.ticks /\ monHbounds'.mx = monHbounds.mx
    <2>1. monHbounds \in HeBudgets
        BY <1>1 DEF HeTyped
    <2>. QED BY <1>2, <2>1, HeTakes
<1> DEFINE n == Len(strokes)
           e == strokes'[n + 1]
<1>5. /\ strokes' \in Seq(HeStrokes) /\ pressed' \in [{1, 2} -> BOOLEAN]
      /\ Len(strokes') = n + 1 /\ n \in Nat
      /\ \A i \in 1 .. n : strokes'[i] = strokes[i]
      /\ e.key = k /\ e.ms = ms /\ e.jump = jump /\ (e.down <=> ~pressed[k])
      /\ HeClock' /\ HeAlternates'
    <2>1. ms' = ms
        BY <1>2
    <2>. QED BY <1>1, <1>2, <1>3, <1>4, <2>1, HeStroke
<1>. HIDE DEF n, e
<1>6. Monitor!Findings' = Monitor!Findings /\ HeOnce'
    BY <1>1, <1>2, HeFindingsKept
<1>7. HeTrue' /\ HeFoundOut' /\ HeNews'
    BY <1>1, <1>2, <1>5, <1>6, HeTruthsKept DEF n
<1>10. /\ strokes' \in Seq(HeStrokes) /\ Len(strokes') \in {Len(strokes), Len(strokes) + 1}
       /\ \A i \in 1 .. Len(strokes) : strokes'[i] = strokes[i]
    BY <1>5 DEF n
<1>8. CASE lost
    <2>1. UNCHANGED <<files, written, followed, pos, len, judge, seen, start, there>>
        BY <1>2, <1>8
    <2>2. HeLogs(files, strokes', monHbounds.mx)
        <3> DEFINE N == <<>>
        <3>1. HeExtends(files, files, N)
            BY <1>1 DEF HeTyped, HeExtends
        <3>2. N \in Seq(HeLines) /\ \A i \in 1 .. Len(N) : FALSE
            OBVIOUS
        <3>3. /\ monHbounds.mx \in BOOLEAN /\ files \in Seq(Seq(HeLines)) /\ Len(files) >= 1
              /\ strokes \in Seq(HeStrokes)
            BY <1>1 DEF HeTyped, HeBudgets
        <3>. HIDE DEF N
        <3>4. HeAdds(strokes, strokes', monHbounds.mx, N)
            BY <1>10, <3>2 DEF HeAdds
        <3>5. HeLogs(files, strokes, monHbounds.mx)
            BY <1>1
        <3>. QED BY <1>10, <3>1, <3>2, <3>3, <3>4, <3>5, HeLogsGrow
    <2>3. HeLogs(files, strokes, monHbounds.mx)'
        BY <1>4, <2>1, <2>2
    <2>4. HeReader' /\ HeSeen' /\ HeJudge'
        BY <1>1, <1>6, <2>1
        DEF HeReader, HeUnread, HeSeen, HeBound, HeJudge, HeLast, HeOf
    <2>5. HeTyped'
        BY <1>1, <1>2, <1>4, <1>5, <2>1 DEF HeTyped
    <2>. QED BY <1>5, <1>6, <1>7, <2>3, <2>4, <2>5 DEF HeIInv
<1>9. CASE ~lost
    <2> DEFINE N == Monitor!LinesOf(k, jump)
               down == [tag |-> "down", key |-> k, ms |-> ms, of |-> n + 1, v |-> TRUE]
               pre == [tag |-> "pre", key |-> k, ms |-> ms, of |-> n + 1, v |-> jump]
               up == [tag |-> "up", key |-> k, ms |-> ms, of |-> n + 1, v |-> TRUE]
               tap == [tag |-> "tap", key |-> k, ms |-> ms, of |-> n + 1, v |-> TRUE]
    <2>0. monHbounds.mx \in BOOLEAN /\ pressed[k] \in BOOLEAN /\ ms \in HeTimes
        BY <1>1, <1>3 DEF HeTyped, HeBudgets
    <2>1. down \in HeLines /\ pre \in HeLines /\ up \in HeLines /\ tap \in HeLines
        BY <1>3, <1>5, <2>0 DEF HeLines, HeTags
    <2>2. N = IF monHbounds.mx THEN IF pressed[k] THEN <<tap>> ELSE <<>>
              ELSE IF pressed[k] THEN <<up>> ELSE <<down, pre>>
        BY DEF Monitor!LinesOf, Monitor!Now, n
    <2>3. /\ ~monHbounds.mx /\ ~pressed[k] =>
                HeLine(strokes', monHbounds.mx, down) /\ HeLine(strokes', monHbounds.mx, pre)
          /\ ~monHbounds.mx /\ pressed[k] => HeLine(strokes', monHbounds.mx, up)
          /\ monHbounds.mx /\ pressed[k] => HeLine(strokes', monHbounds.mx, tap)
        BY <1>5, <2>0 DEF HeLine, HeFour, e
    <2>4. /\ down.tag = "down" /\ pre.tag = "pre" /\ up.tag = "up" /\ tap.tag = "tap"
          /\ down.of = n + 1 /\ pre.of = n + 1 /\ up.of = n + 1 /\ tap.of = n + 1
        OBVIOUS
    <2>. HIDE DEF down, pre, up, tap, N
    <2>5. /\ N \in Seq(HeLines) /\ Len(N) <= 2 /\ Len(N) \in Nat
          /\ \A i \in 1 .. Len(N) :
                /\ HeLine(strokes', monHbounds.mx, N[i]) /\ N[i].of = n + 1
                /\ N[i].tag = "pre" => i > 1 /\ N[i - 1].tag = "down"
          /\ \A i, j \in 1 .. Len(N), kind \in HeThree :
                HeShows(N[i].tag, kind) /\ HeShows(N[j].tag, kind) => i = j
        <3>1. CASE monHbounds.mx /\ pressed[k]
            <4>1. N = <<tap>> /\ Len(N) = 1 /\ N[1] = tap /\ \A i \in 1 .. Len(N) : i = 1
                BY <2>2, <3>1
            <4>2. N \in Seq(HeLines)
                BY <2>1, <4>1
            <4>3. HeLine(strokes', monHbounds.mx, N[1]) /\ N[1].of = n + 1 /\ N[1].tag = "tap"
                BY <2>3, <2>4, <3>1, <4>1
            <4>. QED BY <4>1, <4>2, <4>3
        <3>2. CASE monHbounds.mx /\ ~pressed[k]
            <4>1. N = <<>> /\ Len(N) = 0 /\ \A i \in 1 .. Len(N) : FALSE
                BY <2>2, <3>2
            <4>. QED BY <4>1
        <3>3. CASE ~monHbounds.mx /\ pressed[k]
            <4>1. N = <<up>> /\ Len(N) = 1 /\ N[1] = up /\ \A i \in 1 .. Len(N) : i = 1
                BY <2>2, <3>3
            <4>2. N \in Seq(HeLines)
                BY <2>1, <4>1
            <4>3. HeLine(strokes', monHbounds.mx, N[1]) /\ N[1].of = n + 1 /\ N[1].tag = "up"
                BY <2>3, <2>4, <3>3, <4>1
            <4>. QED BY <4>1, <4>2, <4>3
        <3>4. CASE ~monHbounds.mx /\ ~pressed[k]
            <4>1. /\ N = <<down, pre>> /\ Len(N) = 2 /\ N[1] = down /\ N[2] = pre
                  /\ \A i \in 1 .. Len(N) : i = 1 \/ i = 2
                BY <2>2, <3>4
            <4>2. N \in Seq(HeLines)
                BY <2>1, <4>1
            <4>3. \A kind \in HeThree : ~(HeShows("down", kind) /\ HeShows("pre", kind))
                BY DEF HeShows
            <4>4. HeLine(strokes', monHbounds.mx, N[1]) /\ HeLine(strokes', monHbounds.mx, N[2])
                BY <2>3, <3>4, <4>1
            <4>5. /\ N[1].of = n + 1 /\ N[2].of = n + 1 /\ N[1].tag = "down" /\ N[2].tag = "pre"
                  /\ 2 - 1 = 1 /\ 2 > 1
                BY <2>4, <4>1
            <4>6. \A i, j \in 1 .. Len(N), kind \in HeThree :
                      HeShows(N[i].tag, kind) /\ HeShows(N[j].tag, kind) => i = j
                BY <4>1, <4>3, <4>5
            <4>. QED BY <4>1, <4>2, <4>4, <4>5, <4>6
        <3>. QED BY <3>1, <3>2, <3>3, <3>4
    <2>6. Monitor!Written(N) /\ monHbounds' = monHbounds
        BY <1>2, <1>9 DEF N
    <2>7. /\ there /\ HeExtends(files, files', N)
          /\ files' \in Seq(Seq(HeLines)) /\ Len(files') >= Len(files) /\ Len(files') \in Nat
          /\ written' = Len(files'[Len(files')]) /\ written' <= MaxLines + 1
          /\ followed # 0 /\ pos = 0 => there /\ Len(files') = Len(files)
        BY <1>1, <2>5, <2>6, HeWrites
    <2>8. HeLogs(files', strokes', monHbounds.mx)
        <3>1. /\ files \in Seq(Seq(HeLines)) /\ Len(files) >= 1 /\ strokes \in Seq(HeStrokes)
            BY <1>1 DEF HeTyped
        <3>2. HeAdds(strokes, strokes', monHbounds.mx, N)
            BY <1>10, <2>5 DEF HeAdds, n
        <3>3. HeLogs(files, strokes, monHbounds.mx)
            BY <1>1
        <3>. QED BY <1>10, <2>0, <2>5, <2>7, <3>1, <3>2, <3>3, HeLogsGrow
    <2>9. HeNew(Monitor!Findings, seen, N)
        BY <1>1, <2>5, HeKnown DEF n
    <2>10. HeReader' /\ HeSeen' /\ HeJudge'
        BY <1>1, <1>2, <2>5, <2>7, <2>9, HeFilesGrow
    <2>11. HeTyped'
        BY <1>1, <1>2, <1>4, <1>5, <2>7 DEF HeTyped
    <2>. QED BY <1>4, <1>5, <1>6, <1>7, <2>6, <2>8, <2>10, <2>11 DEF HeIInv
<1>. QED BY <1>8, <1>9

LEMMA HeMxReports ==
    ASSUME HeIInv, NEW k \in Monitor!Keys2, NEW tag \in {"missed", "late", "stuck", "off"},
           Monitor!MxReports(tag, k)
    PROVE  HeIInv'
<1>1. /\ HeTyped /\ HeClock /\ HeAlternates /\ HeLogs(files, strokes, monHbounds.mx)
      /\ HeReader /\ HeSeen /\ HeJudge /\ HeOnce /\ HeTrue /\ HeFoundOut /\ HeNews
    BY DEF HeIInv
<1> DEFINE l == [tag |-> tag, key |-> k, ms |-> ms, of |-> Len(strokes) + 1, v |-> TRUE]
           N == <<l>>
<1>2. /\ Monitor!Takes("losses") /\ Monitor!Written(N)
      /\ UNCHANGED <<ms, pressed, strokes, there, followed, pos, len, judge, news, he, cleared, seen, start>>
    BY DEF Monitor!MxReports, Monitor!Now
<1>3. /\ monHbounds' \in HeBudgets /\ monHbounds'.ticks = monHbounds.ticks /\ monHbounds'.mx = monHbounds.mx
      /\ monHbounds.mx \in BOOLEAN
    <2>1. monHbounds \in HeBudgets
        BY <1>1 DEF HeTyped
    <2>2. monHbounds.mx \in BOOLEAN
        BY <2>1 DEF HeBudgets
    <2>. QED BY <1>2, <2>1, <2>2, HeTakes
<1>4. /\ files \in Seq(Seq(HeLines)) /\ Len(files) >= 1 /\ strokes \in Seq(HeStrokes)
      /\ Len(strokes) \in Nat
    BY <1>1 DEF HeTyped
<1>5. l \in HeLines /\ l.tag = tag /\ l.of = Len(strokes) + 1 /\ tag \notin HeFour /\ tag # "tap" /\ tag # "pre"
    <2>1. k \in {1, 2} /\ ms \in HeTimes
        BY <1>1 DEF Monitor!Keys2, HeTyped
    <2>. QED BY <1>4, <2>1 DEF HeLines, HeTags, HeFour
<1>6. HeLine(strokes, monHbounds.mx, l)
    <2>. HIDE DEF l
    <2>1. l.of \in 1 .. (Len(strokes) + 1) /\ l.tag \notin HeFour /\ l.tag # "tap"
        BY <1>4, <1>5
    <2>. QED BY <2>1 DEF HeLine
<1>7. N \in Seq(HeLines) /\ Len(N) = 1 /\ N[1] = l /\ \A i \in 1 .. Len(N) : i = 1
    <2>. HIDE DEF l
    <2>. QED BY <1>5
<1>. HIDE DEF l, N
<1>8. HeAdds(strokes, strokes, monHbounds.mx, N)
    BY <1>4, <1>5, <1>6, <1>7 DEF HeAdds
<1>9. /\ there /\ HeExtends(files, files', N)
      /\ files' \in Seq(Seq(HeLines)) /\ Len(files') >= Len(files) /\ Len(files') \in Nat
      /\ written' = Len(files'[Len(files')]) /\ written' <= MaxLines + 1
      /\ followed # 0 /\ pos = 0 => there /\ Len(files') = Len(files)
    <2>1. Len(N) <= 2
        BY <1>7
    <2>. QED BY <1>1, <1>2, <1>7, <2>1, HeWrites
<1>10. HeLogs(files', strokes, monHbounds.mx)
    BY <1>1, <1>3, <1>4, <1>7, <1>8, <1>9, HeLogsGrow
<1>11. HeLogs(files, strokes, monHbounds.mx)'
    BY <1>2, <1>3, <1>10
<1>12. HeNew(Monitor!Findings, seen, N)
    BY <1>5, <1>7 DEF HeNew
<1>13. HeReader' /\ HeSeen' /\ HeJudge'
    BY <1>1, <1>2, <1>7, <1>9, <1>12, HeFilesGrow
<1>14. HeTyped'
    <2>1. followed \in 0 .. Len(files') /\ Len(files') >= 1
        BY <1>1, <1>9 DEF HeTyped
    <2>2. written' = Len(files'[Len(files')]) /\ written' <= MaxLines + 1
        BY <1>9
    <2>3. files' \in Seq(Seq(HeLines)) /\ monHbounds' \in HeBudgets
        BY <1>3, <1>9
    <2>. QED BY <1>1, <1>2, <2>1, <2>2, <2>3 DEF HeTyped
<1>15. Monitor!Findings' = Monitor!Findings /\ HeOnce'
    BY <1>1, <1>2, HeFindingsKept
<1>16. HeClock' /\ HeAlternates' /\ HeTrue' /\ HeFoundOut' /\ HeNews'
    <2>1. HeClock'
        BY <1>1, <1>2, <1>3 DEF HeClock, HeAge
    <2>2. HeAlternates'
        BY <1>1, <1>2 DEF HeAlternates
    <2>3. HeTrue' /\ HeFoundOut' /\ HeNews'
        BY <1>1, <1>2, <1>15 DEF HeTrue, HeFoundOut, HeNews
    <2>. QED BY <2>1, <2>2, <2>3
<1>. QED BY <1>11, <1>13, <1>14, <1>15, <1>16 DEF HeIInv

\* A new file is empty
LEMMA HeCreates == ASSUME HeIInv, Monitor!Creates PROVE HeIInv'
<1>1. /\ HeTyped /\ HeClock /\ HeAlternates /\ HeLogs(files, strokes, monHbounds.mx)
      /\ HeReader /\ HeSeen /\ HeJudge /\ HeOnce /\ HeTrue /\ HeFoundOut /\ HeNews
    BY DEF HeIInv
<1> DEFINE N == <<>>
<1>2. /\ ~there /\ there' /\ files' = Append(files, N) /\ written' = 0 /\ there' \in BOOLEAN
      /\ UNCHANGED <<ms, pressed, strokes, followed, pos, len, judge, news, he, cleared, seen, start,
                     monHbounds>>
    BY DEF Monitor!Creates
<1>3. N \in Seq(HeLines) /\ Len(N) = 0 /\ \A i \in 1 .. Len(N) : FALSE
    OBVIOUS
<1>. HIDE DEF N
<1>4. /\ files \in Seq(Seq(HeLines)) /\ Len(files) >= 1 /\ strokes \in Seq(HeStrokes)
      /\ Len(strokes) \in Nat /\ Len(files) \in Nat /\ monHbounds.mx \in BOOLEAN
    BY <1>1 DEF HeTyped, HeBudgets
<1>5. /\ HeExtends(files, files', N) /\ files' \in Seq(Seq(HeLines)) /\ Len(files') = Len(files) + 1
      /\ files'[Len(files')] = N
    BY <1>2, <1>3, <1>4 DEF HeExtends
<1>6. HeAdds(strokes, strokes, monHbounds.mx, N)
    BY <1>3, <1>4 DEF HeAdds
<1>7. HeLogs(files', strokes, monHbounds.mx)
    BY <1>1, <1>3, <1>4, <1>5, <1>6, HeLogsGrow
<1>8. HeNew(Monitor!Findings, seen, N)
    BY <1>3 DEF HeNew
<1>9. Len(files') # Len(files) /\ ~(followed # 0 /\ pos = 0)
    BY <1>1, <1>2, <1>4, <1>5 DEF HeReader
<1>10. HeReader' /\ HeSeen' /\ HeJudge'
    BY <1>1, <1>2, <1>3, <1>5, <1>8, <1>9, HeFilesGrow
<1>11. HeTyped'
    <2>1. followed \in 0 .. Len(files') /\ Len(files') >= 1
        BY <1>1, <1>4, <1>5 DEF HeTyped
    <2>2. written' = Len(files'[Len(files')]) /\ written' <= MaxLines + 1
        BY <1>2, <1>3, <1>5, HeConstants
    <2>. QED BY <1>1, <1>2, <1>5, <2>1, <2>2 DEF HeTyped
<1>12. Monitor!Findings' = Monitor!Findings /\ HeOnce'
    BY <1>1, <1>2, HeFindingsKept
<1>13. HeClock' /\ HeAlternates' /\ HeTrue' /\ HeFoundOut' /\ HeNews'
    <2>1. HeClock'
        BY <1>1, <1>2 DEF HeClock, HeAge
    <2>2. HeAlternates'
        BY <1>1, <1>2 DEF HeAlternates
    <2>3. HeTrue' /\ HeFoundOut' /\ HeNews'
        BY <1>1, <1>2, <1>12 DEF HeTrue, HeFoundOut, HeNews
    <2>. QED BY <2>1, <2>2, <2>3
<1>14. HeLogs(files, strokes, monHbounds.mx)'
    BY <1>2, <1>7
<1>. QED BY <1>10, <1>11, <1>12, <1>13, <1>14 DEF HeIInv

\* While the pad, its files and what was found stay
HePad == <<ms, pressed, strokes, files, seen>>
LEMMA HeStays ==
    ASSUME HeIInv, UNCHANGED HePad, HeClock', monHbounds'.mx = monHbounds.mx,
           Monitor!Findings' = Monitor!Findings
    PROVE  /\ HeAlternates' /\ HeLogs(files, strokes, monHbounds.mx)' /\ HeTrue' /\ HeFoundOut'
           /\ \A g, a : HeUnread(g, a)' = HeUnread(g, a)
<1>1. /\ HeAlternates /\ HeLogs(files, strokes, monHbounds.mx) /\ HeTrue /\ HeFoundOut
      /\ UNCHANGED <<ms, pressed, strokes, files, seen>>
    BY DEF HeIInv, HePad
<1>2. HeAlternates' /\ HeLogs(files, strokes, monHbounds.mx)'
    BY <1>1 DEF HeAlternates
<1>3. HeTrue' /\ HeFoundOut'
    BY <1>1 DEF HeTrue, HeFoundOut
<1>4. \A g, a : HeUnread(g, a)' = HeUnread(g, a)
    BY <1>1 DEF HeUnread
<1>. QED BY <1>2, <1>3, <1>4

LEMMA HeTimePasses == ASSUME HeIInv, Monitor!TimePasses PROVE HeIInv'
<1>1. /\ HeTyped /\ HeClock /\ HeAlternates /\ HeLogs(files, strokes, monHbounds.mx)
      /\ HeReader /\ HeSeen /\ HeJudge /\ HeOnce /\ HeTrue /\ HeFoundOut /\ HeNews
    BY DEF HeIInv
<1>2. /\ Monitor!Takes("ticks")
      /\ UNCHANGED <<pressed, strokes, files, there, written, followed, pos, len, judge, news, he,
                     cleared, seen, start>>
    BY DEF Monitor!TimePasses
<1>3. HeClock' /\ ms' \in HeTimes
    BY <1>1, HeTicks
<1>4. monHbounds' \in HeBudgets /\ monHbounds'.mx = monHbounds.mx
    <2>1. monHbounds \in HeBudgets
        BY <1>1 DEF HeTyped
    <2>. QED BY <1>2, <2>1, HeTakes
<1>5. Monitor!Findings' = Monitor!Findings /\ HeOnce'
    BY <1>1, <1>2, HeFindingsKept
<1>6. HeAlternates' /\ HeLogs(files, strokes, monHbounds.mx)' /\ HeTrue' /\ HeFoundOut' /\ HeNews'
    <2>1. HeAlternates' /\ HeLogs(files, strokes, monHbounds.mx)'
        BY <1>1, <1>2, <1>4 DEF HeAlternates
    <2>. QED BY <1>1, <1>2, <1>5, <2>1 DEF HeTrue, HeFoundOut, HeNews
<1>7. HeReader' /\ HeSeen' /\ HeJudge'
    BY <1>1, <1>2, <1>5 DEF HeReader, HeUnread, HeSeen, HeBound, HeJudge, HeLast, HeOf
<1>8. HeTyped'
    BY <1>1, <1>2, <1>3, <1>4 DEF HeTyped
<1>. QED BY <1>3, <1>5, <1>6, <1>7, <1>8 DEF HeIInv

LEMMA HeMovesAside == ASSUME HeIInv, Monitor!MovesAside PROVE HeIInv'
<1>1. /\ HeTyped /\ HeClock /\ HeReader /\ HeSeen /\ HeJudge /\ HeOnce /\ HeNews
    BY DEF HeIInv
<1>2. /\ Monitor!Takes("breaks") /\ there' = FALSE /\ (followed = 0 \/ pos > 0)
      /\ UNCHANGED <<ms, pressed, strokes, files, written, followed, pos, len, judge, news, he,
                     cleared, seen, start>>
    BY DEF Monitor!MovesAside, Monitor!Polled
<1>3. monHbounds' \in HeBudgets /\ monHbounds'.mx = monHbounds.mx /\ monHbounds'.ticks = monHbounds.ticks
    <2>1. monHbounds \in HeBudgets
        BY <1>1 DEF HeTyped
    <2>. QED BY <1>2, <2>1, HeTakes
<1>4. Monitor!Findings' = Monitor!Findings /\ HeOnce' /\ HeNews'
    BY <1>1, <1>2, HeFindingsKept DEF HeNews
<1>5. HeClock'
    BY <1>1, <1>2, <1>3 DEF HeClock, HeAge
<1>6. /\ HeAlternates' /\ HeLogs(files, strokes, monHbounds.mx)' /\ HeTrue' /\ HeFoundOut'
      /\ \A g, a : HeUnread(g, a)' = HeUnread(g, a)
    BY <1>2, <1>3, <1>4, <1>5, HeStays DEF HePad
<1>7. HeReader'
    <2>1. pos \in Nat
        BY <1>1 DEF HeTyped
    <2>. QED BY <1>1, <1>2, <1>6, <2>1 DEF HeReader, HeUnread
<1>8. HeSeen' /\ HeJudge'
    BY <1>1, <1>2 DEF HeSeen, HeBound, HeJudge, HeLast, HeOf
<1>9. HeTyped'
    BY <1>1, <1>2, <1>3 DEF HeTyped
<1>. QED BY <1>4, <1>5, <1>6, <1>7, <1>8, <1>9 DEF HeIInv

-----------------------------------------------------------------------------
(* The reader *)

LEMMA HeLooks == ASSUME HeIInv, Monitor!Looks PROVE HeIInv'
<1>1. /\ HeTyped /\ HeClock /\ HeReader /\ HeSeen /\ HeJudge /\ HeOnce /\ HeNews
    BY DEF HeIInv
<1>0. PICK n : n = Len(files[Len(files)])
    OBVIOUS
<1>2. /\ len = <<>> /\ len' = <<IF there THEN n ELSE None>>
      /\ UNCHANGED <<ms, pressed, strokes, files, there, written, followed, pos, judge, news, he,
                     cleared, seen, start, monHbounds>>
    BY <1>0 DEF Monitor!Looks, Monitor!Current
<1>3. /\ files \in Seq(Seq(HeLines)) /\ Len(files) \in Nat /\ Len(files) >= 1 /\ n \in Nat /\ n # None
      /\ followed \in 0 .. Len(files) /\ pos \in Nat /\ Len(files) \in 1 .. Len(files)
    BY <1>0, <1>1, HeConstants DEF HeTyped
<1>4. Monitor!Findings' = Monitor!Findings /\ HeOnce' /\ HeNews'
    BY <1>1, <1>2, HeFindingsKept DEF HeNews
<1>5. HeClock'
    BY <1>1, <1>2 DEF HeClock, HeAge
<1>6. /\ HeAlternates' /\ HeLogs(files, strokes, monHbounds.mx)' /\ HeTrue' /\ HeFoundOut'
      /\ \A g, a : HeUnread(g, a)' = HeUnread(g, a)
    BY <1>2, <1>4, <1>5, HeStays DEF HePad
<1>7. HeUnread(Len(files), n)
    BY <1>0, <1>3 DEF HeUnread, HeRest
<1>8. HeSeen' /\ HeJudge'
    BY <1>1, <1>2 DEF HeSeen, HeBound, HeJudge, HeLast, HeOf
<1>10. HeTyped'
    <2>1. \E m \in Nat \cup {None} : len' = <<m>>
        BY <1>2, <1>3
    <2>. QED BY <1>1, <1>2, <2>1 DEF HeTyped
<1>9. CASE there
    <2>1. len' = <<n>> /\ len' # <<>> /\ len' # <<None>> /\ len'[1] = n
        BY <1>2, <1>3, <1>9
    <2>2. ASSUME followed # 0, n < pos PROVE HeUnread(Len(files), 0)
        <3>1. CASE followed = Len(files)
            BY <1>0, <1>1, <1>3, <2>2, <3>1 DEF HeReader
        <3>2. CASE followed < Len(files)
            BY <1>1, <1>3, <2>2, <3>2 DEF HeReader
        <3>. QED BY <1>3, <3>1, <3>2
    <2>3. HeReader'
        <3>1. followed # 0 =>
                  /\ HeUnread(followed, pos)'
                  /\ \A g \in 1 .. Len(files) : g > followed => HeUnread(g, 0)'
                  /\ pos > Len(files[followed]) => HeUnread(followed, 0)' /\ start = <<followed, pos>>
                  /\ start # <<>>
                  /\ pos = 0 => there /\ followed = Len(files)
            BY <1>1, <1>2, <1>6 DEF HeReader, HeUnread
        <3>2. /\ followed # 0 /\ n < pos => HeUnread(Len(files), 0)'
              /\ HeUnread(Len(files), n)'
            BY <1>2, <1>4, <1>7, <2>2 DEF HeUnread
        <3>3. /\ followed = 0 /\ pos # 0 /\ there => HeUnread(Len(files), 0)'
              /\ followed = 0 /\ pos = 0 => start = <<>>
              /\ start = <<>> => seen = {} /\ followed = 0 /\ pos = 0
            BY <1>1, <1>2, <1>4 DEF HeReader, HeUnread
        <3>4. n <= Len(files[Len(files)])
            BY <1>0, <1>3
        <3>5. HeUnread(Len(files), len[1])'
            BY <2>1, <3>2, <1>2, <1>4 DEF HeUnread
        <3>. QED BY <1>2, <2>1, <3>1, <3>2, <3>3, <3>4, <3>5 DEF HeReader
    <2>. QED BY <1>4, <1>5, <1>6, <1>8, <1>10, <2>3 DEF HeIInv
<1>11. CASE ~there
    <2>1. len' = <<None>>
        BY <1>2, <1>11
    <2>2. HeReader'
        BY <1>1, <1>2, <1>4, <1>11, <2>1 DEF HeReader, HeUnread
    <2>. QED BY <1>4, <1>5, <1>6, <1>8, <1>10, <2>2 DEF HeIInv
<1>. QED BY <1>9, <1>11

LEMMA HeGone == ASSUME HeIInv, Monitor!Gone PROVE HeIInv'
<1>1. /\ HeTyped /\ HeClock /\ HeReader /\ HeSeen /\ HeJudge /\ HeOnce /\ HeNews
    BY DEF HeIInv
<1>2. /\ len = <<None>> /\ len' = <<>> /\ followed' = 0
      /\ UNCHANGED <<ms, pressed, strokes, files, there, written, pos, judge, news, he, cleared,
                     seen, start, monHbounds>>
    BY DEF Monitor!Gone
<1>3. Monitor!Findings' = Monitor!Findings /\ HeOnce' /\ HeNews'
    BY <1>1, <1>2, HeFindingsKept DEF HeNews
<1>4. HeClock'
    BY <1>1, <1>2 DEF HeClock, HeAge
<1>5. /\ HeAlternates' /\ HeLogs(files, strokes, monHbounds.mx)' /\ HeTrue' /\ HeFoundOut'
      /\ \A g, a : HeUnread(g, a)' = HeUnread(g, a)
    BY <1>2, <1>3, <1>4, HeStays DEF HePad
<1>6. /\ pos # 0 /\ there => HeUnread(Len(files), 0)
      /\ pos = 0 => start = <<>>
      /\ start = <<>> => seen = {} /\ pos = 0
    BY <1>1, <1>2 DEF HeReader
<1>7. HeReader'
    BY <1>2, <1>3, <1>6 DEF HeReader, HeUnread
<1>8. HeSeen' /\ HeJudge'
    BY <1>1, <1>2 DEF HeSeen, HeJudge
<1>9. HeTyped'
    BY <1>1, <1>2 DEF HeTyped
<1>. QED BY <1>3, <1>4, <1>5, <1>7, <1>8, <1>9 DEF HeIInv

LEMMA HeShrank == ASSUME HeIInv, Monitor!Shrank PROVE HeIInv'
<1>1. /\ HeTyped /\ HeClock /\ HeReader /\ HeSeen /\ HeJudge /\ HeOnce /\ HeNews
    BY DEF HeIInv
<1>2. /\ len # <<>> /\ len # <<None>> /\ followed # 0 /\ len[1] < pos
      /\ len' = <<>> /\ followed' = 0 /\ pos' = 1
      /\ UNCHANGED <<ms, pressed, strokes, files, there, written, judge, news, he, cleared, seen,
                     start, monHbounds>>
    BY DEF Monitor!Shrank
<1>3. Monitor!Findings' = Monitor!Findings /\ HeOnce' /\ HeNews'
    BY <1>1, <1>2, HeFindingsKept DEF HeNews
<1>4. HeClock'
    BY <1>1, <1>2 DEF HeClock, HeAge
<1>5. /\ HeAlternates' /\ HeLogs(files, strokes, monHbounds.mx)' /\ HeTrue' /\ HeFoundOut'
      /\ \A g, a : HeUnread(g, a)' = HeUnread(g, a)
    BY <1>2, <1>3, <1>4, HeStays DEF HePad
<1>6. (there => HeUnread(Len(files), 0)) /\ start # <<>>
    BY <1>1, <1>2 DEF HeReader
<1>7. HeReader'
    BY <1>2, <1>3, <1>6 DEF HeReader, HeUnread
<1>8. HeSeen' /\ HeJudge'
    BY <1>1, <1>2 DEF HeSeen, HeJudge
<1>9. HeTyped'
    BY <1>1, <1>2 DEF HeTyped
<1>. QED BY <1>3, <1>4, <1>5, <1>7, <1>8, <1>9 DEF HeIInv

LEMMA HeReachesEnd == ASSUME HeIInv, Monitor!ReachesEnd PROVE HeIInv'
<1>1. /\ HeTyped /\ HeClock /\ HeReader /\ HeSeen /\ HeJudge /\ HeOnce /\ HeNews
    BY DEF HeIInv
<1>2. /\ followed # 0 /\ len' = <<>>
      /\ UNCHANGED <<ms, pressed, strokes, files, there, written, followed, pos, judge, news, he, cleared,
                     seen, start, monHbounds>>
    BY DEF Monitor!ReachesEnd
<1>3. Monitor!Findings' = Monitor!Findings /\ HeOnce' /\ HeNews'
    BY <1>1, <1>2, HeFindingsKept DEF HeNews
<1>4. HeClock'
    BY <1>1, <1>2 DEF HeClock, HeAge
<1>5. /\ HeAlternates' /\ HeLogs(files, strokes, monHbounds.mx)' /\ HeTrue' /\ HeFoundOut'
      /\ \A g, a : HeUnread(g, a)' = HeUnread(g, a)
    BY <1>2, <1>3, <1>4, HeStays DEF HePad
<1>6. HeReader'
    BY <1>1, <1>2, <1>3 DEF HeReader, HeUnread
<1>7. HeSeen' /\ HeJudge'
    BY <1>1, <1>2 DEF HeSeen, HeBound, HeJudge, HeLast, HeOf
<1>8. HeTyped'
    BY <1>1, <1>2 DEF HeTyped
<1>. QED BY <1>3, <1>4, <1>5, <1>6, <1>7, <1>8 DEF HeIInv

\* The file it opens has nothing it has read, unless it starts at its end
LEMMA HeReopens == ASSUME HeIInv, Monitor!Reopens PROVE HeIInv'
<1>1. /\ HeTyped /\ HeClock /\ HeReader /\ HeSeen /\ HeJudge /\ HeOnce /\ HeNews
    BY DEF HeIInv
<1> DEFINE p == IF pos = 0 THEN len[1] ELSE 0
           f == Len(files)
<1>2. /\ len # <<>> /\ len # <<None>> /\ followed = 0 /\ len' = <<>>
      /\ there  => /\ followed' = f /\ pos' = p /\ judge' = Monitor!NewJudge
                   /\ start' = IF start = <<>> THEN <<f, p>> ELSE start
      /\ ~there => UNCHANGED <<followed, pos, judge, start>>
      /\ UNCHANGED <<ms, pressed, strokes, files, there, written, news, he, cleared, seen, monHbounds>>
    BY DEF Monitor!Reopens, Monitor!OpenAt
<1>3. Monitor!Findings' = Monitor!Findings /\ HeOnce' /\ HeNews'
    BY <1>1, <1>2, HeFindingsKept DEF HeNews
<1>4. HeClock'
    BY <1>1, <1>2 DEF HeClock, HeAge
<1>5. /\ HeAlternates' /\ HeLogs(files, strokes, monHbounds.mx)' /\ HeTrue' /\ HeFoundOut'
      /\ \A g, a : HeUnread(g, a)' = HeUnread(g, a)
    BY <1>2, <1>3, <1>4, HeStays DEF HePad
<1>6. CASE ~there
    <2>1. HeReader'
        BY <1>1, <1>2, <1>3, <1>6 DEF HeReader, HeUnread
    <2>. QED BY <1>1, <1>2, <1>3, <1>4, <1>5, <1>6, <2>1
             DEF HeIInv, HeTyped, HeSeen, HeBound, HeJudge
<1>7. CASE there
    <2>1. /\ f \in Nat /\ f >= 1 /\ p \in Nat /\ pos \in Nat /\ f \in 1 .. f
          /\ start = <<>> \/ start \in Nat \X Nat
        BY <1>1, <1>2 DEF HeTyped
    <2>2. /\ pos = 0 => start = <<>> /\ seen = {}
          /\ HeUnread(f, p)
          /\ p > Len(files[f]) => HeUnread(f, 0) /\ start = <<>>
          /\ pos # 0 => p = 0 /\ HeUnread(f, 0)
          /\ start = <<>> => pos = 0
        <3>0. p = 0 \/ (p = len[1] /\ pos = 0)
            OBVIOUS
        <3>1. CASE pos = 0
            <4>1. p = len[1]
                BY <3>1
            <4>2. start = <<>> /\ seen = {} /\ HeUnread(f, p) /\ (p <= Len(files[f]) \/ HeUnread(f, 0))
                BY <1>1, <1>2, <3>1, <4>1 DEF HeReader
            <4>3. Len(files[f]) \in Nat
                BY <1>1, <2>1 DEF HeTyped
            <4>. QED BY <2>1, <3>1, <4>2, <4>3
        <3>2. CASE pos # 0
            <4>1. p = 0 /\ HeUnread(f, 0) /\ start # <<>>
                BY <1>1, <1>2, <1>7, <3>2 DEF HeReader
            <4>2. Len(files[f]) \in Nat
                BY <1>1, <2>1 DEF HeTyped
            <4>. QED BY <3>2, <4>1, <4>2
        <3>. QED BY <3>1, <3>2
    <2>3. /\ followed' = f /\ pos' = p /\ f # 0
          /\ start' = IF start = <<>> THEN <<f, p>> ELSE start
        BY <1>2, <1>7, <2>1
    <2>4. \A g, a : HeRest(files, Monitor!Findings, seen, g, a)' = HeRest(files, Monitor!Findings, seen, g, a)
        BY <1>2, <1>3
    <2>5. HeReader'
        <3>1. HeUnread(followed, pos)' = HeUnread(f, p)
            BY <2>3, <1>2, <1>3 DEF HeUnread
        <3>2. HeUnread(followed, 0)' = HeUnread(f, 0)
            BY <2>3, <1>2, <1>3 DEF HeUnread
        <3>3. start' # <<>>
            BY <2>1, <2>3
        <3>4. \A g \in 1 .. Len(files') : ~(g > followed')
            BY <1>2, <2>1, <2>3
        <3>5. followed' # 0 /\ there' /\ followed' = Len(files') /\ len' = <<>> /\ <<>> # <<None>>
            BY <1>2, <1>7, <2>3
        <3>6. pos' > Len(files'[followed']) => HeUnread(followed, 0)' /\ start' = <<followed', pos'>>
            BY <1>2, <2>2, <2>3, <3>2
        <3>. HIDE DEF p, f
        <3>. QED BY <2>2, <3>1, <3>2, <3>3, <3>4, <3>5, <3>6 DEF HeReader
    <2>6. HeSeen'
        <3>1. \A s \in seen' : s[1] \in 1 .. Len(files') /\ \E i \in 1 .. Len(files'[s[1]]) : s[2] = files'[s[1]][i]
            BY <1>1, <1>2 DEF HeSeen
        <3>2. ASSUME NEW i \in 1 .. Len(files[f]), i > HeBound', i <= p PROVE FALSE
            <4>1. CASE pos = 0
                <5>1. start' = <<f, p>>
                    BY <2>2, <2>3, <4>1
                <5>2. HeBound' = p
                    BY <2>3, <5>1 DEF HeBound
                <5>. QED BY <2>1, <3>2, <5>2
            <4>2. CASE pos # 0
                BY <2>2, <3>2, <4>2
            <4>. QED BY <4>1, <4>2
        <3>3. files' = files
            BY <1>2
        <3>. HIDE DEF p, f
        <3>. QED BY <2>3, <3>1, <3>2, <3>3 DEF HeSeen
    <2>7. judge' = Monitor!NewJudge
        BY <1>2, <1>7
    <2>8. /\ \A k \in {1, 2} : judge'.down[k] = None /\ judge'.up[k] = None
          /\ judge' \in HeJudges
        BY <2>7 DEF Monitor!NewJudge, Monitor!Keys2, HeJudges
    <2>9. \A tag \in {"down", "up"}, k \in {1, 2} : HeOf(tag, k)' = {}
        <3>. SUFFICES ASSUME NEW tag \in {"down", "up"}, NEW k \in {1, 2}, NEW s \in seen,
                             s[1] = f, s[2].tag = tag
                      PROVE  FALSE
            BY <1>2, <2>3 DEF HeOf
        <3>1. pos # 0
            BY <2>2
        <3>2. HeUnread(f, 0)
            BY <2>2, <3>1
        <3>3. PICK i \in 1 .. Len(files[f]) : s[2] = files[f][i]
            BY <1>1 DEF HeSeen
        <3>4. i > 0 /\ files[f][i].tag \in HeFour
            BY <3>3 DEF HeFour
        <3>5. <<f, files[f][i]>> \notin seen
            BY <3>2, <3>4 DEF HeUnread, HeRest
        <3>6. s = <<f, s[2]>>
            BY <1>1 DEF HeTyped
        <3>. QED BY <3>3, <3>5, <3>6
    <2>10. HeJudge'
        <3>1. \A k \in {1, 2} : HeLast("down", k, judge.down[k])' /\ HeLast("up", k, judge.up[k])'
            BY <2>8, <2>9 DEF HeLast
        <3>2. pos' \in 1 .. Len(files'[followed']) => seen' = {}
            BY <1>2, <2>2, <2>3
        <3>. QED BY <3>1, <3>2 DEF HeJudge
    <2>11. HeTyped'
        <3>1. start' = <<>> \/ start' \in Nat \X Nat
            BY <2>1, <2>3
        <3>2. followed' \in 0 .. Len(files') /\ pos' \in Nat
            BY <1>2, <2>1, <2>3
        <3>. HIDE DEF p, f
        <3>. QED BY <1>1, <1>2, <2>8, <3>1, <3>2 DEF HeTyped
    <2>. QED BY <1>3, <1>4, <1>5, <2>5, <2>6, <2>10, <2>11 DEF HeIInv
<1>. QED BY <1>6, <1>7

-----------------------------------------------------------------------------
(* The window *)

\* An event taken from the channel goes to the log, unless it is a press
LEMMA HeHandles == ASSUME HeIInv, Monitor!HandleHeEvent PROVE HeIInv'
<1>1. /\ HeTyped /\ HeClock /\ HeReader /\ HeSeen /\ HeJudge /\ HeOnce /\ HeNews
    BY DEF HeIInv
<1> DEFINE e == Head(news)
           n == Len(news)
           L == he.log
<1>2. /\ news # <<>> /\ news' = Tail(news)
      /\ he' = CASE e.kind = "off" -> [he EXCEPT !.off = @ + 1, !.log = Append(@, e)]
                 [] e.kind = "presses" -> [he EXCEPT !.counts[e.key].presses = @ + 1]
                 [] OTHER -> [he EXCEPT !.counts[e.key][e.kind] = @ + 1, !.log = Append(@, e)]
      /\ UNCHANGED <<ms, pressed, strokes, files, there, written, followed, pos, len, judge, cleared,
                     seen, start, monHbounds>>
    BY DEF Monitor!HandleHeEvent
<1>3. /\ news \in Seq(HeEvents) /\ L \in Seq(HeEvents) /\ n \in Nat /\ Len(L) \in Nat
      /\ he = [counts |-> he.counts, off |-> he.off, log |-> he.log]
    BY <1>1 DEF HeTyped
<1>4. /\ n >= 1 /\ e = news[1] /\ e \in HeEvents /\ news' \in Seq(HeEvents) /\ Len(news') = n - 1
      /\ \A i \in 1 .. (n - 1) : news'[i] = news[i + 1]
    BY <1>2, <1>3
<1>5. /\ e.kind = "presses" => he'.log = L
      /\ e.kind # "presses" => he'.log = Append(L, e)
      /\ he' = [counts |-> he'.counts, off |-> he'.off, log |-> he'.log]
    <2>. HIDE DEF e
    <2>. QED BY <1>2, <1>3
<1>6. /\ he'.log \in Seq(HeEvents)
      /\ e.kind # "presses" =>
            /\ Len(he'.log) = Len(L) + 1 /\ he'.log[Len(L) + 1] = e
            /\ \A i \in 1 .. Len(L) : he'.log[i] = L[i]
    <2>1. L \in Seq(HeEvents) /\ e \in HeEvents /\ Len(L) \in Nat
        BY <1>3, <1>4
    <2>2. /\ Append(L, e) \in Seq(HeEvents) /\ Len(Append(L, e)) = Len(L) + 1
          /\ Append(L, e)[Len(L) + 1] = e /\ \A i \in 1 .. Len(L) : Append(L, e)[i] = L[i]
        <3>. HIDE DEF e, L
        <3>. QED BY <2>1
    <2>. HIDE DEF e, L
    <2>. QED BY <1>5, <2>1, <2>2
<1>. HIDE DEF e, n, L
<1>7. ASSUME NEW x
      PROVE  /\ (\E i \in DOMAIN news : x = news[i]) <=> (x = e \/ \E i \in DOMAIN news' : x = news'[i])
             /\ (\E i \in DOMAIN he'.log : x = he'.log[i]) <=>
                   ((x = e /\ e.kind # "presses") \/ \E i \in DOMAIN L : x = L[i])
    <2>1. DOMAIN news = 1 .. n /\ DOMAIN news' = 1 .. (n - 1) /\ DOMAIN L = 1 .. Len(L)
        BY <1>3, <1>4 DEF n
    <2>2. ASSUME NEW i \in 1 .. n PROVE news[i] = e \/ \E j \in 1 .. (n - 1) : news[i] = news'[j]
        <3>1. CASE i = 1
            BY <1>4, <3>1
        <3>2. CASE i # 1
            <4>1. i - 1 \in 1 .. (n - 1) /\ (i - 1) + 1 = i
                BY <1>3, <3>2
            <4>. QED BY <1>4, <4>1
        <3>. QED BY <3>1, <3>2
    <2>3. ASSUME NEW j \in 1 .. (n - 1) PROVE \E i \in 1 .. n : news[i] = news'[j]
        <3>1. j + 1 \in 1 .. n
            BY <1>3
        <3>. QED BY <1>4, <3>1
    <2>4. 1 \in 1 .. n
        BY <1>3, <1>4
    <2>5. (\E i \in DOMAIN news : x = news[i]) <=> (x = e \/ \E i \in DOMAIN news' : x = news'[i])
        BY <1>4, <2>1, <2>2, <2>3, <2>4
    <2>6. CASE e.kind = "presses"
        BY <1>5, <2>5, <2>6 DEF L
    <2>7. CASE e.kind # "presses"
        <3>1. DOMAIN he'.log = 1 .. (Len(L) + 1) /\ 1 .. (Len(L) + 1) = (1 .. Len(L)) \cup {Len(L) + 1}
            BY <1>3, <1>6, <2>7
        <3>. QED BY <1>6, <2>1, <2>5, <2>7, <3>1
    <2>. QED BY <2>6, <2>7
<1>8. Monitor!Findings' = Monitor!Findings
    <2>1. ASSUME NEW x PROVE x \in Monitor!Findings' <=> x \in Monitor!Findings
        <3>1. x \in Monitor!Findings <=>
                 /\ x.kind \in HeThree
                 /\ \/ x \in cleared
                    \/ \E i \in DOMAIN L : x = L[i]
                    \/ \E i \in DOMAIN news : x = news[i]
            BY HeFindings DEF L
        <3>2. x \in Monitor!Findings' <=>
                 /\ x.kind \in HeThree
                 /\ \/ x \in cleared'
                    \/ \E i \in DOMAIN he'.log : x = he'.log[i]
                    \/ \E i \in DOMAIN news' : x = news'[i]
            BY DEF Monitor!Findings, Monitor!Members, HeThree
        <3>3. x.kind \in HeThree /\ x = e => e.kind # "presses"
            BY DEF HeThree
        <3>4. cleared' = cleared
            BY <1>2
        <3>. QED BY <1>7, <3>1, <3>2, <3>3, <3>4
    <2>. QED BY <2>1 DEF Monitor!Findings
<1>9. HeOnce'
    <2>1. /\ \A i, j \in 1 .. Len(L) : L[i].kind \in HeThree /\ L[i] = L[j] => i = j
          /\ \A i, j \in 1 .. n : news[i].kind \in HeThree /\ news[i] = news[j] => i = j
          /\ \A i \in 1 .. Len(L), j \in 1 .. n : L[i].kind \in HeThree => L[i] # news[j]
          /\ \A c \in cleared : c.kind \in HeThree =>
                /\ \A i \in 1 .. Len(L) : L[i] # c
                /\ \A i \in 1 .. n : news[i] # c
        BY <1>1 DEF HeOnce, n, L
    <2>2. 1 \in 1 .. n /\ \A i \in 1 .. (n - 1) : i + 1 \in 1 .. n /\ i + 1 # 1
        BY <1>3, <1>4
    <2>3. \A i, j \in 1 .. (n - 1) : news'[i].kind \in HeThree /\ news'[i] = news'[j] => i = j
        <3>. SUFFICES ASSUME NEW i \in 1 .. (n - 1), NEW j \in 1 .. (n - 1),
                             news'[i].kind \in HeThree, news'[i] = news'[j]
                      PROVE  i = j
            OBVIOUS
        <3>1. i + 1 = j + 1
            BY <1>4, <2>1, <2>2
        <3>. QED BY <3>1
    <2>4. \A i \in 1 .. (n - 1) : news'[i].kind \in HeThree => news'[i] # e
        BY <1>4, <2>1, <2>2
    <2>5. \A c \in cleared : c.kind \in HeThree => e # c /\ \A i \in 1 .. (n - 1) : news'[i] # c
        BY <1>4, <2>1, <2>2
    <2>6. \A i \in 1 .. Len(L) : L[i].kind \in HeThree => L[i] # e /\ \A j \in 1 .. (n - 1) : L[i] # news'[j]
        BY <1>4, <2>1, <2>2
    <2>7. CASE e.kind = "presses"
        <3>1. he'.log = L /\ Len(news') = n - 1 /\ cleared' = cleared
            BY <1>2, <1>4, <1>5, <2>7
        <3>. QED BY <2>1, <2>3, <2>5, <2>6, <3>1 DEF HeOnce
    <2>8. CASE e.kind # "presses"
        <3> DEFINE M == he'.log
        <3>1. /\ Len(M) = Len(L) + 1 /\ M[Len(L) + 1] = e /\ \A i \in 1 .. Len(L) : M[i] = L[i]
              /\ Len(news') = n - 1 /\ cleared' = cleared
            BY <1>2, <1>4, <1>6, <2>8
        <3>2. \A i \in 1 .. (Len(L) + 1) : i \in 1 .. Len(L) \/ i = Len(L) + 1
            BY <1>3
        <3>. HIDE DEF M
        <3>3. \A i, j \in 1 .. Len(M) : M[i].kind \in HeThree /\ M[i] = M[j] => i = j
            <4>. SUFFICES ASSUME NEW i \in 1 .. Len(M), NEW j \in 1 .. Len(M), M[i].kind \in HeThree, M[i] = M[j]
                          PROVE  i = j
                OBVIOUS
            <4>. QED BY <2>1, <2>6, <3>1, <3>2
        <3>4. \A i \in 1 .. Len(M), j \in 1 .. (n - 1) : M[i].kind \in HeThree => M[i] # news'[j]
            BY <2>4, <2>6, <3>1, <3>2
        <3>5. \A c \in cleared : c.kind \in HeThree => \A i \in 1 .. Len(M) : M[i] # c
            BY <2>1, <2>5, <3>1, <3>2
        <3>. QED BY <2>3, <2>5, <3>1, <3>3, <3>4, <3>5 DEF HeOnce, M
    <2>. QED BY <2>7, <2>8
<1>10. HeNews'
    <2>1. \A i \in 1 .. (n - 1) : i + 1 \in 1 .. n
        BY <1>3
    <2>. QED BY <1>1, <1>2, <1>4, <2>1 DEF HeNews, n
<1>11. HeClock'
    BY <1>1, <1>2 DEF HeClock, HeAge
<1>12. /\ HeAlternates' /\ HeLogs(files, strokes, monHbounds.mx)' /\ HeTrue' /\ HeFoundOut'
       /\ \A g, a : HeUnread(g, a)' = HeUnread(g, a)
    BY <1>2, <1>8, <1>11, HeStays DEF HePad
<1>13. HeReader'
    BY <1>1, <1>2, <1>8 DEF HeReader, HeUnread
<1>14. HeSeen' /\ HeJudge'
    BY <1>1, <1>2 DEF HeSeen, HeBound, HeJudge, HeLast, HeOf
<1>15. HeTyped'
    BY <1>1, <1>2, <1>4, <1>5, <1>6 DEF HeTyped
<1>. QED BY <1>9, <1>10, <1>11, <1>12, <1>13, <1>14, <1>15 DEF HeIInv

LEMMA HeResets == ASSUME HeIInv, Monitor!ResetsFindings PROVE HeIInv'
<1>1. /\ HeTyped /\ HeClock /\ HeReader /\ HeSeen /\ HeJudge /\ HeOnce /\ HeNews
    BY DEF HeIInv
<1>2. /\ Monitor!Takes("breaks") /\ he' = Monitor!NoFindings
      /\ cleared' = cleared \cup {he.log[i] : i \in DOMAIN he.log}
      /\ UNCHANGED <<ms, pressed, strokes, files, there, written, followed, pos, len, judge, news, seen,
                     start>>
    BY DEF Monitor!ResetsFindings, Monitor!Members
<1>3. monHbounds' \in HeBudgets /\ monHbounds'.mx = monHbounds.mx /\ monHbounds'.ticks = monHbounds.ticks
    <2>1. monHbounds \in HeBudgets
        BY <1>1 DEF HeTyped
    <2>. QED BY <1>2, <2>1, HeTakes
<1>4. /\ he.log \in Seq(HeEvents) /\ DOMAIN he.log = 1 .. Len(he.log) /\ cleared \subseteq HeEvents
      /\ \A i \in 1 .. Len(he.log) : he.log[i] \in HeEvents
    BY <1>1 DEF HeTyped
<1>5. /\ he'.log = <<>> /\ Len(he'.log) = 0 /\ DOMAIN he'.log = {} /\ he'.log \in Seq(HeEvents)
      /\ he' = [counts |-> he'.counts, off |-> he'.off, log |-> he'.log]
    <2>1. he' = [counts |-> he'.counts, off |-> 0, log |-> <<>>]
        BY <1>2 DEF Monitor!NoFindings
    <2>2. he'.log = <<>>
        BY <2>1
    <2>. QED BY <2>1, <2>2
<1>6. cleared' \subseteq HeEvents
    BY <1>2, <1>4
<1>7. Monitor!Findings' = Monitor!Findings
    <2>1. ASSUME NEW x PROVE x \in Monitor!Findings' <=> x \in Monitor!Findings
        <3>1. x \in Monitor!Findings' <=>
                 /\ x.kind \in HeThree
                 /\ \/ x \in cleared'
                    \/ \E i \in DOMAIN he'.log : x = he'.log[i]
                    \/ \E i \in DOMAIN news' : x = news'[i]
            BY DEF Monitor!Findings, Monitor!Members, HeThree
        <3>. QED BY <1>2, <1>5, <3>1, HeFindings
    <2>. QED BY <2>1 DEF Monitor!Findings
<1>8. HeOnce'
    <2>1. \A i \in 1 .. Len(he'.log) : FALSE
        BY <1>5
    <2>2. \A i, j \in 1 .. Len(news') : news'[i].kind \in HeThree /\ news'[i] = news'[j] => i = j
        BY <1>1, <1>2 DEF HeOnce
    <2>3. \A c \in cleared' : c.kind \in HeThree => \A i \in 1 .. Len(news') : news'[i] # c
        BY <1>1, <1>2, <1>4 DEF HeOnce
    <2>. QED BY <2>1, <2>2, <2>3 DEF HeOnce
<1>9. HeNews' /\ HeClock'
    BY <1>1, <1>2, <1>3 DEF HeNews, HeClock, HeAge
<1>10. /\ HeAlternates' /\ HeLogs(files, strokes, monHbounds.mx)' /\ HeTrue' /\ HeFoundOut'
       /\ \A g, a : HeUnread(g, a)' = HeUnread(g, a)
    BY <1>2, <1>3, <1>7, <1>9, HeStays DEF HePad
<1>11. HeReader'
    BY <1>1, <1>2, <1>7 DEF HeReader, HeUnread
<1>12. HeSeen' /\ HeJudge'
    BY <1>1, <1>2 DEF HeSeen, HeBound, HeJudge, HeLast, HeOf
<1>13. HeTyped'
    BY <1>1, <1>2, <1>3, <1>5, <1>6 DEF HeTyped
<1>. QED BY <1>8, <1>9, <1>10, <1>11, <1>12, <1>13 DEF HeIInv

\* A new thread knows nothing; what was under way to the window is lost
LEMMA HeReturns == ASSUME HeIInv, Monitor!PageReturns PROVE HeIInv'
<1>1. /\ HeTyped /\ HeClock /\ HeAlternates /\ HeLogs(files, strokes, monHbounds.mx)
      /\ HeReader /\ HeSeen /\ HeJudge /\ HeOnce /\ HeTrue /\ HeNews
    BY DEF HeIInv
<1>2. /\ Monitor!Takes("breaks")
      /\ followed' = 0 /\ pos' = 0 /\ len' = <<>> /\ judge' = Monitor!NewJudge /\ news' = <<>>
      /\ seen' = {} /\ start' = <<>>
      /\ UNCHANGED <<ms, pressed, strokes, files, there, written, he, cleared>>
    BY DEF Monitor!PageReturns
<1>3. monHbounds' \in HeBudgets /\ monHbounds'.mx = monHbounds.mx /\ monHbounds'.ticks = monHbounds.ticks
    <2>1. monHbounds \in HeBudgets
        BY <1>1 DEF HeTyped
    <2>. QED BY <1>2, <2>1, HeTakes
<1>4. \A x : x \in Monitor!Findings' => x \in Monitor!Findings
    <2>. SUFFICES ASSUME NEW x, x \in Monitor!Findings' PROVE x \in Monitor!Findings
        OBVIOUS
    <2>1. /\ x.kind \in HeThree
          /\ x \in cleared' \/ (\E i \in DOMAIN he'.log : x = he'.log[i]) \/ \E i \in DOMAIN news' : x = news'[i]
        BY DEF Monitor!Findings, Monitor!Members, HeThree
    <2>2. DOMAIN news' = {}
        BY <1>2
    <2>. QED BY <1>2, <2>1, <2>2, HeFindings
<1>5. HeOnce' /\ HeNews'
    <2>1. \A i \in 1 .. Len(news') : FALSE
        BY <1>2
    <2>2. /\ \A i, j \in 1 .. Len(he'.log) : he'.log[i].kind \in HeThree /\ he'.log[i] = he'.log[j] => i = j
          /\ \A c \in cleared' : c.kind \in HeThree => \A i \in 1 .. Len(he'.log) : he'.log[i] # c
        BY <1>1, <1>2 DEF HeOnce
    <2>. QED BY <2>1, <2>2 DEF HeOnce, HeNews
<1>6. HeClock' /\ HeAlternates' /\ HeLogs(files, strokes, monHbounds.mx)'
    BY <1>1, <1>2, <1>3 DEF HeClock, HeAge, HeAlternates
<1>7. HeTrue' /\ HeFoundOut'
    BY <1>1, <1>2, <1>4 DEF HeTrue, HeFoundOut
<1>8. HeReader' /\ HeSeen' /\ HeJudge'
    BY <1>2 DEF HeReader, HeSeen, HeJudge
<1>9. HeTyped'
    <2>1. judge' \in HeJudges /\ news' \in Seq(HeEvents)
        BY <1>2 DEF Monitor!NewJudge, Monitor!Keys2, HeJudges
    <2>2. followed' \in 0 .. Len(files') /\ pos' \in Nat /\ seen' \subseteq Nat \X HeLines
        BY <1>1, <1>2 DEF HeTyped
    <2>. QED BY <1>1, <1>2, <1>3, <2>1, <2>2 DEF HeTyped
<1>. QED BY <1>5, <1>6, <1>7, <1>8, <1>9 DEF HeIInv

-----------------------------------------------------------------------------
(* The judge *)

\* Every place of the files shows what no other place shows
LEMMA HePlaceOf ==
    ASSUME HeTyped, HeLogs(files, strokes, monHbounds.mx),
           NEW g \in 1 .. Len(files), NEW i \in 1 .. Len(files[g]),
           NEW h \in 1 .. Len(files), NEW j \in 1 .. Len(files[h]),
           files[g][i].tag \in HeFour, files[h][j].tag = files[g][i].tag,
           files[h][j].of = files[g][i].of
    PROVE  g = h /\ i = j
<1>1. PICK kind \in HeThree : HeShows(files[g][i].tag, kind)
    BY DEF HeFour, HeThree, HeShows
<1>2. HeShows(files[h][j].tag, kind)
    BY <1>1
<1>. QED BY <1>1, <1>2 DEF HeLogs

\* The stroke a line is of
LEMMA HeLineStroke ==
    ASSUME HeTyped, HeLogs(files, strokes, monHbounds.mx),
           NEW g \in 1 .. Len(files), NEW i \in 1 .. Len(files[g]), files[g][i].tag \in HeFour
    PROVE  LET l == files[g][i]
           IN  /\ l \in HeLines /\ l.of \in 1 .. Len(strokes) /\ l.of \in Nat
               /\ strokes[l.of].key = l.key /\ strokes[l.of].ms = l.ms /\ strokes[l.of] \in HeStrokes
               /\ strokes[l.of].down <=> l.tag \in {"down", "pre"}
               /\ l.tag = "pre" => l.v = strokes[l.of].jump
<1> DEFINE l == files[g][i]
<1>1. HeLine(strokes, monHbounds.mx, l) /\ l.tag \in HeFour
    BY DEF HeLogs
<1>2. l \in HeLines /\ strokes \in Seq(HeStrokes) /\ Len(strokes) \in Nat
    BY DEF HeTyped
<1>. HIDE DEF l
<1>3. l.of \in 1 .. Len(strokes) /\ l.of \in Nat
    BY <1>1, <1>2 DEF HeLine
<1>4. strokes[l.of] \in HeStrokes
    BY <1>2, <1>3
<1>5. /\ strokes[l.of].key = l.key /\ strokes[l.of].ms = l.ms
      /\ strokes[l.of].down <=> l.tag \in {"down", "pre"}
      /\ l.tag = "pre" => l.v = strokes[l.of].jump
    BY <1>1 DEF HeLine
<1>. QED BY <1>2, <1>3, <1>4, <1>5 DEF l

\* A line that is seen is of the file, and not after the reader's place
LEMMA HeSeenPlace ==
    ASSUME HeTyped, HeReader, HeSeen, followed # 0, NEW s \in seen, s[1] = followed, s[2].tag \in HeFour
    PROVE  /\ followed \in 1 .. Len(files) /\ s = <<followed, s[2]>>
           /\ \E i \in 1 .. Len(files[followed]) : s[2] = files[followed][i] /\ i <= pos
<1>1. followed \in 1 .. Len(files) /\ s = <<followed, s[2]>>
    BY DEF HeTyped
<1>2. PICK i \in 1 .. Len(files[followed]) : s[2] = files[followed][i]
    BY DEF HeSeen
<1>3. i <= pos
    <2>. SUFFICES ASSUME i > pos PROVE FALSE
        BY DEF HeTyped
    <2>1. HeUnread(followed, pos)
        BY DEF HeReader
    <2>2. <<followed, files[followed][i]>> \notin seen
        BY <1>2, <2>1 DEF HeUnread, HeRest
    <2>. QED BY <1>1, <1>2, <2>2
<1>. QED BY <1>1, <1>2, <1>3

\* Of two strokes of a key one after the other one is a press, and one not
LEMMA HeTurns ==
    ASSUME HeTyped, HeAlternates, NEW n \in 1 .. Len(strokes)
    PROVE  /\ \A i \in HeBefore(strokes, n) : strokes[i].down <=> ~strokes[n].down
           /\ \A i, j \in HeBefore(strokes, n) : i = j
           /\ \A i \in HeBefore(strokes, n) : i \in 1 .. (n - 1) /\ strokes[i].key = strokes[n].key
           /\ ~strokes[n].down => \E i \in HeBefore(strokes, n) : strokes[i].down
<1>1. n \in Nat /\ n >= 1 /\ n - 1 \in Nat
    BY DEF HeTyped
<1> DEFINE k == strokes[n].key
<1>2. strokes[n].down <=> ~HeHeld(strokes, k, n - 1)
    BY DEF HeAlternates
<1>3. \A i \in HeBefore(strokes, n) :
          /\ i \in 1 .. (n - 1) /\ strokes[i].key = k
          /\ \A j \in (i + 1) .. (n - 1) : strokes[j].key # k
    BY DEF HeBefore
<1>4. \A i, j \in HeBefore(strokes, n) : i = j
    <2>. SUFFICES ASSUME NEW i \in HeBefore(strokes, n), NEW j \in HeBefore(strokes, n), i < j PROVE FALSE
        BY <1>1, <1>3
    <2>1. j \in (i + 1) .. (n - 1)
        BY <1>1, <1>3
    <2>. QED BY <1>3, <2>1
<1>5. \A i \in 1 .. (n - 1) :
          strokes[i].key = k /\ (\A j \in (i + 1) .. (n - 1) : strokes[j].key # k) => i \in HeBefore(strokes, n)
    BY DEF HeBefore
<1>. HIDE DEF k
<1>6. HeHeld(strokes, k, n - 1) <=> \E i \in HeBefore(strokes, n) : strokes[i].down
    BY <1>3, <1>5 DEF HeHeld
<1>7. \A i \in HeBefore(strokes, n) : strokes[i].down <=> ~strokes[n].down
    BY <1>2, <1>4, <1>6
<1>. QED BY <1>2, <1>3, <1>4, <1>6, <1>7 DEF k

HeNext == files[followed][pos + 1]
HeReads == followed # 0 /\ pos + 1 \in 1 .. Len(files[followed])

\* The line it reads is not before one it has seen of the file
LEMMA HeAfterSeen ==
    ASSUME HeIInv, HeReads, NEW s \in seen, s[1] = followed, s[2].tag \in HeFour
    PROVE  /\ s[2].of \in Nat /\ s[2].of <= HeNext.of
           /\ s[2].of \in 1 .. Len(strokes) /\ strokes[s[2].of].key = s[2].key
           /\ strokes[s[2].of].ms = s[2].ms
           /\ strokes[s[2].of].down <=> s[2].tag \in {"down", "pre"}
<1>1. HeTyped /\ HeReader /\ HeSeen /\ HeLogs(files, strokes, monHbounds.mx) /\ followed # 0
    BY DEF HeIInv, HeReads
<1>2. PICK i \in 1 .. Len(files[followed]) : s[2] = files[followed][i] /\ i <= pos /\ followed \in 1 .. Len(files)
    BY <1>1, HeSeenPlace
<1>3. pos + 1 \in 1 .. Len(files[followed]) /\ i <= pos + 1
    BY <1>1, <1>2 DEF HeReads, HeTyped
<1>4. s[2].of <= HeNext.of
    BY <1>1, <1>2, <1>3 DEF HeLogs, HeNext
<1>. QED BY <1>1, <1>2, <1>4, HeLineStroke

\* What the judge remembers is the edge before, when its line was seen
LEMMA HeRemembers ==
    ASSUME HeIInv, HeReads, HeNext.tag \in {"down", "up"}, NEW t \in {"down", "up"}, t # HeNext.tag,
           NEW v, HeLast(t, HeNext.key, v), NEW limit \in Nat
    PROVE  /\ Monitor!Within(HeNext.ms, v, limit) => HeAgo(strokes, HeNext.of, limit)
           /\ \A r \in seen : r[1] = followed /\ r[2].tag \in {"up", "down"}
                 /\ r[2].of \in HeBefore(strokes, HeNext.of) /\ HeAgo(strokes, HeNext.of, limit)
                 => Monitor!Within(HeNext.ms, v, limit)
<1> DEFINE l == HeNext
           n == l.of
           k == l.key
<1>1. HeTyped /\ HeReader /\ HeSeen /\ HeLogs(files, strokes, monHbounds.mx) /\ HeClock /\ HeAlternates
    BY DEF HeIInv
<1>2. followed \in 1 .. Len(files) /\ l.tag \in HeFour /\ t \in HeFour
    BY <1>1 DEF HeTyped, HeReads, HeFour
<1>3. /\ l \in HeLines /\ n \in 1 .. Len(strokes) /\ n \in Nat
      /\ strokes[n].key = k /\ strokes[n].ms = l.ms
      /\ strokes[n].down <=> l.tag \in {"down", "pre"}
    BY <1>1, <1>2, HeLineStroke DEF HeReads, HeNext
<1>. HIDE DEF l, n, k
<1>4. ASSUME NEW s \in HeOf(t, k)
      PROVE  /\ s[2].of \in 1 .. (n - 1) /\ s[2].of \in Nat
             /\ strokes[s[2].of].key = k /\ strokes[s[2].of].ms = s[2].ms
    <2>1. s \in seen /\ s[1] = followed /\ s[2].tag = t /\ s[2].key = k
        BY DEF HeOf
    <2>2. /\ s[2].of \in Nat /\ s[2].of <= n /\ s[2].of \in 1 .. Len(strokes)
          /\ strokes[s[2].of].key = k /\ strokes[s[2].of].ms = s[2].ms
          /\ strokes[s[2].of].down <=> s[2].tag \in {"down", "pre"}
        BY <1>2, <2>1, HeAfterSeen DEF n, l
    <2>3. s[2].of # n
        BY <1>3, <2>1, <2>2 DEF l
    <2>. QED BY <1>3, <2>2, <2>3
<1>5. ASSUME Monitor!Within(l.ms, v, limit) PROVE HeAgo(strokes, n, limit)
    <2>1. v # None /\ Monitor!Elapsed(l.ms, v) < limit
        BY <1>5 DEF Monitor!Within
    <2>2. PICK s \in HeOf(t, k) : v = s[2].ms
        BY <2>1 DEF HeLast, k, l
    <2> DEFINE m == s[2].of
    <2>3. m \in 1 .. (n - 1) /\ m \in Nat /\ strokes[m].key = k /\ strokes[m].ms = v
        BY <1>4, <2>2
    <2>. HIDE DEF m
    <2>4. PICK i \in HeBefore(strokes, n) : m <= i
        BY <1>3, <2>3, HeLastStroke
    <2>5. i \in 1 .. n /\ m \in 1 .. n
        BY <1>3, <2>3, <2>4 DEF HeBefore
    <2>6. Monitor!Elapsed(strokes[n].ms, strokes[i].ms) <= Monitor!Elapsed(strokes[n].ms, strokes[m].ms)
        BY <1>1, <1>3, <2>4, <2>5, HeLonger
    <2>7. Monitor!Elapsed(strokes[n].ms, strokes[m].ms) < limit
        BY <1>3, <2>1, <2>3
    <2>8. /\ Monitor!Elapsed(strokes[n].ms, strokes[i].ms) \in Int
          /\ Monitor!Elapsed(strokes[n].ms, strokes[m].ms) \in Int
        <3>1. i \in 1 .. Len(strokes) /\ m \in 1 .. Len(strokes)
            BY <1>1, <1>3, <2>5 DEF HeTyped
        <3>2. strokes[i] \in HeStrokes /\ strokes[m] \in HeStrokes /\ strokes[n] \in HeStrokes
            BY <1>1, <1>3, <3>1 DEF HeTyped
        <3>3. strokes[i].ms \in HeTimes /\ strokes[m].ms \in HeTimes /\ strokes[n].ms \in HeTimes
            BY <3>2 DEF HeStrokes
        <3>. QED BY <3>3, HeConstants DEF HeTimes, Monitor!Elapsed
    <2>9. Monitor!Elapsed(strokes[n].ms, strokes[i].ms) < limit
        BY <2>6, <2>7, <2>8
    <2>. QED BY <2>4, <2>9 DEF HeAgo
<1>6. ASSUME NEW r \in seen, r[1] = followed, r[2].tag \in {"up", "down"},
             r[2].of \in HeBefore(strokes, n), HeAgo(strokes, n, limit)
      PROVE  Monitor!Within(l.ms, v, limit)
    <2> DEFINE m == r[2].of
    <2>1. /\ m \in 1 .. Len(strokes) /\ strokes[m].key = r[2].key /\ strokes[m].ms = r[2].ms
          /\ strokes[m].down <=> r[2].tag \in {"down", "pre"}
        BY <1>6, HeAfterSeen DEF HeFour
    <2>2. /\ strokes[m].down <=> ~strokes[n].down
          /\ m \in 1 .. (n - 1) /\ strokes[m].key = k
          /\ \A i \in HeBefore(strokes, n) : i = m
        BY <1>1, <1>3, <1>6, HeTurns
    <2>3. r \in HeOf(t, k)
        <3>1. l.tag \in {"down", "up"} /\ t # l.tag
            BY DEF l
        <3>. QED BY <1>3, <1>6, <2>1, <2>2, <3>1 DEF HeOf
    <2>4. PICK s \in HeOf(t, k) : v = s[2].ms /\ r[2].of <= s[2].of
        BY <2>3 DEF HeLast, k, l
    <2>5. /\ s[2].of \in 1 .. (n - 1) /\ strokes[s[2].of].key = k /\ strokes[s[2].of].ms = v
        BY <1>4, <2>4
    <2>6. s[2].of = m
        <3>1. ~(s[2].of \in (m + 1) .. (n - 1))
            BY <1>3, <1>6, <2>5 DEF HeBefore
        <3>. QED BY <1>3, <2>2, <2>4, <2>5, <3>1
    <2>7. Monitor!Elapsed(strokes[n].ms, strokes[m].ms) < limit
        BY <1>6, <2>2 DEF HeAgo
    <2>8. v = strokes[m].ms
        BY <2>5, <2>6
    <2>9. v # None
        <3>1. strokes[m] \in HeStrokes
            BY <1>1, <2>1 DEF HeTyped
        <3>2. strokes[m].ms \in HeTimes
            BY <3>1 DEF HeStrokes
        <3>. QED BY <2>8, <3>2, HeConstants DEF HeTimes
    <2>. QED BY <1>3, <2>7, <2>8, <2>9 DEF Monitor!Within
<1>. QED BY <1>5, <1>6 DEF l, n

\* The stroke a tap ends is one the pad knows
LEMMA HeTapHeld ==
    ASSUME HeIInv, HeReads, HeNext.tag = "tap", Monitor!Held(HeNext) < ShortMs
    PROVE  HeDeserves(strokes, "short", HeNext.of)
<1> DEFINE l == HeNext
           n == l.of
           P(i) == /\ strokes[i].key = l.key /\ strokes[i].down
                   /\ \A j \in (i + 1) .. (n - 1) : strokes[j].key # l.key
           c == CHOOSE i \in 1 .. (n - 1) : P(i)
<1>1. HeTyped /\ HeReader /\ HeSeen /\ HeLogs(files, strokes, monHbounds.mx) /\ HeAlternates
    BY DEF HeIInv
<1>2. followed \in 1 .. Len(files) /\ l.tag \in HeFour
    BY <1>1 DEF HeTyped, HeReads, HeFour
<1>3. /\ l \in HeLines /\ n \in 1 .. Len(strokes) /\ n \in Nat
      /\ strokes[n].key = l.key /\ strokes[n].ms = l.ms
      /\ strokes[n].down <=> l.tag \in {"down", "pre"}
    BY <1>1, <1>2, HeLineStroke DEF HeReads, HeNext
<1>4. ~strokes[n].down
    BY <1>3
<1>5. \E i \in 1 .. (n - 1) : P(i)
    <2>1. \E i \in HeBefore(strokes, n) : strokes[i].down
        BY <1>1, <1>3, <1>4, HeTurns
    <2>. QED BY <1>3, <2>1 DEF HeBefore
<1>6. c \in 1 .. (n - 1) /\ P(c)
    BY <1>5
<1>7. Monitor!Held(HeNext) = Monitor!Elapsed(l.ms, strokes[c].ms)
    BY DEF Monitor!Held
<1>8. c \in HeBefore(strokes, n)
    BY <1>3, <1>6 DEF HeBefore
<1>. HIDE DEF c, P
<1>9. HeAgo(strokes, n, ShortMs)
    BY <1>3, <1>7, <1>8 DEF HeAgo
<1>. QED BY <1>4, <1>9 DEF HeDeserves

LEMMA HeAppended ==
    ASSUME NEW Z, NEW s \in Seq(Z), NEW b \in Z
    PROVE  /\ Append(s, b) \in Seq(Z) /\ Len(Append(s, b)) = Len(s) + 1
           /\ \A i \in 1 .. Len(s) : Append(s, b)[i] = s[i]
           /\ Append(s, b)[Len(s) + 1] = b
BY AppendProperties

LEMMA HePair ==
    ASSUME NEW Z, NEW a \in Z, NEW b \in Z
    PROVE  <<a>> \o <<b>> = <<a, b>> /\ <<a>> \o <<>> = <<a>>
<1>1. <<a>> \in Seq(Z)
    OBVIOUS
<1>2. Append(<<a>>, b) = <<a>> \o <<b>>
    BY <1>1, AppendIsConcat
<1>3. Append(<<a>>, b) = <<a, b>>
    <2> DEFINE s == <<a>>
               t == Append(s, b)
               u == <<a, b>>
    <2>1. s \in Seq(Z) /\ Len(s) = 1 /\ s[1] = a
        OBVIOUS
    <2>2. u \in Seq(Z) /\ Len(u) = 2 /\ u[1] = a /\ u[2] = b
        OBVIOUS
    <2>. HIDE DEF s, u
    <2>3. t \in Seq(Z) /\ Len(t) = 2 /\ t[1] = a /\ t[2] = b
        <3>1. /\ t \in Seq(Z) /\ Len(t) = Len(s) + 1 /\ \A i \in 1 .. Len(s) : t[i] = s[i]
              /\ t[Len(s) + 1] = b
            BY <2>1, HeAppended
        <3>2. Len(s) + 1 = 2 /\ 1 \in 1 .. Len(s)
            BY <2>1
        <3>. HIDE DEF t
        <3>. QED BY <2>1, <3>1, <3>2
    <2>. HIDE DEF t
    <2>4. \A i \in 1 .. Len(t) : t[i] = u[i]
        <3>1. \A i \in 1 .. Len(t) : i = 1 \/ i = 2
            BY <2>3
        <3>. QED BY <2>2, <2>3, <3>1
    <2>5. t = u
        BY <2>2, <2>3, <2>4, SeqEqual
    <2>. QED BY <2>5 DEF s, t, u
<1>4. <<a>> \o <<>> = <<a>>
    BY <1>1, ConcatEmptySeq
<1>. QED BY <1>2, <1>3, <1>4

\* What the judge says of a line: of its stroke, and one finding at most
LEMMA HeSays ==
    ASSUME HeIInv, HeReads
    PROVE  LET E == Monitor!Events(judge, HeNext)
               l == HeNext
           IN  /\ E \in Seq(HeEvents)
               /\ \A i \in 1 .. Len(E) :
                     /\ E[i].of = l.of /\ E[i].key = l.key
                     /\ E[i].kind \in HeThree =>
                           l.tag \in HeFour /\ HeShows(l.tag, E[i].kind) /\ HeDeserves(strokes, E[i].kind, l.of)
               /\ \A i, j \in 1 .. Len(E) : E[i].kind \in HeThree /\ E[j].kind \in HeThree => i = j
               /\ l.tag = "down" /\ Monitor!Within(l.ms, judge.up[l.key], RepressMs) =>
                     \E i \in 1 .. Len(E) : E[i].kind = "repress"
               /\ l.tag = "up" /\ Monitor!Within(l.ms, judge.down[l.key], ShortMs) =>
                     \E i \in 1 .. Len(E) : E[i].kind = "short"
               /\ l.tag = "pre" /\ judge.pending = l.key /\ l.v =>
                     \E i \in 1 .. Len(E) : E[i].kind = "phantom"
<1> DEFINE l == HeNext
           E == Monitor!Events(judge, l)
           Ev(kind) == [kind |-> kind, key |-> l.key, of |-> l.of]
           Good(e) == /\ e.of = l.of /\ e.key = l.key
                      /\ e.kind \in HeThree =>
                            l.tag \in HeFour /\ HeShows(l.tag, e.kind) /\ HeDeserves(strokes, e.kind, l.of)
<1>1. HeTyped /\ HeReader /\ HeSeen /\ HeLogs(files, strokes, monHbounds.mx) /\ HeJudge /\ followed # 0
    BY DEF HeIInv, HeReads
<1>2. followed \in 1 .. Len(files)
    BY <1>1 DEF HeTyped
<1>3. l \in HeLines /\ l.of \in Nat /\ l.key \in {1, 2} /\ l.tag \in HeTags /\ l.v \in BOOLEAN
    <2>1. files[followed] \in Seq(HeLines)
        BY <1>1, <1>2 DEF HeTyped
    <2>2. l \in HeLines
        BY <2>1 DEF HeReads, HeNext
    <2>. QED BY <2>2 DEF HeLines
<1>4. /\ ShortMs \in Nat /\ RepressMs \in Nat
    BY HeConstants
<1>. HIDE DEF l
<1>5. \A kind \in HeKinds : /\ Ev(kind) \in HeEvents /\ Ev(kind).kind = kind
                            /\ Ev(kind).of = l.of /\ Ev(kind).key = l.key
    BY <1>3 DEF HeEvents
<1>. HIDE DEF Ev
<1>6. \A kind \in HeKinds : kind \notin HeThree => Good(Ev(kind))
    BY <1>5
<1>7. \A kind : Monitor!Found(kind, l) = <<Ev(kind)>>
    BY DEF Monitor!Found, Ev
<1>8. ASSUME E = <<>>
      PROVE  /\ E \in Seq(HeEvents) /\ \A i \in 1 .. Len(E) : Good(E[i])
             /\ \A i, j \in 1 .. Len(E) : E[i].kind \in HeThree /\ E[j].kind \in HeThree => i = j
    <2>1. Len(E) = 0 /\ E \in Seq(HeEvents)
        BY <1>8
    <2>. QED BY <2>1
<1>9. ASSUME NEW a \in HeKinds, E = <<Ev(a)>>, Good(Ev(a))
      PROVE  /\ E \in Seq(HeEvents) /\ \A i \in 1 .. Len(E) : Good(E[i])
             /\ \A i, j \in 1 .. Len(E) : E[i].kind \in HeThree /\ E[j].kind \in HeThree => i = j
             /\ 1 \in 1 .. Len(E) /\ E[1].kind = a
    <2>. HIDE DEF E, Good
    <2>1. Len(E) = 1 /\ E[1] = Ev(a) /\ E \in Seq(HeEvents) /\ \A i \in 1 .. Len(E) : i = 1
        BY <1>5, <1>9
    <2>. QED BY <1>5, <1>9, <2>1
<1>10. ASSUME NEW a \in HeKinds \ HeThree, NEW b \in HeKinds, E = <<Ev(a), Ev(b)>>, Good(Ev(b))
       PROVE  /\ E \in Seq(HeEvents) /\ \A i \in 1 .. Len(E) : Good(E[i])
              /\ \A i, j \in 1 .. Len(E) : E[i].kind \in HeThree /\ E[j].kind \in HeThree => i = j
              /\ 2 \in 1 .. Len(E) /\ E[2].kind = b
    <2>0. Good(Ev(a))
        BY <1>6
    <2>. HIDE DEF E, Good
    <2>1. /\ Len(E) = 2 /\ E[1] = Ev(a) /\ E[2] = Ev(b) /\ E \in Seq(HeEvents)
          /\ \A i \in 1 .. Len(E) : i = 1 \/ i = 2
        BY <1>5, <1>10
    <2>. QED BY <1>5, <1>10, <2>0, <2>1
<1>11. HeThree = {"short", "repress", "phantom"} /\ HeThree \subseteq HeKinds /\ "presses" \in HeKinds \ HeThree
    BY DEF HeKinds, HeThree
<1>12. \A c \in BOOLEAN, a, b \in HeKinds :
           <<Ev(a)>> \o Monitor!If(c, <<Ev(b)>>) = IF c THEN <<Ev(a), Ev(b)>> ELSE <<Ev(a)>>
    <2>. SUFFICES ASSUME NEW c \in BOOLEAN, NEW a \in HeKinds, NEW b \in HeKinds
                  PROVE  <<Ev(a)>> \o Monitor!If(c, <<Ev(b)>>) = IF c THEN <<Ev(a), Ev(b)>> ELSE <<Ev(a)>>
        OBVIOUS
    <2>1. Ev(a) \in HeEvents /\ Ev(b) \in HeEvents
        BY <1>5
    <2>2. <<Ev(a)>> \o <<Ev(b)>> = <<Ev(a), Ev(b)>> /\ <<Ev(a)>> \o <<>> = <<Ev(a)>>
        BY <2>1, HePair
    <2>. QED BY <2>2 DEF Monitor!If
<1>13. /\ l.tag = "down" => HeLast("up", l.key, judge.up[l.key])
       /\ l.tag = "up" => HeLast("down", l.key, judge.down[l.key])
    BY <1>1, <1>3 DEF HeJudge
<1>14. CASE l.tag = "down"
    <2> DEFINE c == Monitor!Within(l.ms, judge.up[l.key], RepressMs)
    <2>1. c \in BOOLEAN
        BY DEF Monitor!Within
    <2>2. E = <<Ev("presses")>> \o Monitor!If(c, <<Ev("repress")>>)
        <3>1. E = Monitor!Found("presses", l) \o Monitor!If(c, Monitor!Found("repress", l))
            BY <1>14 DEF Monitor!Events
        <3>2. /\ Monitor!Found("presses", l) = <<Ev("presses")>>
              /\ Monitor!Found("repress", l) = <<Ev("repress")>>
            BY <1>7
        <3>. HIDE DEF E, c
        <3>. QED BY <3>1, <3>2, Zenon
    <2>3. c => Good(Ev("repress"))
        <3>. SUFFICES ASSUME c PROVE Good(Ev("repress"))
            OBVIOUS
        <3>1. HeAgo(strokes, l.of, RepressMs)
            BY <1>4, <1>13, <1>14, HeRemembers DEF l
        <3>2. strokes[l.of].down
            BY <1>1, <1>2, <1>14, HeLineStroke DEF l, HeReads, HeNext, HeFour
        <3>. QED BY <1>5, <1>11, <1>14, <3>1, <3>2 DEF HeShows, HeDeserves, HeFour
    <2>. HIDE DEF c, E, Good
    <2>4. E = IF c THEN <<Ev("presses"), Ev("repress")>> ELSE <<Ev("presses")>>
        BY <1>11, <1>12, <2>1, <2>2
    <2>5. CASE c
        BY <1>10, <1>11, <1>14, <2>3, <2>4, <2>5 DEF E, Good, l
    <2>6. CASE ~c
        BY <1>6, <1>9, <1>11, <1>14, <2>4, <2>6 DEF E, Good, l, c
    <2>. QED BY <2>5, <2>6
<1>15. CASE l.tag = "up"
    <2> DEFINE c == Monitor!Within(l.ms, judge.down[l.key], ShortMs)
    <2>1. c \in BOOLEAN
        BY DEF Monitor!Within
    <2>2. E = IF c THEN <<Ev("short")>> ELSE <<>>
        BY <1>7, <1>15 DEF Monitor!Events, Monitor!If
    <2>3. c => Good(Ev("short"))
        <3>. SUFFICES ASSUME c PROVE Good(Ev("short"))
            OBVIOUS
        <3>1. HeAgo(strokes, l.of, ShortMs)
            BY <1>4, <1>13, <1>15, HeRemembers DEF l
        <3>2. ~strokes[l.of].down
            BY <1>1, <1>2, <1>15, HeLineStroke DEF l, HeReads, HeNext, HeFour
        <3>. QED BY <1>5, <1>11, <1>15, <3>1, <3>2 DEF HeShows, HeDeserves, HeFour
    <2>. HIDE DEF c, E, Good
    <2>5. CASE c
        BY <1>9, <1>11, <1>15, <2>2, <2>3, <2>5 DEF E, Good, l
    <2>6. CASE ~c
        BY <1>8, <1>11, <1>15, <2>2, <2>6 DEF E, Good, l, c
    <2>. QED BY <2>5, <2>6
<1>16. CASE l.tag = "pre"
    <2> DEFINE c == judge.pending = l.key /\ l.v
    <2>2. E = IF c THEN <<Ev("phantom")>> ELSE <<>>
        BY <1>7, <1>16 DEF Monitor!Events, Monitor!If
    <2>3. c => Good(Ev("phantom"))
        <3>. SUFFICES ASSUME c PROVE Good(Ev("phantom"))
            OBVIOUS
        <3>1. strokes[l.of].down /\ l.v = strokes[l.of].jump
            BY <1>1, <1>2, <1>16, HeLineStroke DEF l, HeReads, HeNext, HeFour
        <3>. QED BY <1>5, <1>11, <1>16, <3>1 DEF HeShows, HeDeserves, HeFour
    <2>. HIDE DEF c, E, Good
    <2>5. CASE c
        BY <1>9, <1>11, <1>16, <2>2, <2>3, <2>5 DEF E, Good, l
    <2>6. CASE ~c
        BY <1>8, <1>11, <1>16, <2>2, <2>6 DEF E, Good, l, c
    <2>. QED BY <2>5, <2>6
<1>17. CASE l.tag = "tap"
    <2> DEFINE c == Monitor!Held(l) < ShortMs
    <2>1. c \in BOOLEAN
        OBVIOUS
    <2>2. E = <<Ev("presses")>> \o Monitor!If(c, <<Ev("short")>>)
        <3>1. E = Monitor!Found("presses", l) \o Monitor!If(c, Monitor!Found("short", l))
            BY <1>17 DEF Monitor!Events
        <3>2. /\ Monitor!Found("presses", l) = <<Ev("presses")>>
              /\ Monitor!Found("short", l) = <<Ev("short")>>
            BY <1>7
        <3>. HIDE DEF E, c
        <3>. QED BY <3>1, <3>2, Zenon
    <2>3. c => Good(Ev("short"))
        <3>. SUFFICES ASSUME c PROVE Good(Ev("short"))
            OBVIOUS
        <3>1. HeDeserves(strokes, "short", l.of)
            BY <1>17, HeTapHeld DEF l
        <3>. QED BY <1>5, <1>11, <1>17, <3>1 DEF HeShows, HeFour
    <2>. HIDE DEF c, E, Good
    <2>4. E = IF c THEN <<Ev("presses"), Ev("short")>> ELSE <<Ev("presses")>>
        BY <1>11, <1>12, <2>1, <2>2
    <2>5. CASE c
        BY <1>10, <1>11, <1>17, <2>3, <2>4, <2>5 DEF E, Good, l
    <2>6. CASE ~c
        BY <1>6, <1>9, <1>11, <1>17, <2>4, <2>6 DEF E, Good, l
    <2>. QED BY <2>5, <2>6
<1>18. CASE l.tag \in {"missed", "late", "stuck", "off"}
    <2>1. E = <<Ev(l.tag)>>
        BY <1>7, <1>18 DEF Monitor!Events
    <2>2. l.tag \in HeKinds /\ l.tag \notin HeThree
        BY <1>18 DEF HeKinds, HeThree
    <2>3. Good(Ev(l.tag))
        BY <1>6, <2>2
    <2>. HIDE DEF E, Good
    <2>. QED BY <1>9, <1>18, <2>1, <2>2, <2>3 DEF E, Good, l
<1>. QED BY <1>3, <1>14, <1>15, <1>16, <1>17, <1>18 DEF HeTags

\* A line read: what it shows is found once, what it says is remembered
LEMMA HeReadsOn == ASSUME HeIInv, Monitor!ReadsOn PROVE HeIInv'
<1> DEFINE l == HeNext
           E == Monitor!Events(judge, HeNext)
           D == Monitor!Findings
           F == files[followed]
           w == <<followed, HeNext>>
<1>1. /\ HeTyped /\ HeClock /\ HeAlternates /\ HeLogs(files, strokes, monHbounds.mx)
      /\ HeReader /\ HeSeen /\ HeJudge /\ HeOnce /\ HeTrue /\ HeFoundOut /\ HeNews
    BY DEF HeIInv
<1>2. /\ followed # 0 /\ pos < Len(F)
      /\ judge' = Monitor!Judged(judge, l) /\ news' = news \o E /\ seen' = seen \cup {w}
      /\ pos' = pos + 1 /\ len' = <<pos + 1>>
      /\ UNCHANGED <<ms, pressed, strokes, files, there, written, followed, he, cleared, start, monHbounds>>
    BY DEF Monitor!ReadsOn, HeNext
<1>3. /\ followed \in 1 .. Len(files) /\ F \in Seq(HeLines) /\ Len(F) \in Nat /\ pos \in Nat
      /\ pos + 1 \in 1 .. Len(F) /\ l = F[pos + 1] /\ l \in HeLines /\ Len(strokes) \in Nat
      /\ files \in Seq(Seq(HeLines)) /\ news \in Seq(HeEvents) /\ judge \in HeJudges
    <2>1. /\ followed \in 1 .. Len(files) /\ files \in Seq(Seq(HeLines)) /\ pos \in Nat /\ Len(strokes) \in Nat
          /\ news \in Seq(HeEvents) /\ judge \in HeJudges
        BY <1>1, <1>2 DEF HeTyped
    <2>2. F \in Seq(HeLines) /\ Len(F) \in Nat
        BY <2>1
    <2>3. pos + 1 \in 1 .. Len(F)
        BY <1>2, <2>1, <2>2
    <2>. QED BY <2>1, <2>2, <2>3 DEF HeNext
<1>4. HeReads
    BY <1>2, <1>3 DEF HeReads
<1>5. /\ l.key \in {1, 2} /\ l.ms \in HeTimes /\ l.tag \in HeTags /\ l.of \in Nat
      /\ l.of \in 1 .. (Len(strokes) + 1)
      /\ l.tag \in HeFour => l.of \in 1 .. Len(strokes)
      /\ l.tag = "pre" => pos >= 1 /\ F[pos].tag = "down" /\ F[pos].of = l.of
    <2>1. /\ HeLine(strokes, monHbounds.mx, l)
          /\ l.tag = "pre" => pos + 1 > 1 /\ F[(pos + 1) - 1].tag = "down" /\ F[(pos + 1) - 1].of = l.of
        BY <1>1, <1>3 DEF HeLogs
    <2>2. (pos + 1) - 1 = pos /\ (pos + 1 > 1 => pos >= 1)
        BY <1>3
    <2>3. l.key \in {1, 2} /\ l.ms \in HeTimes /\ l.tag \in HeTags /\ l.of \in Nat
        BY <1>3 DEF HeLines
    <2>. HIDE DEF l, F
    <2>. QED BY <1>3, <2>1, <2>2, <2>3 DEF HeLine
<1>6. /\ E \in Seq(HeEvents) /\ Len(E) \in Nat
      /\ \A i \in 1 .. Len(E) :
            /\ E[i].of = l.of /\ E[i].key = l.key
            /\ E[i].kind \in HeThree =>
                  l.tag \in HeFour /\ HeShows(l.tag, E[i].kind) /\ HeDeserves(strokes, E[i].kind, l.of)
      /\ \A i, j \in 1 .. Len(E) : E[i].kind \in HeThree /\ E[j].kind \in HeThree => i = j
      /\ l.tag = "down" /\ Monitor!Within(l.ms, judge.up[l.key], RepressMs) =>
            \E i \in 1 .. Len(E) : E[i].kind = "repress"
      /\ l.tag = "up" /\ Monitor!Within(l.ms, judge.down[l.key], ShortMs) =>
            \E i \in 1 .. Len(E) : E[i].kind = "short"
      /\ l.tag = "pre" /\ judge.pending = l.key /\ l.v =>
            \E i \in 1 .. Len(E) : E[i].kind = "phantom"
    <2>. HIDE DEF E
    <2>. QED BY <1>4, HeSays DEF E
<1>7. /\ followed # 0 /\ HeUnread(followed, pos)
      /\ \A g \in 1 .. Len(files) : g > followed => HeUnread(g, 0)
      /\ start # <<>>
    BY <1>1, <1>2 DEF HeReader
<1>. HIDE DEF l, E, D, F
\* It was not seen, and what it shows was not found
<1>8. l.tag \in HeFour => w \notin seen /\ \A e \in D : HeShows(l.tag, e.kind) => e.of # l.of
    <2>1. pos + 1 > pos
        BY <1>3
    <2>. QED BY <1>3, <1>7, <2>1 DEF HeUnread, HeRest, F, l, D
<1>9. /\ \A x : x \in D' <=> x \in D \/ (x.kind \in HeThree /\ \E i \in 1 .. Len(E) : x = E[i])
      /\ \A i \in 1 .. Len(E) : E[i].kind \in HeThree => E[i] \notin D
      /\ news' \in Seq(HeEvents) /\ Len(news') = Len(news) + Len(E) /\ Len(news) \in Nat
      /\ \A i \in 1 .. Len(news) : news'[i] = news[i]
      /\ \A i \in 1 .. Len(E) : news'[Len(news) + i] = E[i]
      /\ \A i \in 1 .. Len(news') : i \in 1 .. Len(news) \/
            \E j \in 1 .. Len(E) : i = Len(news) + j
    <2>1. /\ news' \in Seq(HeEvents) /\ Len(news') = Len(news) + Len(E) /\ Len(news) \in Nat
          /\ \A i \in 1 .. (Len(news) + Len(E)) :
                 news'[i] = IF i <= Len(news) THEN news[i] ELSE E[i - Len(news)]
        <3>1. news \in Seq(HeEvents) /\ E \in Seq(HeEvents) /\ Len(news) \in Nat
            BY <1>3, <1>6
        <3>2. /\ news \o E \in Seq(HeEvents) /\ Len(news \o E) = Len(news) + Len(E)
              /\ \A i \in 1 .. Len(news) + Len(E) :
                     (news \o E)[i] = IF i <= Len(news) THEN news[i] ELSE E[i - Len(news)]
            BY <3>1, ConcatProperties
        <3>. QED BY <1>2, <3>1, <3>2
    <2>2. \A i \in 1 .. Len(news) : news'[i] = news[i]
        BY <1>6, <2>1
    <2>3. \A i \in 1 .. Len(E) : news'[Len(news) + i] = E[i]
        <3>1. \A i \in 1 .. Len(E) : /\ Len(news) + i \in 1 .. (Len(news) + Len(E))
                                     /\ ~(Len(news) + i <= Len(news)) /\ (Len(news) + i) - Len(news) = i
            BY <1>6, <2>1
        <3>. QED BY <2>1, <3>1
    <2>4. ASSUME NEW i \in 1 .. Len(news') PROVE i \in 1 .. Len(news) \/ \E j \in 1 .. Len(E) : i = Len(news) + j
        <3>1. CASE i <= Len(news)
            BY <2>1, <3>1
        <3>2. CASE ~(i <= Len(news))
            <4>1. i - Len(news) \in 1 .. Len(E) /\ i = Len(news) + (i - Len(news))
                BY <1>6, <2>1, <3>2
            <4>. QED BY <4>1
        <3>. QED BY <3>1, <3>2
    <2>5. ASSUME NEW x
          PROVE  (\E i \in DOMAIN news' : x = news'[i]) <=>
                    (\E i \in DOMAIN news : x = news[i]) \/ \E i \in 1 .. Len(E) : x = E[i]
        <3>1. DOMAIN news' = 1 .. Len(news') /\ DOMAIN news = 1 .. Len(news)
            BY <1>3, <2>1
        <3>2. /\ \A i \in 1 .. Len(news) : i \in 1 .. Len(news')
              /\ \A i \in 1 .. Len(E) : Len(news) + i \in 1 .. Len(news')
            BY <1>6, <2>1
        <3>3. ASSUME NEW i \in 1 .. Len(news'), x = news'[i]
              PROVE  (\E m \in 1 .. Len(news) : x = news[m]) \/ \E m \in 1 .. Len(E) : x = E[m]
            <4>1. CASE i \in 1 .. Len(news)
                BY <2>2, <3>3, <4>1
            <4>2. ASSUME NEW j \in 1 .. Len(E), i = Len(news) + j PROVE x = E[j]
                BY <2>3, <3>3, <4>2
            <4>. QED BY <2>4, <4>1, <4>2
        <3>4. ASSUME NEW i \in 1 .. Len(news), x = news[i] PROVE \E m \in 1 .. Len(news') : x = news'[m]
            BY <2>2, <3>2, <3>4
        <3>5. ASSUME NEW i \in 1 .. Len(E), x = E[i] PROVE \E m \in 1 .. Len(news') : x = news'[m]
            BY <2>3, <3>2, <3>5
        <3>. QED BY <3>1, <3>3, <3>4, <3>5
    <2>6. ASSUME NEW x PROVE x \in D' <=> x \in D \/ (x.kind \in HeThree /\ \E i \in 1 .. Len(E) : x = E[i])
        <3>1. x \in D' <=>
                 /\ x.kind \in HeThree
                 /\ \/ x \in cleared'
                    \/ \E i \in DOMAIN he'.log : x = he'.log[i]
                    \/ \E i \in DOMAIN news' : x = news'[i]
            BY DEF D, Monitor!Findings, Monitor!Members, HeThree
        <3>2. x \in D <=>
                 /\ x.kind \in HeThree
                 /\ \/ x \in cleared
                    \/ \E i \in DOMAIN he.log : x = he.log[i]
                    \/ \E i \in DOMAIN news : x = news[i]
            BY HeFindings DEF D
        <3>3. cleared' = cleared /\ he' = he
            BY <1>2
        <3>. QED BY <2>5, <3>1, <3>2, <3>3
    <2>7. \A i \in 1 .. Len(E) : E[i].kind \in HeThree => E[i] \notin D
        BY <1>6, <1>8
    <2>. QED BY <2>1, <2>2, <2>3, <2>4, <2>6, <2>7
\* No other line shows the same
<1>10. ASSUME NEW g \in 1 .. Len(files), NEW i \in 1 .. Len(files[g]), files[g][i].tag \in HeFour,
              g # followed \/ i # pos + 1
       PROVE  /\ <<g, files[g][i]>> # w
              /\ \A j \in 1 .. Len(E) : E[j].kind \in HeThree /\ HeShows(files[g][i].tag, E[j].kind)
                    => E[j].of # files[g][i].of
    <2>1. ASSUME <<g, files[g][i]>> = w PROVE FALSE
        <3>1. g = followed /\ files[g][i] = F[pos + 1]
            BY <1>3, <2>1 DEF l
        <3>2. files[g][i].tag = F[pos + 1].tag /\ files[g][i].of = F[pos + 1].of
            BY <3>1
        <3>. QED BY <1>1, <1>3, <1>10, <3>1, <3>2, HePlaceOf DEF F
    <2>2. ASSUME NEW j \in 1 .. Len(E), E[j].kind \in HeThree, HeShows(files[g][i].tag, E[j].kind),
                 E[j].of = files[g][i].of
          PROVE  FALSE
        <3>1. HeShows(F[pos + 1].tag, E[j].kind) /\ F[pos + 1].of = files[g][i].of
            BY <1>3, <1>6, <2>2
        <3>. QED BY <1>1, <1>3, <1>10, <2>2, <3>1 DEF HeLogs, F
    <2>. QED BY <2>1, <2>2
<1>11. ASSUME NEW g \in 1 .. Len(files), NEW a \in Nat, HeUnread(g, a), g # followed \/ a >= pos + 1
       PROVE  HeRest(files, D', seen', g, a)
    <2>. SUFFICES ASSUME NEW i \in 1 .. Len(files[g]), i > a, files[g][i].tag \in HeFour
                  PROVE  /\ <<g, files[g][i]>> \notin seen'
                         /\ \A e \in D' : HeShows(files[g][i].tag, e.kind) => e.of # files[g][i].of
        BY DEF HeRest
    <2>1. g # followed \/ i # pos + 1
        BY <1>3, <1>11
    <2>2. /\ <<g, files[g][i]>> \notin seen
          /\ \A e \in D : HeShows(files[g][i].tag, e.kind) => e.of # files[g][i].of
        BY <1>11 DEF HeUnread, HeRest, D
    <2>3. <<g, files[g][i]>> \notin seen'
        BY <1>2, <1>10, <2>1, <2>2
    <2>4. ASSUME NEW e \in D', HeShows(files[g][i].tag, e.kind) PROVE e.of # files[g][i].of
        <3>1. CASE e \in D
            BY <2>2, <2>4, <3>1
        <3>2. ASSUME e.kind \in HeThree, NEW j \in 1 .. Len(E), e = E[j] PROVE e.of # files[g][i].of
            BY <1>10, <2>1, <2>4, <3>2
        <3>. QED BY <1>9, <2>4, <3>1, <3>2
    <2>. QED BY <2>3, <2>4
<1>12. HeUnread(followed, pos + 1)
    <2>1. \A i \in 1 .. Len(files[followed]) : i > pos + 1 => i > pos
        BY <1>3
    <2>. QED BY <1>7, <2>1 DEF HeUnread, HeRest
<1>13. HeReader'
    <2>1. HeRest(files, D', seen', followed, pos + 1)
        BY <1>3, <1>11, <1>12
    <2>2. HeUnread(followed, pos)'
        BY <1>2, <2>1 DEF HeUnread, D
    <2>3. ASSUME NEW g \in 1 .. Len(files), g > followed PROVE HeUnread(g, 0)'
        <3>1. HeRest(files, D', seen', g, 0)
            BY <1>3, <1>7, <1>11, <2>3
        <3>. QED BY <1>2, <3>1 DEF HeUnread, D
    <2>4. ~(pos' > Len(files'[followed']))
        BY <1>2, <1>3 DEF F
    <2>5. len' # <<None>> /\ ~(len'[1] < pos') /\ pos' # 0 /\ followed' # 0 /\ start' # <<>>
        <3>1. pos + 1 # None /\ ~(pos + 1 < pos + 1) /\ pos + 1 # 0
            BY <1>3, HeConstants
        <3>. QED BY <1>2, <1>7, <3>1
    <2>. QED BY <1>2, <2>2, <2>3, <2>4, <2>5 DEF HeReader
<1>14. HeSeen'
    <2>1. ASSUME NEW s \in seen' PROVE s[1] \in 1 .. Len(files) /\ \E i \in 1 .. Len(files[s[1]]) : s[2] = files[s[1]][i]
        <3>1. CASE s \in seen
            BY <1>1, <3>1 DEF HeSeen
        <3>2. CASE s = w
            <4>1. s[1] = followed /\ s[2] = F[pos + 1]
                BY <1>3, <3>2 DEF l
            <4>. QED BY <1>3, <4>1 DEF F
        <3>. QED BY <1>2, <2>1, <3>1, <3>2
    <2>2. ASSUME NEW i \in 1 .. Len(F), i > HeBound, i <= pos + 1 PROVE <<followed, F[i]>> \in seen'
        <3>1. CASE i = pos + 1
            BY <1>2, <1>3, <3>1 DEF l
        <3>2. CASE i # pos + 1
            <4>1. i <= pos
                BY <1>3, <2>2, <3>2
            <4>. QED BY <1>1, <1>2, <2>2, <4>1 DEF HeSeen, F
        <3>. QED BY <3>1, <3>2
    <2>3. HeBound' = HeBound
        BY <1>2 DEF HeBound
    <2>. QED BY <1>2, <2>1, <2>2, <2>3 DEF HeSeen, F
<1>15. HeJudge' /\ judge' \in HeJudges
    <2>0. judge = [down |-> judge.down, up |-> judge.up, pending |-> judge.pending]
          /\ judge.down \in [{1, 2} -> HeTimes \cup {None}] /\ judge.up \in [{1, 2} -> HeTimes \cup {None}]
          /\ judge.pending \in {1, 2, None}
        BY <1>3 DEF HeJudges
    <2>1. /\ judge'.down = IF l.tag = "down" THEN [judge.down EXCEPT ![l.key] = l.ms] ELSE judge.down
          /\ judge'.up = IF l.tag = "up" THEN [judge.up EXCEPT ![l.key] = l.ms] ELSE judge.up
          /\ l.tag = "down" => judge'.pending = l.key
          /\ judge' \in HeJudges
        <3>1. CASE l.tag = "down"
            <4>1. judge' = [judge EXCEPT !.down[l.key] = l.ms, !.pending = l.key]
                BY <1>2, <3>1 DEF Monitor!Judged
            <4>2. judge' = [down |-> [judge.down EXCEPT ![l.key] = l.ms], up |-> judge.up, pending |-> l.key]
                BY <2>0, <4>1
            <4>. QED BY <1>5, <2>0, <3>1, <4>2 DEF HeJudges
        <3>2. CASE l.tag = "up"
            <4>1. judge' = [judge EXCEPT !.up[l.key] = l.ms]
                BY <1>2, <3>2 DEF Monitor!Judged
            <4>2. judge' = [down |-> judge.down, up |-> [judge.up EXCEPT ![l.key] = l.ms], pending |-> judge.pending]
                BY <2>0, <4>1
            <4>. QED BY <1>5, <2>0, <3>2, <4>2 DEF HeJudges
        <3>3. CASE l.tag = "pre"
            <4>1. judge' = [judge EXCEPT !.pending = None]
                BY <1>2, <3>3 DEF Monitor!Judged
            <4>2. judge' = [down |-> judge.down, up |-> judge.up, pending |-> None]
                BY <2>0, <4>1
            <4>. QED BY <2>0, <3>3, <4>2 DEF HeJudges
        <3>4. CASE l.tag \notin {"down", "up", "pre"}
            <4>1. judge' = judge
                BY <1>2, <3>4 DEF Monitor!Judged
            <4>. QED BY <1>3, <3>4, <4>1
        <3>. QED BY <3>1, <3>2, <3>3, <3>4
    <2>2. ASSUME NEW t \in {"down", "up"}, NEW k \in {1, 2}, NEW u, NEW v, HeLast(t, k, u),
                 v = IF l.tag = t /\ l.key = k THEN l.ms ELSE u
          PROVE  HeLast(t, k, v)'
        <3>1. CASE l.tag = t /\ l.key = k
            <4>1. w \in HeOf(t, k)' /\ w[2] = l /\ v = w[2].ms
                BY <1>2, <2>2, <3>1 DEF HeOf, l
            <4>2. ASSUME NEW r \in HeOf(t, k)' PROVE r[2].of <= l.of
                <5>1. r \in seen' /\ r[1] = followed /\ r[2].tag = t
                    BY <1>2 DEF HeOf
                <5>2. CASE r = w
                    BY <1>5, <5>2 DEF l
                <5>3. CASE r \in seen
                    BY <1>4, <5>1, <5>3, HeAfterSeen DEF HeFour, l
                <5>. QED BY <1>2, <5>1, <5>2, <5>3
            <4>. QED BY <4>1, <4>2 DEF HeLast
        <3>2. CASE ~(l.tag = t /\ l.key = k)
            <4>1. HeOf(t, k)' = HeOf(t, k)
                BY <1>2, <3>2 DEF HeOf, l
            <4>2. v = u
                BY <2>2, <3>2
            <4>. QED BY <2>2, <4>1, <4>2 DEF HeLast
        <3>. QED BY <3>1, <3>2
    <2>3. ASSUME NEW k \in {1, 2}
          PROVE  HeLast("down", k, judge.down[k])' /\ HeLast("up", k, judge.up[k])'
        <3>1. HeLast("down", k, judge.down[k]) /\ HeLast("up", k, judge.up[k])
            BY <1>1, <1>2 DEF HeJudge
        <3>2. PICK a, b, c, d : a = judge.down[k] /\ b = judge'.down[k] /\ c = judge.up[k] /\ d = judge'.up[k]
            OBVIOUS
        <3>3. /\ b = IF l.tag = "down" /\ l.key = k THEN l.ms ELSE a
              /\ d = IF l.tag = "up" /\ l.key = k THEN l.ms ELSE c
            BY <1>5, <2>0, <2>1, <3>2
        <3>4. HeLast("down", k, a) /\ HeLast("up", k, c)
            BY <3>1, <3>2
        <3>5. HeLast("down", k, b)' /\ HeLast("up", k, d)'
            BY <2>2, <3>3, <3>4
        <3>. QED BY <3>2, <3>5
    <2>4. ASSUME pos + 1 \in 1 .. Len(F), F[pos + 1].tag = "down" PROVE judge'.pending = F[pos + 1].key
        BY <1>3, <2>1, <2>4
    <2>. QED BY <1>2, <2>1, <2>3, <2>4 DEF HeJudge, F
<1>16. HeOnce'
    <2>1. \A i \in 1 .. Len(E) : E[i].kind \in HeThree =>
              /\ E[i] \notin cleared
              /\ \A m \in 1 .. Len(he.log) : E[i] # he.log[m]
              /\ \A m \in 1 .. Len(news) : E[i] # news[m]
        <3>1. DOMAIN he.log = 1 .. Len(he.log) /\ DOMAIN news = 1 .. Len(news)
            BY <1>1 DEF HeTyped
        <3>. QED BY <1>9, <3>1, HeFindings DEF D
    <2>2. /\ \A i, j \in 1 .. Len(news) : news[i].kind \in HeThree /\ news[i] = news[j] => i = j
          /\ \A i \in 1 .. Len(he.log), j \in 1 .. Len(news) : he.log[i].kind \in HeThree => he.log[i] # news[j]
          /\ \A c \in cleared : c.kind \in HeThree => \A i \in 1 .. Len(news) : news[i] # c
        BY <1>1 DEF HeOnce
    <2>3. ASSUME NEW i \in 1 .. Len(news'), NEW j \in 1 .. Len(news'),
                 news'[i].kind \in HeThree, news'[i] = news'[j]
          PROVE  i = j
        <3>1. CASE i \in 1 .. Len(news) /\ j \in 1 .. Len(news)
            BY <1>9, <2>2, <2>3, <3>1
        <3>2. ASSUME i \in 1 .. Len(news), NEW m \in 1 .. Len(E), j = Len(news) + m PROVE FALSE
            <4>1. E[m].kind \in HeThree /\ E[m] = news[i]
                BY <1>9, <2>3, <3>2
            <4>. QED BY <2>1, <3>2, <4>1
        <3>3. ASSUME j \in 1 .. Len(news), NEW m \in 1 .. Len(E), i = Len(news) + m PROVE FALSE
            <4>1. E[m].kind \in HeThree /\ E[m] = news[j]
                BY <1>9, <2>3, <3>3
            <4>. QED BY <2>1, <3>3, <4>1
        <3>4. ASSUME NEW m \in 1 .. Len(E), i = Len(news) + m, NEW o \in 1 .. Len(E), j = Len(news) + o
              PROVE  i = j
            <4>1. E[m].kind \in HeThree /\ E[o].kind \in HeThree
                BY <1>9, <2>3, <3>4
            <4>. QED BY <1>6, <3>4, <4>1
        <3>. QED BY <1>9, <3>1, <3>2, <3>3, <3>4
    <2>4. ASSUME NEW i \in 1 .. Len(he.log), NEW j \in 1 .. Len(news'), he.log[i].kind \in HeThree
          PROVE  he.log[i] # news'[j]
        <3>1. CASE j \in 1 .. Len(news)
            BY <1>9, <2>2, <2>4, <3>1
        <3>2. ASSUME NEW m \in 1 .. Len(E), j = Len(news) + m PROVE he.log[i] # news'[j]
            BY <1>9, <2>1, <2>4, <3>2
        <3>. QED BY <1>9, <3>1, <3>2
    <2>5. ASSUME NEW c \in cleared, c.kind \in HeThree, NEW i \in 1 .. Len(news') PROVE news'[i] # c
        <3>1. CASE i \in 1 .. Len(news)
            BY <1>9, <2>2, <2>5, <3>1
        <3>2. ASSUME NEW m \in 1 .. Len(E), i = Len(news) + m PROVE news'[i] # c
            BY <1>9, <2>1, <2>5, <3>2
        <3>. QED BY <1>9, <3>1, <3>2
    <2>6. /\ \A i, j \in 1 .. Len(he.log) : he.log[i].kind \in HeThree /\ he.log[i] = he.log[j] => i = j
          /\ \A c \in cleared : c.kind \in HeThree => \A i \in 1 .. Len(he.log) : he.log[i] # c
          /\ he' = he /\ cleared' = cleared
        BY <1>1, <1>2 DEF HeOnce
    <2>. QED BY <2>3, <2>4, <2>5, <2>6 DEF HeOnce
<1>17. HeTrue'
    <2>. SUFFICES ASSUME NEW e \in D' PROVE e.of \in 1 .. Len(strokes) /\ HeDeserves(strokes, e.kind, e.of)
        BY <1>2 DEF HeTrue, D
    <2>1. CASE e \in D
        BY <1>1, <2>1 DEF HeTrue, D
    <2>2. ASSUME e.kind \in HeThree, NEW i \in 1 .. Len(E), e = E[i]
          PROVE  e.of \in 1 .. Len(strokes) /\ HeDeserves(strokes, e.kind, e.of)
        <3>1. /\ e.of = l.of /\ l.tag \in HeFour /\ HeDeserves(strokes, e.kind, l.of)
            BY <1>6, <2>2
        <3>. QED BY <1>5, <3>1
    <2>. QED BY <1>9, <2>1, <2>2
<1>18. HeFoundOut'
    <2>. SUFFICES ASSUME NEW s \in seen', NEW r \in seen', NEW kind \in HeThree,
                         s[1] = r[1], r[2].tag \in {"up", "down"}, s[2].tag = Monitor!ShownBy(kind),
                         r[2].of \in HeJudgedBy(strokes, kind, s[2].of), HeDeserves(strokes, kind, s[2].of)
                  PROVE  [kind |-> kind, key |-> s[2].key, of |-> s[2].of] \in D'
        BY <1>2 DEF HeFoundOut, D
    <2>0. /\ s \in seen \/ s = w
          /\ r \in seen \/ r = w
          /\ w[1] = followed /\ w[2] = l
        BY <1>2 DEF l
    <2>1. /\ \/ kind = "short" /\ s[2].tag = "up"
             \/ kind = "repress" /\ s[2].tag = "down"
             \/ kind = "phantom" /\ s[2].tag = "pre"
          /\ s[2].tag \in HeFour /\ r[2].tag \in HeFour
        BY DEF HeThree, Monitor!ShownBy, HeFour
    <2>2. CASE s \in seen /\ r \in seen
        BY <1>1, <1>9, <2>2 DEF HeFoundOut, D
    <2>3. CASE s = w /\ r \in seen
        <3>1. r[1] = followed /\ s[2] = l
            BY <2>0, <2>3
        <3>2. CASE kind = "short"
            <4>1. l.tag = "up" /\ r[2].of \in HeBefore(strokes, l.of) /\ HeAgo(strokes, l.of, ShortMs)
                BY <2>1, <3>1, <3>2 DEF HeJudgedBy, HeDeserves
            <4>2. HeLast("down", l.key, judge.down[l.key])
                BY <1>1, <1>2, <1>5 DEF HeJudge
            <4>3. Monitor!Within(l.ms, judge.down[l.key], ShortMs)
                BY <1>4, <2>3, <3>1, <4>1, <4>2, HeRemembers, HeConstants DEF l
            <4>4. PICK i \in 1 .. Len(E) : E[i].kind = "short"
                BY <1>6, <4>1, <4>3
            <4>5. E[i] \in HeEvents /\ E[i].of = l.of /\ E[i].key = l.key
                BY <1>6
            <4>6. E[i] = [kind |-> kind, key |-> s[2].key, of |-> s[2].of]
                BY <3>1, <3>2, <4>4, <4>5 DEF HeEvents
            <4>. QED BY <1>9, <4>4, <4>6
        <3>3. CASE kind = "repress"
            <4>1. l.tag = "down" /\ r[2].of \in HeBefore(strokes, l.of) /\ HeAgo(strokes, l.of, RepressMs)
                BY <2>1, <3>1, <3>3 DEF HeJudgedBy, HeDeserves
            <4>2. HeLast("up", l.key, judge.up[l.key])
                BY <1>1, <1>2, <1>5 DEF HeJudge
            <4>3. Monitor!Within(l.ms, judge.up[l.key], RepressMs)
                BY <1>4, <2>3, <3>1, <4>1, <4>2, HeRemembers, HeConstants DEF l
            <4>4. PICK i \in 1 .. Len(E) : E[i].kind = "repress"
                BY <1>6, <4>1, <4>3
            <4>5. E[i] \in HeEvents /\ E[i].of = l.of /\ E[i].key = l.key
                BY <1>6
            <4>6. E[i] = [kind |-> kind, key |-> s[2].key, of |-> s[2].of]
                BY <3>1, <3>3, <4>4, <4>5 DEF HeEvents
            <4>. QED BY <1>9, <4>4, <4>6
        <3>4. CASE kind = "phantom"
            <4>1. l.tag = "pre" /\ r[2].of = l.of /\ strokes[l.of].down /\ strokes[l.of].jump
                BY <2>1, <3>1, <3>4 DEF HeJudgedBy, HeDeserves
            <4>2. pos >= 1 /\ F[pos].tag = "down" /\ F[pos].of = l.of /\ pos \in 1 .. Len(F)
                BY <1>3, <1>5, <4>1
            <4>3. r[2].tag = "down"
                <5>1. strokes[r[2].of].down <=> r[2].tag \in {"down", "pre"}
                    BY <1>4, <2>1, <2>3, <3>1, HeAfterSeen
                <5>. QED BY <4>1, <5>1
            <4>4. PICK i \in 1 .. Len(F) : r[2] = F[i] /\ r = <<followed, r[2]>>
                BY <1>1, <1>2, <2>1, <2>3, <3>1, HeSeenPlace DEF F
            <4>5. i = pos
                <5>1. files[followed][pos].tag \in HeFour /\ files[followed][i].tag = files[followed][pos].tag
                      /\ files[followed][i].of = files[followed][pos].of
                    BY <4>1, <4>2, <4>3, <4>4 DEF F, HeFour
                <5>. QED BY <1>1, <1>3, <4>2, <5>1, HePlaceOf DEF F
            <4>6. judge.pending = F[pos].key
                BY <1>1, <1>2, <2>3, <4>2, <4>4, <4>5 DEF HeJudge, F
            <4>7. F[pos].key = l.key /\ l.v = strokes[l.of].jump
                <5>1. strokes[F[pos].of].key = F[pos].key
                    BY <1>1, <1>3, <4>2, HeLineStroke DEF F, HeFour
                <5>2. strokes[l.of].key = l.key /\ l.v = strokes[l.of].jump
                    BY <1>1, <1>3, <4>1, HeLineStroke DEF F, HeFour
                <5>. QED BY <4>2, <5>1, <5>2
            <4>8. PICK j \in 1 .. Len(E) : E[j].kind = "phantom"
                BY <1>6, <4>1, <4>6, <4>7
            <4>9. E[j] \in HeEvents /\ E[j].of = l.of /\ E[j].key = l.key
                BY <1>6
            <4>10. E[j] = [kind |-> kind, key |-> s[2].key, of |-> s[2].of]
                BY <3>1, <3>4, <4>8, <4>9 DEF HeEvents
            <4>. QED BY <1>9, <4>8, <4>10
        <3>. QED BY <2>1, <3>2, <3>3, <3>4
    <2>4. CASE s \in seen /\ r = w
        <3>1. s[1] = followed /\ r[2] = l
            BY <2>0, <2>4
        <3>2. /\ s[2].of \in Nat /\ s[2].of <= l.of
              /\ strokes[s[2].of].down <=> s[2].tag \in {"down", "pre"}
            BY <1>4, <2>1, <2>4, <3>1, HeAfterSeen DEF l
        <3>3. kind = "phantom"
            <4>1. kind # "phantom" => l.of < s[2].of
                BY <3>1, <3>2 DEF HeJudgedBy, HeBefore
            <4>. QED BY <1>5, <3>2, <4>1
        <3>4. l.of = s[2].of /\ s[2].tag = "pre" /\ l.tag = "down"
            <4>1. l.of = s[2].of /\ s[2].tag = "pre"
                BY <2>1, <3>1, <3>3 DEF HeJudgedBy
            <4>2. l.tag \in {"up", "down"}
                BY <3>1
            <4>3. strokes[l.of].down <=> l.tag \in {"down", "pre"}
                BY <1>1, <1>3, <4>2, HeLineStroke DEF F, HeFour
            <4>. QED BY <3>2, <4>1, <4>2, <4>3
        <3>5. PICK i \in 1 .. Len(F) : s[2] = F[i] /\ i <= pos
            BY <1>1, <1>2, <2>1, <2>4, <3>1, HeSeenPlace DEF F
        <3>6. i > 1 /\ F[i - 1].tag = "down" /\ F[i - 1].of = l.of
            BY <1>1, <1>3, <3>4, <3>5 DEF HeLogs, F
        <3>7. i - 1 \in 1 .. Len(F) /\ i - 1 # pos + 1
            BY <1>3, <3>5, <3>6
        <3>8. i - 1 = pos + 1
            <4>1. files[followed][pos + 1].tag \in HeFour /\ files[followed][i - 1].tag = files[followed][pos + 1].tag
                  /\ files[followed][i - 1].of = files[followed][pos + 1].of
                BY <1>3, <3>4, <3>6 DEF F, HeFour
            <4>. QED BY <1>1, <1>3, <3>7, <4>1, HePlaceOf DEF F
        <3>. QED BY <3>7, <3>8
    <2>5. CASE s = w /\ r = w
        <3>1. s[2] = l /\ r[2] = l
            BY <2>0, <2>5
        <3>2. kind = "phantom"
            <4>1. kind # "phantom" => l.of < l.of
                BY <1>5, <3>1 DEF HeJudgedBy, HeBefore
            <4>. QED BY <1>5, <4>1
        <3>. QED BY <2>1, <3>1, <3>2
    <2>. QED BY <2>0, <2>2, <2>3, <2>4, <2>5
<1>19. HeNews'
    <2>. SUFFICES ASSUME NEW i \in 1 .. Len(news') PROVE news'[i].of \in 1 .. (Len(strokes) + 1)
        BY <1>2 DEF HeNews
    <2>1. CASE i \in 1 .. Len(news)
        BY <1>1, <1>9, <2>1 DEF HeNews
    <2>2. ASSUME NEW j \in 1 .. Len(E), i = Len(news) + j PROVE news'[i].of \in 1 .. (Len(strokes) + 1)
        BY <1>5, <1>6, <1>9, <2>2
    <2>. QED BY <1>9, <2>1, <2>2
<1>20. HeTyped'
    <2>1. seen' \subseteq Nat \X HeLines
        <3>1. w \in Nat \X HeLines
            BY <1>3 DEF l
        <3>. QED BY <1>1, <1>2, <3>1 DEF HeTyped
    <2>2. pos' \in Nat /\ \E n \in Nat \cup {None} : len' = <<n>>
        BY <1>2, <1>3
    <2>. QED BY <1>1, <1>2, <1>9, <1>15, <2>1, <2>2 DEF HeTyped
<1>21. HeClock' /\ HeAlternates' /\ HeLogs(files, strokes, monHbounds.mx)'
    BY <1>1, <1>2 DEF HeClock, HeAge, HeAlternates
<1>. QED BY <1>13, <1>14, <1>15, <1>16, <1>17, <1>18, <1>19, <1>20, <1>21 DEF HeIInv

-----------------------------------------------------------------------------

LEMMA MonitorInitial == ASSUME Monitor!MonitorInit PROVE HeIInv
<1>1. /\ ms \in {0, Wrap - 1} /\ pressed = [k \in {1, 2} |-> FALSE] /\ strokes = <<>>
      /\ files = << <<>> >> /\ there = TRUE /\ written = 0
      /\ followed = 0 /\ pos = 0 /\ len = <<>> /\ judge = Monitor!NewJudge
      /\ news = <<>> /\ he = Monitor!NoFindings /\ cleared = {} /\ seen = {} /\ start = <<>>
      /\ monHbounds \in MonitorBudgets
    BY DEF Monitor!MonitorInit, Monitor!Keys2
<1>2. HeTyped
    <2>1. ms \in HeTimes
        BY <1>1, HeConstants DEF HeTimes
    <2>2. files \in Seq(Seq(HeLines)) /\ Len(files) = 1 /\ Len(files[1]) = 0
        <3>1. <<>> \in Seq(HeLines)
            OBVIOUS
        <3>. QED BY <1>1, <3>1
    <2>3. judge \in HeJudges
        BY <1>1 DEF Monitor!NewJudge, Monitor!Keys2, HeJudges
    <2>4. he = [counts |-> he.counts, off |-> he.off, log |-> he.log] /\ he.log \in Seq(HeEvents)
        <3>1. he.log = <<>>
            BY <1>1 DEF Monitor!NoFindings
        <3>. QED BY <1>1, <3>1 DEF Monitor!NoFindings
    <2>5. strokes \in Seq(HeStrokes) /\ news \in Seq(HeEvents) /\ cleared \subseteq HeEvents
          /\ seen \subseteq Nat \X HeLines /\ pressed \in [{1, 2} -> BOOLEAN]
        BY <1>1
    <2>6. written = Len(files[Len(files)]) /\ written <= MaxLines + 1 /\ followed \in 0 .. Len(files) /\ pos \in Nat
        BY <1>1, <2>2, HeConstants
    <2>. QED BY <1>1, <2>1, <2>2, <2>3, <2>4, <2>5, <2>6, HeConstants DEF HeTyped
<1>3. Len(strokes) = 0 /\ Len(news) = 0 /\ Len(he.log) = 0 /\ Len(files) = 1 /\ Len(files[1]) = 0
    BY <1>1 DEF Monitor!NoFindings
<1>4. HeClock
    BY <1>3 DEF HeClock
<1>5. HeAlternates
    BY <1>1, <1>3 DEF HeAlternates, HeHeld
<1>6. HeLogs(files, strokes, monHbounds.mx)
    <2>1. \A g \in 1 .. Len(files) : \A i \in 1 .. Len(files[g]) : FALSE
        BY <1>3
    <2>. QED BY <2>1 DEF HeLogs
<1>7. HeReader /\ HeSeen /\ HeJudge
    BY <1>1 DEF HeReader, HeSeen, HeJudge
<1>8. \A i \in 1 .. 0 : FALSE
    OBVIOUS
<1>9. HeOnce /\ HeNews
    BY <1>1, <1>3, <1>8 DEF HeOnce, HeNews
<1>10. \A e \in Monitor!Findings : FALSE
    <2>1. DOMAIN news = {} /\ DOMAIN he.log = {} /\ cleared = {}
        BY <1>1 DEF Monitor!NoFindings
    <2>. QED BY <2>1, HeFindings
<1>11. HeTrue /\ HeFoundOut
    BY <1>1, <1>10 DEF HeTrue, HeFoundOut
<1>. QED BY <1>2, <1>4, <1>5, <1>6, <1>7, <1>9, <1>11 DEF HeIInv

LEMMA MonitorStep == ASSUME HeIInv, [Monitor!MonitorNext]_hevars PROVE HeIInv'
<1>1. CASE UNCHANGED hevars
    <2>1. HeTyped' /\ HeClock' /\ HeAlternates' /\ HeLogs(files, strokes, monHbounds.mx)'
        BY <1>1 DEF HeIInv, hevars, HeTyped, HeClock, HeAge, HeAlternates
    <2>2. Monitor!Findings' = Monitor!Findings /\ HeOnce'
        BY <1>1, HeFindingsKept DEF HeIInv, hevars
    <2>3. HeReader' /\ HeSeen' /\ HeJudge'
        BY <1>1, <2>2 DEF HeIInv, hevars, HeReader, HeUnread, HeSeen, HeBound, HeJudge, HeLast, HeOf
    <2>4. HeTrue' /\ HeFoundOut' /\ HeNews'
        BY <1>1, <2>2 DEF HeIInv, hevars, HeTrue, HeFoundOut, HeNews
    <2>. QED BY <2>1, <2>2, <2>3, <2>4 DEF HeIInv
<1>2. ASSUME NEW k \in Monitor!Keys2, NEW jump \in BOOLEAN, NEW lost \in BOOLEAN, Monitor!Edge(k, jump, lost)
      PROVE  HeIInv'
    BY <1>2, HeEdge
<1>3. ASSUME NEW k \in Monitor!Keys2, NEW tag \in {"missed", "late", "stuck", "off"}, Monitor!MxReports(tag, k)
      PROVE  HeIInv'
    BY <1>3, HeMxReports
<1>4. CASE Monitor!TimePasses
    BY <1>4, HeTimePasses
<1>5. CASE Monitor!MovesAside
    BY <1>5, HeMovesAside
<1>6. CASE Monitor!Creates
    BY <1>6, HeCreates
<1>7. CASE Monitor!Looks
    BY <1>7, HeLooks
<1>8. CASE Monitor!Gone
    BY <1>8, HeGone
<1>9. CASE Monitor!Reopens
    BY <1>9, HeReopens
<1>10. CASE Monitor!Shrank
    BY <1>10, HeShrank
<1>11. CASE Monitor!ReadsOn
    BY <1>11, HeReadsOn
<1>12. CASE Monitor!ReachesEnd
    BY <1>12, HeReachesEnd
<1>13. CASE Monitor!HandleHeEvent
    BY <1>13, HeHandles
<1>14. CASE Monitor!ResetsFindings
    BY <1>14, HeResets
<1>15. CASE Monitor!PageReturns
    BY <1>15, HeReturns
<1>. QED BY <1>1, <1>2, <1>3, <1>4, <1>5, <1>6, <1>7, <1>8, <1>9, <1>10, <1>11, <1>12, <1>13, <1>14, <1>15
         DEF Monitor!MonitorNext

LEMMA MonitorHolds == ASSUME HeIInv PROVE Monitor!FindingsAreTrue /\ Monitor!MonitorTypeOK
<1>1. /\ HeTyped /\ HeReader /\ HeSeen /\ HeOnce /\ HeTrue /\ HeFoundOut /\ HeNews
    BY DEF HeIInv
<1>2. /\ DOMAIN he.log = 1 .. Len(he.log) /\ DOMAIN news = 1 .. Len(news)
      /\ Len(files) \in Nat /\ Len(files) >= 1 /\ followed \in 0 .. Len(files)
      /\ DOMAIN files[Len(files)] = 1 .. Len(files[Len(files)])
    BY <1>1 DEF HeTyped
<1>3. ASSUME NEW s, NEW e
      PROVE  /\ (\A i \in DOMAIN s : s[i] # e) => Monitor!Times(s, e) = 0
             /\ \A i \in DOMAIN s : s[i] = e /\ (\A j \in DOMAIN s : s[j] = e => j = i) => Monitor!Times(s, e) = 1
    <2> DEFINE I == {i \in DOMAIN s : s[i] = e}
    <2>1. Monitor!Times(s, e) = Cardinality(I)
        BY DEF Monitor!Times, Monitor!Cardinality, Cardinality
    <2>2. (\A i \in DOMAIN s : s[i] # e) => I = {}
        OBVIOUS
    <2>3. \A i \in DOMAIN s : s[i] = e /\ (\A j \in DOMAIN s : s[j] = e => j = i) => I = {i}
        OBVIOUS
    <2>. HIDE DEF I
    <2>4. Cardinality({}) = 0 /\ \A i : Cardinality({i}) = 1
        BY FS_EmptySet, FS_Singleton
    <2>. QED BY <2>1, <2>2, <2>3, <2>4
<1>4. ASSUME NEW kind \in HeThree, NEW n
      PROVE  Monitor!Deserves(kind, n) <=> HeDeserves(strokes, kind, n)
    <2>1. /\ Monitor!AgoLess(n, ShortMs) <=> HeAgo(strokes, n, ShortMs)
          /\ Monitor!AgoLess(n, RepressMs) <=> HeAgo(strokes, n, RepressMs)
        BY DEF Monitor!AgoLess, HeAgo, Monitor!Before, HeBefore
    <2>2. CASE kind = "short"
        <3>1. Monitor!Deserves(kind, n) <=> (~strokes[n].down /\ Monitor!AgoLess(n, ShortMs))
            BY <2>2 DEF Monitor!Deserves
        <3>2. HeDeserves(strokes, kind, n) <=> (~strokes[n].down /\ HeAgo(strokes, n, ShortMs))
            BY <2>2 DEF HeDeserves
        <3>. QED BY <2>1, <3>1, <3>2
    <2>3. CASE kind = "repress"
        <3>1. Monitor!Deserves(kind, n) <=> (strokes[n].down /\ Monitor!AgoLess(n, RepressMs))
            BY <2>3 DEF Monitor!Deserves
        <3>2. HeDeserves(strokes, kind, n) <=> (strokes[n].down /\ HeAgo(strokes, n, RepressMs))
            BY <2>3 DEF HeDeserves
        <3>. QED BY <2>1, <3>1, <3>2
    <2>4. CASE kind = "phantom"
        <3>1. Monitor!Deserves(kind, n) <=> (strokes[n].down /\ strokes[n].jump)
            BY <2>4 DEF Monitor!Deserves
        <3>2. HeDeserves(strokes, kind, n) <=> (strokes[n].down /\ strokes[n].jump)
            BY <2>4 DEF HeDeserves
        <3>. QED BY <3>1, <3>2
    <2>. QED BY <2>2, <2>3, <2>4 DEF HeThree
<1>5. ASSUME NEW e \in Monitor!Findings
      PROVE  /\ Monitor!Deserves(e.kind, e.of)
             /\ Monitor!Times(he.log, e) + Monitor!Times(news, e) + (IF e \in cleared THEN 1 ELSE 0) = 1
    <2>1. /\ e.kind \in HeThree
          /\ e \in cleared \/ (\E i \in DOMAIN he.log : e = he.log[i]) \/ \E i \in DOMAIN news : e = news[i]
        BY HeFindings
    <2>2. Monitor!Deserves(e.kind, e.of)
        BY <1>1, <1>4, <2>1 DEF HeTrue
    <2>3. CASE \E i \in DOMAIN he.log : e = he.log[i]
        <3>. PICK i \in DOMAIN he.log : e = he.log[i]
            BY <2>3
        <3>0. \A j \in DOMAIN he.log : he.log[j] = e => j = i
            BY <1>1, <1>2, <2>1 DEF HeOnce
        <3>1. Monitor!Times(he.log, e) = 1
            BY <1>3, <3>0
        <3>2. Monitor!Times(news, e) = 0
            BY <1>1, <1>2, <1>3, <2>1, <2>3 DEF HeOnce
        <3>3. e \notin cleared
            BY <1>1, <1>2, <2>1, <2>3 DEF HeOnce
        <3>. QED BY <2>2, <3>1, <3>2, <3>3
    <2>4. CASE \E i \in DOMAIN news : e = news[i]
        <3>. PICK i \in DOMAIN news : e = news[i]
            BY <2>4
        <3>0. \A j \in DOMAIN news : news[j] = e => j = i
            BY <1>1, <1>2, <2>1 DEF HeOnce
        <3>1. Monitor!Times(news, e) = 1
            BY <1>3, <3>0
        <3>2. Monitor!Times(he.log, e) = 0
            BY <1>1, <1>2, <1>3, <2>1, <2>4 DEF HeOnce
        <3>3. e \notin cleared
            BY <1>1, <1>2, <2>1, <2>4 DEF HeOnce
        <3>. QED BY <2>2, <3>1, <3>2, <3>3
    <2>5. CASE e \in cleared
        <3>1. Monitor!Times(news, e) = 0
            BY <1>1, <1>2, <1>3, <2>1, <2>5 DEF HeOnce
        <3>2. Monitor!Times(he.log, e) = 0
            BY <1>1, <1>2, <1>3, <2>1, <2>5 DEF HeOnce
        <3>. QED BY <2>2, <2>5, <3>1, <3>2
    <2>. QED BY <2>1, <2>3, <2>4, <2>5
<1>6. Monitor!FoundOut
    <2>. SUFFICES ASSUME NEW s \in seen, NEW r \in seen, NEW kind \in HeThree,
                         s[1] = r[1], r[2].tag \in {"up", "down"}, s[2].tag = Monitor!ShownBy(kind),
                         r[2].of \in Monitor!JudgedBy(kind, s[2].of), Monitor!Deserves(kind, s[2].of)
                  PROVE  [kind |-> kind, key |-> s[2].key, of |-> s[2].of] \in Monitor!Findings
        BY DEF Monitor!FoundOut, HeThree
    <2>1. s[2].tag \in HeFour
        BY DEF HeThree, HeFour, Monitor!ShownBy
    <2>2. s[2].of \in 1 .. Len(strokes)
        BY <1>1, <2>1, HeKnown DEF HeIInv
    <2>3. HeDeserves(strokes, kind, s[2].of)
        BY <1>4, <2>2
    <2>4. r[2].of \in HeJudgedBy(strokes, kind, s[2].of)
        BY DEF Monitor!JudgedBy, HeJudgedBy, Monitor!Before, HeBefore
    <2>. QED BY <1>1, <2>3, <2>4 DEF HeFoundOut
<1>7. Monitor!ReadWhole
    <2>. SUFFICES ASSUME followed = Len(files), pos = Len(files[Len(files)]),
                         NEW i \in DOMAIN files[Len(files)],
                         i > (IF start[1] = followed THEN start[2] ELSE 0)
                  PROVE  <<followed, files[Len(files)][i]>> \in seen
        BY DEF Monitor!ReadWhole, Monitor!FullyRead, Monitor!Current
    <2>1. followed # 0 /\ i \in 1 .. Len(files[followed]) /\ i > HeBound /\ i <= pos
        BY <1>2 DEF HeBound
    <2>. QED BY <1>1, <2>1 DEF HeSeen
<1>8. Monitor!MonitorTypeOK
    <2>1. written \in 0 .. (MaxLines + 1)
        <3>1. Len(files[Len(files)]) \in Nat
            BY <1>1, <1>2 DEF HeTyped
        <3>. QED BY <1>1, <3>1, HeConstants DEF HeTyped
    <2>2. judge.pending \in {1, 2} \cup {None}
        BY <1>1 DEF HeTyped, HeJudges
    <2>. QED BY <1>1, <1>2, <2>1, <2>2 DEF Monitor!MonitorTypeOK, HeNews, Monitor!Keys2
<1>9. Monitor!TrueAndOnce
    BY <1>5 DEF Monitor!TrueAndOnce
<1>. QED BY <1>6, <1>7, <1>8, <1>9 DEF Monitor!FindingsAreTrue

-----------------------------------------------------------------------------
(* The parts *)

ChecksInv ==
    /\ part = "calibration" => CalIInv
    /\ part = "checks"      => ChkIInv
    /\ part = "switches"    => TstIInv
    /\ part = "monitor"     => HeIInv

\* The part that moves keeps its invariant, the others stand still.
LEMMA ChecksInductive == Spec => []ChecksInv
<1>1. Init => ChecksInv
    BY CalInitial, ChecksInitial, TesterInitial, MonitorInitial DEF Init, ChecksInv
<1>2. ChecksInv /\ [Next]_vars => ChecksInv'
    <2>. SUFFICES ASSUME ChecksInv, [Next]_vars PROVE ChecksInv'
        OBVIOUS
    <2>0. part' = part
        BY DEF Next, vars
    <2>1. ASSUME part = "calibration" PROVE CalIInv'
        <3>1. CalIInv /\ [Cal!CalNext]_kvars
            BY <2>1 DEF ChecksInv, Next, vars
        <3>. QED BY <3>1, CalStep
    <2>2. ASSUME part = "checks" PROVE ChkIInv'
        <3>1. ChkIInv /\ [Checks!ChecksNext]_xvars
            BY <2>2 DEF ChecksInv, Next, vars
        <3>. QED BY <3>1, ChecksStep
    <2>3. ASSUME part = "switches" PROVE TstIInv'
        <3>1. TstIInv /\ [Tester!TesterNext]_tstvars
            BY <2>3 DEF ChecksInv, Next, vars
        <3>. QED BY <3>1, TesterStep
    <2>4. ASSUME part = "monitor" PROVE HeIInv'
        <3>1. HeIInv /\ [Monitor!MonitorNext]_hevars
            BY <2>4 DEF ChecksInv, Next, vars
        <3>. QED BY <3>1, MonitorStep
    <2>. QED BY <2>0, <2>1, <2>2, <2>3, <2>4 DEF ChecksInv
<1>. QED BY <1>1, <1>2, PTL DEF Spec

\* A calibration run ends with the app that started it, the pin search and a board
\* test never drive the pad together and an answer goes to who asked, and the
\* Diagnostics page charges a switch with what it did, once each, and nothing else,
\* whatever frames, samples, log lines and files are lost, late or replaced.
THEOREM ChecksStayOwned == Spec => []ChecksAreOwned
<1>1. ChecksInv => ChecksAreOwned
    BY CalHolds, ChecksHold, TesterHolds, MonitorHolds DEF ChecksInv, ChecksAreOwned
<1>. QED BY <1>1, ChecksInductive, PTL
=============================================================================
