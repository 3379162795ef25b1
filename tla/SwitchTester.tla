----------------------------- MODULE SwitchTester -----------------------------
(***************************************************************************)
(* The Diagnostics page's switch tester: a thread of its own watches the   *)
(* two keys and sends the window every change it sees, stamped; the window *)
(* counts presses and calls a press too soon after a release chatter.      *)
(*                                                                         *)
(* On Linux the thread reads the pad's input device, which queues every    *)
(* change with its time; on Windows it samples what is down and stamps the *)
(* sample.  A window with the focus also hears the keyboard, and stamps    *)
(* what it hears when it handles it.                                       *)
(*                                                                         *)
(* Abstractions.  Times are small numbers.  A fetch takes one event of the *)
(* queue at a time.  The beep, the log line and the last hold time are     *)
(* left out, and so is the two seconds' wait before the device is looked   *)
(* for again.                                                              *)
(***************************************************************************)
EXTENDS Naturals, Sequences, FiniteSets

CONSTANTS
    None,
    Bounce, Wobble, Chord,   \* 15, 35 and 10 ms in handle_key_event_at
    TesterBudgets            \* edges, ticks, breaks, resets; evdev and focus

VARIABLES
    switch,    \* which keys are down
    clock,
    plugged,
    shown,     \* the page is shown, so its subscriptions run
    device,    \* linux_key_events' dev: "none", "open", or "gone" and not noticed
    queued,    \* the kernel's events for that device
    last,      \* what the thread sent last for each key
    sent,      \* KeyEvents on their way to the window
    heard,     \* the window's own keyboard events
    tester,    \* k1 and k2: KeyTrackerState; chords: simultaneous_press_count
    edges,     \* history: what the thread could have seen since the reset
    whole,     \* history: nothing was held or under way while it could not
    tbounds

tstvars == <<switch, clock, plugged, shown, device, queued, last, sent, heard, tester,
             edges, whole, tbounds>>

TwoKeys == {1, 2}
Fresh == [down |-> FALSE, presses |-> 0, chatter |-> 0, flutter |-> 0,
          shortest |-> None, pressed |-> None, released |-> None]
NoInput == [k |-> [key \in TwoKeys |-> Fresh], chords |-> 0]
NothingSent == [key \in TwoKeys |-> None]

TesterConstants ==
    /\ Bounce \in Nat /\ Wobble \in Nat /\ Chord \in Nat
    /\ None \notin Nat /\ None \notin BOOLEAN
    /\ \A b \in TesterBudgets :
          b \in [edges : Nat, ticks : Nat, breaks : Nat, resets : Nat, evdev : BOOLEAN, focus : BOOLEAN]

TesterInit ==
    /\ switch = [key \in TwoKeys |-> FALSE] /\ clock = 0 /\ plugged = TRUE
    /\ shown = TRUE /\ device = "none" /\ queued = <<>> /\ last = NothingSent
    /\ sent = <<>> /\ heard = <<>> /\ tester = NoInput
    /\ edges = <<>> /\ whole = TRUE
    /\ tbounds \in TesterBudgets

Costs(what) == tbounds[what] > 0 /\ tbounds' = [tbounds EXCEPT ![what] = @ - 1]

Change(key, down, at) == [key |-> key, down |-> down, at |-> at]

-----------------------------------------------------------------------------
(* handle_key_event_at *)

\* Between two Instants, and zero if they are the other way round
Since(now, then) == IF now > then THEN now - then ELSE 0

Shorter(old, gap) == IF old = None \/ gap < old THEN gap ELSE old

PressedAgain(own, gap, now) ==
    [own EXCEPT !.down = TRUE, !.presses = @ + 1, !.pressed = now,
                !.shortest = Shorter(own.shortest, gap),
                !.chatter = IF gap < Bounce THEN @ + 1 ELSE @,
                !.flutter = IF gap >= Bounce /\ gap <= Wobble THEN @ + 1 ELSE @]

PressedFirst(own, now) == [own EXCEPT !.down = TRUE, !.presses = @ + 1, !.pressed = now]

IsChord(other, now) ==
    other.down /\ other.pressed # None /\ Since(now, other.pressed) <= Chord

\* Edge-triggered: a repeat of the key's state changes nothing
Counted(t, e) ==
    LET own == t.k[e.key]
        other == t.k[3 - e.key]
    IN  IF e.down /\ ~own.down
        THEN [k |-> [t.k EXCEPT ![e.key] =
                        IF own.released = None THEN PressedFirst(own, e.at)
                        ELSE PressedAgain(own, Since(e.at, own.released), e.at)],
              chords |-> IF IsChord(other, e.at) THEN t.chords + 1 ELSE t.chords]
        ELSE IF ~e.down /\ own.down
        THEN [t EXCEPT !.k[e.key].down = FALSE, !.k[e.key].released = e.at]
        ELSE t

Handle ==
    /\ sent # <<>> /\ sent' = Tail(sent)
    /\ tester' = Counted(tester, Head(sent))
    /\ UNCHANGED <<switch, clock, plugged, shown, device, queued, last, heard, edges, whole, tbounds>>

\* DiagnosticsKeyEvent
HandleKeyboard ==
    /\ heard # <<>> /\ heard' = Tail(heard)
    /\ tester' = Counted(tester, Change(Head(heard).key, Head(heard).down, clock))
    /\ UNCHANGED <<switch, clock, plugged, shown, device, queued, last, sent, edges, whole, tbounds>>

-----------------------------------------------------------------------------
(* The thread *)

\* What it has not sent as it is now
Reading(key) == IF last[key] # switch[key] THEN <<Change(key, switch[key], clock)>> ELSE <<>>
Readings == Reading(1) \o Reading(2)

\* The device is opened and the state of its keys read
Opens ==
    /\ shown /\ tbounds.evdev /\ device = "none" /\ plugged
    /\ device' = "open"
    /\ sent' = sent \o Readings /\ last' = switch
    /\ edges' = edges \o Readings
    /\ UNCHANGED <<switch, clock, plugged, shown, queued, heard, tester, whole, tbounds>>

\* Mutant: stamped when it is read
StampNow(e) == clock

\* The kernel's own time of the event
Stamp(e) == e.at

Fetches ==
    /\ shown /\ device = "open" /\ queued # <<>>
    /\ queued' = Tail(queued)
    /\ LET e == Head(queued)
       IN  /\ sent' = IF last[e.key] = e.down THEN sent
                      ELSE Append(sent, Change(e.key, e.down, Stamp(e)))
           /\ last' = [last EXCEPT ![e.key] = e.down]
    /\ UNCHANGED <<switch, clock, plugged, shown, device, heard, tester, edges, whole, tbounds>>

\* fetch_events failed: look for it again
Lost ==
    /\ shown /\ device = "gone" /\ device' = "none"
    /\ UNCHANGED <<switch, clock, plugged, shown, queued, last, sent, heard, tester, edges, whole, tbounds>>

\* switch_states, on Windows; a key held when the page opens is a press too
Samples ==
    /\ shown /\ ~tbounds.evdev /\ Readings # <<>>
    /\ sent' = sent \o Readings /\ last' = switch
    /\ edges' = IF last = NothingSent THEN edges \o Readings ELSE edges
    /\ UNCHANGED <<switch, clock, plugged, shown, device, queued, heard, tester, whole, tbounds>>

-----------------------------------------------------------------------------
(* The pad, the page and the user *)

Watched == IF tbounds.evdev THEN device = "open" ELSE last # NothingSent

Switches(key) ==
    /\ plugged /\ Costs("edges")
    /\ switch' = [switch EXCEPT ![key] = ~@]
    /\ LET e == Change(key, ~switch[key], clock)
       IN  /\ queued' = IF device = "open" THEN Append(queued, e) ELSE queued
           /\ heard' = IF shown /\ tbounds.focus THEN Append(heard, e) ELSE heard
           /\ edges' = IF shown /\ Watched THEN Append(edges, e) ELSE edges
    /\ UNCHANGED <<clock, plugged, shown, device, last, sent, tester, whole>>

Passes ==
    /\ Costs("ticks") /\ clock' = clock + 1
    /\ UNCHANGED <<switch, plugged, shown, device, queued, last, sent, heard, tester, edges, whole>>

Quiet == sent = <<>> /\ queued = <<>> /\ \A key \in TwoKeys : ~tester.k[key].down /\ ~switch[key]

Released(key) == IF switch[key] THEN <<Change(key, FALSE, clock)>> ELSE <<>>

\* A device that goes takes its unread events with it; the desktop releases its keys
Unplugs ==
    /\ plugged /\ Costs("breaks") /\ plugged' = FALSE
    /\ switch' = [key \in TwoKeys |-> FALSE] /\ queued' = <<>>
    /\ device' = IF device = "open" THEN "gone" ELSE device
    /\ heard' = IF shown /\ tbounds.focus
                THEN heard \o Released(1) \o Released(2) ELSE heard
    /\ whole' = (whole /\ Quiet)
    /\ UNCHANGED <<clock, shown, last, sent, tester, edges>>

Plugs ==
    /\ ~plugged /\ plugged' = TRUE
    /\ UNCHANGED <<switch, clock, shown, device, queued, last, sent, heard, tester, edges, whole, tbounds>>

\* The subscription is dropped, and with it the thread and what it sent
Leaves ==
    /\ shown /\ Costs("breaks") /\ shown' = FALSE
    /\ device' = "none" /\ queued' = <<>> /\ last' = NothingSent
    /\ sent' = <<>> /\ heard' = <<>>
    /\ whole' = (whole /\ Quiet)
    /\ UNCHANGED <<switch, clock, plugged, tester, edges>>

Returns ==
    /\ ~shown /\ shown' = TRUE
    /\ UNCHANGED <<switch, clock, plugged, device, queued, last, sent, heard, tester, edges, whole, tbounds>>

\* reset_input_tester; what is under way is counted after it
Resets ==
    /\ shown /\ Costs("resets") /\ tester' = NoInput
    /\ edges' = sent \o (IF tbounds.evdev THEN queued ELSE Readings)
    /\ whole' = (whole \/ Quiet)
    /\ UNCHANGED <<switch, clock, plugged, shown, device, queued, last, sent, heard>>

TesterNext ==
    \/ Handle \/ HandleKeyboard \/ Opens \/ Fetches \/ Lost \/ Samples
    \/ Passes \/ Unplugs \/ Plugs \/ Leaves \/ Returns \/ Resets
    \/ \E key \in TwoKeys : Switches(key)

\* The thread loops, and the window handles what it is sent
TesterFairness ==
    /\ WF_tstvars(Handle) /\ WF_tstvars(HandleKeyboard) /\ WF_tstvars(Opens)
    /\ WF_tstvars(Fetches) /\ WF_tstvars(Lost) /\ WF_tstvars(Samples)

TesterSpec == TesterInit /\ [][TesterNext]_tstvars /\ TesterFairness

-----------------------------------------------------------------------------
(* Properties *)

\* Every variable stays in its range; a count never exceeds the presses.
TesterTypeOK ==
    /\ switch \in [TwoKeys -> BOOLEAN] /\ {plugged, shown, whole} \subseteq BOOLEAN
    /\ device \in {"none", "open", "gone"} /\ last \in [TwoKeys -> BOOLEAN \cup {None}]
    /\ \A key \in TwoKeys : tester.k[key].chatter + tester.k[key].flutter <= tester.k[key].presses

\* The release before a press, of a press the tester knows of: the thread may
\* have read the key as up again since
Pressing(i, key) == edges[i].key = key /\ edges[i].down
ReleasedBefore(i) ==
    {j \in 1..(i - 1) :
        /\ edges[j].key = edges[i].key /\ ~edges[j].down
        /\ \E p \in 1..(j - 1) : /\ Pressing(p, edges[i].key)
                                /\ \A l \in (p + 1)..(j - 1) : edges[l].key # edges[i].key
        /\ \A l \in (j + 1)..(i - 1) : ~Pressing(l, edges[i].key)}
PressesOf(key) == {i \in DOMAIN edges : Pressing(i, key)}
BouncesOf(key) ==
    {i \in PressesOf(key) : \E j \in ReleasedBefore(i) : edges[i].at - edges[j].at < Bounce}

\* With the pad's input device and no keyboard events, chatter is what the
\* switch did, and all of it: each press that followed its key's release too
\* soon, by the kernel's time however late it was read.  A sample can miss a
\* change; it never makes one up.
ChatterIsTheSwitches ==
    ~tbounds.focus /\ whole =>
        IF tbounds.evdev
        THEN \A key \in TwoKeys :
                /\ tester.k[key].presses <= Cardinality(PressesOf(key))
                /\ tester.k[key].chatter <= Cardinality(BouncesOf(key))
                /\ sent = <<>> /\ queued = <<>> =>
                      /\ tester.k[key].presses = Cardinality(PressesOf(key))
                      /\ tester.k[key].chatter = Cardinality(BouncesOf(key))
        ELSE \A key \in TwoKeys : tester.k[key].presses <= Cardinality(PressesOf(key))

\* No key is drawn down that is not, whichever of the sources was last.
DrawnAsItIs == shown /\ plugged => \A key \in TwoKeys : tester.k[key].down => switch[key]
===============================================================================
