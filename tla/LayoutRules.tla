------------------------------ MODULE LayoutRules ------------------------------
(***************************************************************************)
(* A screen's layout from the request to the pad's screen and back as an   *)
(* answer: the desktop's validate, the frame, the pad's own validation,    *)
(* the acknowledgement that every waiting request for the screen takes.    *)
(*                                                                         *)
(* A layout is one new widget with at most one property changed, on a      *)
(* screen that holds `count` of them.  The height and the suffix have the  *)
(* rules of the width and the label.  What a map defers, and when the pad  *)
(* writes to flash, is PadConfig's; the pad's store keeps what it shows.   *)
(***************************************************************************)
EXTENDS Integers, Sequences

CONSTANTS None, Clients,
          LayoutBudgets      \* records: edits, odd (requests for a layout that is
                             \* not simply a new text widget), drops, slow

VARIABLES
    held,       \* DaemonState.custom_layouts and the database
    fw,         \* the pad: "new", "old" firmware, or "dark" without a display
    shown,      \* s_layouts: what the pad shows, None its built-in layout
    up,         \* the link
    toPad,      \* SetLayout and ResetLayout on their way
    acks,       \* LayoutAck on its way back
    asks,       \* by client: the request that waits in wait_for_layout_ack
    verdict,    \* history: what the pad did with the request a client sent
    told,       \* the answer a client got, to a request nobody else raced
    lbudget

yvars == <<held, fw, shown, up, toPad, acks, asks, verdict, told, lbudget>>

Screens == {"idle", "playing"}
ScreenW == 320
MaxWidgets == 32
LabelMax == 31

\* UI sources by what they are.  Older firmware does not know the song rates.
Sources == [none |-> "static", live |-> "rate", song |-> "rate", combo |-> "plain"]
Known(version) == DOMAIN Sources \ (IF version = "old" THEN {"song"} ELSE {})

\* is_tap_rate
TapRates == {s \in DOMAIN Sources : Sources[s] = "rate"}

\* Widget::new
Fresh(kind) ==
    [kind |-> kind, source |-> IF kind = "grade" THEN "combo" ELSE "none",
     x |-> 110, w |-> 100, keyrate |-> FALSE, persec |-> FALSE, label |-> 4]

\* What the designer's fields, or a file for opadctl, may hold
Changes ==
    [text  |-> [source |-> {"live", "song"}, x |-> {-321, -320, 640, 641},
                w |-> {0, 640, 641}, label |-> {31, 32}],
     card  |-> [keyrate |-> {TRUE}],
     grade |-> [source |-> {"live"}]]

\* set_tap_rate_unit; the word in the label follows the flag
WithUnit(widget) == [widget EXCEPT !.persec = TRUE]

\* shows_tap_rate
ShowsTapRate(widget) ==
    CASE widget.kind = "card"             -> widget.keyrate
      [] widget.kind \in {"text", "grade"} -> widget.source \in TapRates
      [] OTHER                            -> FALSE

\* uses_per_second
UsesPerSecond(layout) == layout.w.persec /\ ShowsTapRate(layout.w)

Layouts ==
    LET changed(k) == UNION {{[Fresh(k) EXCEPT ![f] = v] : v \in Changes[k][f]} :
                             f \in DOMAIN Changes[k]}
        all == UNION {{Fresh(k)} \union changed(k) : k \in DOMAIN Changes}
    IN  [count : {1}, w : all \union {WithUnit(widget) : widget \in all}]
          \union [count : {MaxWidgets, MaxWidgets + 1}, w : {Fresh("text")}]

\* Mutant: the right edge is not checked
ValidToTheLeft(layout) ==
    /\ layout.count <= MaxWidgets
    /\ layout.w.source \in DOMAIN Sources
    /\ layout.w.w > 0 /\ layout.w.w <= 2 * ScreenW
    /\ layout.w.x >= -ScreenW
    /\ layout.w.label <= LabelMax

\* Layout::validate
Valid(layout) ==
    /\ layout.count <= MaxWidgets
    /\ layout.w.source \in DOMAIN Sources
    /\ layout.w.w > 0 /\ layout.w.w <= 2 * ScreenW
    /\ layout.w.x >= -ScreenW /\ layout.w.x <= 2 * ScreenW
    /\ layout.w.label <= LabelMax

\* fit_nanopb_string: the pad's field holds LABEL_MAX_BYTES and the NUL
Fitted(length) == IF length <= LabelMax THEN length ELSE LabelMax

\* send_layout: a width below zero cannot travel
Wire(layout) == [layout EXCEPT !.w.w = IF @ < 0 THEN 0 ELSE @, !.w.label = Fitted(@)]

-----------------------------------------------------------------------------
LayoutInit ==
    /\ held = [s \in Screens |-> None] /\ shown = [s \in Screens |-> None]
    /\ fw \in {"new", "old", "dark"}
    /\ up \in BOOLEAN /\ toPad = <<>> /\ acks = <<>>
    /\ asks = [c \in Clients |-> None]
    /\ verdict = [c \in Clients |-> None] /\ told = [c \in Clients |-> None]
    /\ lbudget \in LayoutBudgets

Spends(what) == lbudget[what] > 0 /\ lbudget' = [lbudget EXCEPT ![what] = @ - 1]

\* A request subscribes to the pad's events and then sends.  It is alone when
\* no other request for its screen, an abandoned one included, is under way.
Alone(c, s) ==
    /\ \A i \in DOMAIN toPad : toPad[i].screen # s
    /\ \A i \in DOMAIN acks : acks[i].screen # s
    /\ \A d \in Clients \ {c} : asks[d] = None \/ asks[d].screen # s

Waits(c, s, layout) ==
    IF up
       THEN /\ asks' = [d \in Clients |->
                          IF d = c THEN [screen |-> s, alone |-> Alone(c, s)]
                          ELSE IF asks[d] # None /\ asks[d].screen = s
                                  THEN [asks[d] EXCEPT !.alone = FALSE]
                          ELSE asks[d]]
            /\ toPad' = Append(toPad, [screen |-> s, layout |-> layout, by |-> c])
       ELSE UNCHANGED <<asks, toPad>>

\* SetLayout: an older pad would show KPM next to a label that says KPS
SetLayout(c) ==
    \E s \in Screens, layout \in Layouts :
        /\ asks[c] = None
        /\ Spends(IF layout = [count |-> 1, w |-> Fresh("text")] THEN "edits" ELSE "odd")
        /\ Valid(layout)
        /\ ~(UsesPerSecond(layout) /\ up /\ fw = "old")
        /\ held' = [held EXCEPT ![s] = layout]
        /\ Waits(c, s, Wire(layout))
        /\ verdict' = [verdict EXCEPT ![c] = None] /\ told' = [told EXCEPT ![c] = None]
        /\ UNCHANGED <<fw, shown, up, acks>>

\* ResetLayout
ResetLayout(c) ==
    \E s \in Screens :
        /\ asks[c] = None /\ Spends("edits")
        /\ held' = [held EXCEPT ![s] = None]
        /\ Waits(c, s, None)
        /\ verdict' = [verdict EXCEPT ![c] = None] /\ told' = [told EXCEPT ![c] = None]
        /\ UNCHANGED <<fw, shown, up, acks>>

-----------------------------------------------------------------------------
(* The pad *)

\* ui_layout_validate.  Text that fills its field has no NUL: unterminated.
PadValid(layout) ==
    /\ layout.count <= MaxWidgets
    /\ layout.w.source \in Known(fw)
    /\ layout.w.w > 0 /\ layout.w.w <= 2 * ScreenW
    /\ layout.w.x >= -ScreenW /\ layout.w.x <= 2 * ScreenW
    /\ layout.w.label <= LabelMax

\* layout_from_proto cuts what exceeds the widgets it has room for
FromProto(layout) ==
    IF layout = None THEN layout
    ELSE [layout EXCEPT !.count = IF @ > MaxWidgets THEN MaxWidgets ELSE @]

\* ui_set_layout
Takes(layout) == fw # "dark" /\ (layout = None \/ PadValid(layout))

\* SetLayout and ResetLayout on the pad.  A layout taken is stored, so shown
\* again after a restart.
PadSets ==
    /\ toPad # <<>>
    /\ LET frame == Head(toPad)
           layout == FromProto(frame.layout)
           ok == Takes(layout)
       IN  /\ shown' = IF ok THEN [shown EXCEPT ![frame.screen] = layout] ELSE shown
           /\ acks' = Append(acks, [screen |-> frame.screen, ok |-> ok])
           /\ verdict' = IF frame.by = None THEN verdict
                         ELSE [verdict EXCEPT ![frame.by] = ok]
    /\ toPad' = Tail(toPad)
    /\ UNCHANGED <<held, fw, up, asks, told, lbudget>>

-----------------------------------------------------------------------------
(* The answer *)

\* Mutant: any screen's acknowledgement is taken
IsForAny(ack, ask) == ask # None

\* wait_for_layout_ack compares the screen; nobody compares sequence numbers
IsFor(ack, ask) == ask # None /\ ask.screen = ack.screen

\* handle_device_message broadcasts the acknowledgement
Acked ==
    /\ acks # <<>>
    /\ LET mine == {c \in Clients : IsFor(Head(acks), asks[c])}
       IN  /\ told' = [c \in Clients |-> IF c \in mine /\ asks[c].alone
                                            THEN Head(acks).ok ELSE told[c]]
           /\ asks' = [c \in Clients |-> IF c \in mine THEN None ELSE asks[c]]
    /\ acks' = Tail(acks)
    /\ UNCHANGED <<held, fw, shown, up, toPad, verdict, lbudget>>

\* Three seconds without an answer.  A slow pad may still give one.
GivesUp(c) ==
    /\ asks[c] # None
    /\ IF up THEN Spends("slow") ELSE UNCHANGED lbudget
    /\ asks' = [asks EXCEPT ![c] = None]
    /\ UNCHANGED <<held, fw, shown, up, toPad, acks, verdict, told>>

Unplugged ==
    /\ up /\ up' = FALSE /\ Spends("drops")
    /\ toPad' = <<>> /\ acks' = <<>>
    /\ UNCHANGED <<held, fw, shown, asks, verdict, told>>

\* A pad that connects is sent the custom layouts, and nothing for the others
Connected ==
    /\ ~up /\ up' = TRUE
    /\ LET Sent(s) == IF held[s] = None THEN <<>>
                      ELSE <<[screen |-> s, layout |-> Wire(held[s]), by |-> None]>>
       IN  toPad' = Sent("idle") \o Sent("playing")
    /\ asks' = [c \in Clients |-> IF asks[c] = None THEN None ELSE [asks[c] EXCEPT !.alone = FALSE]]
    /\ UNCHANGED <<held, fw, shown, acks, verdict, told, lbudget>>

LayoutNext ==
    \/ \E c \in Clients : SetLayout(c) \/ ResetLayout(c) \/ GivesUp(c)
    \/ PadSets \/ Acked \/ Unplugged \/ Connected

\* None is no layout, request, client or verdict
LayoutConstants ==
    /\ None \notin Clients \cup BOOLEAN
    /\ None \notin [screen : Screens, alone : BOOLEAN]
    /\ None \notin Layouts

LayoutSpec == LayoutInit /\ [][LayoutNext]_yvars

-----------------------------------------------------------------------------
LayoutTypeOK ==
    /\ fw \in {"new", "old", "dark"} /\ up \in BOOLEAN
    /\ \A s \in Screens : held[s] # None => Valid(held[s])
    /\ \A c \in Clients : {verdict[c], told[c]} \subseteq {None, TRUE, FALSE}
    /\ \A c \in Clients : asks[c] # None => asks[c].screen \in Screens

\* "validate applies the same rules as the firmware's ui_layout_validate":
\* once all is delivered a current pad with a display shows, exactly, every
\* custom layout the daemon holds.
LayoutsLand ==
    fw = "new" /\ up /\ toPad = <<>> =>
        \A s \in Screens : held[s] # None => shown[s] = held[s]

\* What a client is told of its layout is what the pad did with it, as long as
\* no other request for that screen was under way.
AnswersAreTrue ==
    \A c \in Clients : told[c] # None => told[c] = verdict[c]
=============================================================================
