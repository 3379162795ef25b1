------------------------------ MODULE GuiDesigner ------------------------------
(***************************************************************************)
(* The screen designer: two layouts being edited, what the pad shows, the  *)
(* selection and the drag, against a daemon that answers loads and applies *)
(* whenever it likes, in any order, and other clients that set layouts.    *)
(*                                                                         *)
(* A layout is its widgets, a widget its name and where it stands; its     *)
(* other properties are edited like the position. Not modelled: colours,   *)
(* the preview, live values, what validate() refuses.                      *)
(***************************************************************************)
EXTENDS Naturals, SequencesExt

CONSTANTS
    None,
    WidgetLimit,      \* MAX_WIDGETS
    DesignerBudgets   \* bounds: edits, asks (loads and applies), fails, others

\* The sizes count, and the default layout has a widget
DesignerConstants ==
    /\ WidgetLimit \in Nat \ {0}
    /\ DesignerBudgets \subseteq [edits : Nat, asks : Nat, fails : Nat, others : Nat]

VARIABLES
    dlayouts,    \* the daemon's layouts, one per screen
    screen,      \* the screen being edited
    working,
    applied,     \* what the designer believes the pad shows
    selected,
    drag,        \* the index that is being dragged
    busy,
    calls,       \* loads and applies under way, each with its answer
    gbounds,
    crossed,     \* history: the last load was under way beside another call
    astray       \* history: since the daemon last served a load, another client
                 \* set a layout or an answer was lost

gvars == <<dlayouts, screen, working, applied, selected, drag, busy, calls, gbounds,
           crossed, astray>>
editing == <<screen, working, selected, drag>>
remote  == <<dlayouts, calls, crossed, astray>>

Screens == {"idle", "playing"}
Default == <<[id |-> 1, at |-> 0]>>
Defaults == [s \in Screens |-> Default]

Spend(what) == gbounds[what] > 0 /\ gbounds' = [gbounds EXCEPT ![what] = @ - 1]

\* A load brings layouts back, an apply carries those on screen
LoadCall == [do |-> "load", st |-> "sent", screen |-> "idle", layouts |-> Defaults]
ApplyCall == [do |-> "apply", st |-> "sent", screen |-> screen, layouts |-> working]

\* new() starts the first load
DesignerInit ==
    /\ dlayouts \in {Defaults, [Defaults EXCEPT !["idle"] = <<>>]}
    /\ screen = "playing" /\ working = Defaults /\ applied = Defaults
    /\ selected = None /\ drag = None /\ busy = TRUE
    /\ calls = {LoadCall}
    /\ gbounds \in DesignerBudgets /\ crossed = FALSE /\ astray = TRUE

Shown == working[screen]
Picked == selected # None

-----------------------------------------------------------------------------
(* Editing *)

\* `layout` on the screen being edited, `pick` selected
Edit(layout, pick) ==
    /\ Spend("edits")
    /\ working' = [working EXCEPT ![screen] = layout] /\ selected' = pick
    /\ UNCHANGED <<screen, drag, applied, busy, remote>>

Turned(w) == [w EXCEPT !.at = 1 - @]

SelectScreen(s) ==
    /\ s # screen
    /\ screen' = s /\ selected' = None
    /\ UNCHANGED <<working, drag, applied, busy, gbounds, remote>>

Select(i) ==
    /\ i \in DOMAIN Shown /\ selected' = i
    /\ UNCHANGED <<screen, working, drag, applied, busy, gbounds, remote>>

\* On a widget (or its resize handle), or beside all of them
PointerDown(i) ==
    /\ i \in DOMAIN Shown \cup {None}
    /\ selected' = i /\ drag' = i
    /\ UNCHANGED <<screen, working, applied, busy, gbounds, remote>>

PointerMove ==
    /\ drag \in DOMAIN Shown
    /\ Edit([Shown EXCEPT ![drag] = Turned(@)], selected)

PointerUp ==
    /\ drag # None /\ drag' = None
    /\ UNCHANGED <<screen, working, selected, applied, busy, gbounds, remote>>

\* Nudge, and the fields of the property panel
SetProperty == Picked /\ selected \in DOMAIN Shown
               /\ Edit([Shown EXCEPT ![selected] = Turned(@)], selected)

\* Mutant: an off-by-one lets one widget too many in
RoomBeyond == Len(Shown) <= WidgetLimit
HasRoom == Len(Shown) < WidgetLimit

NextId == 1 + gbounds.edits
Add == HasRoom /\ Edit(Append(Shown, [id |-> NextId, at |-> 0]), Len(Shown) + 1)
Duplicate == /\ Picked /\ HasRoom
             /\ Edit(Append(Shown, [Shown[selected] EXCEPT !.id = NextId]), Len(Shown) + 1)
Delete == Picked /\ Edit(RemoveAt(Shown, selected), None)

Swapped(i, j) == [Shown EXCEPT ![i] = Shown[j], ![j] = Shown[i]]
Raise == Picked /\ selected < Len(Shown) /\ Edit(Swapped(selected, selected + 1), selected + 1)
Lower == Picked /\ selected > 1 /\ Edit(Swapped(selected, selected - 1), selected - 1)

Revert == Edit(applied[screen], None)
ResetDefault == Edit(Default, None)
\* A file was picked: it goes to the screen shown by then
Imported == Edit(<<>>, None)

-----------------------------------------------------------------------------
(* The daemon *)

Send(call) == /\ Spend("asks") /\ calls' = calls \cup {call}
              /\ crossed' = IF calls = {} THEN crossed /\ call.do # "load"
                            ELSE crossed \/ \E c \in calls \cup {call} : c.do = "load"

\* The Reload button, coming back to the page, a daemon that is back
Reload ==
    /\ Send(LoadCall) /\ busy' = TRUE 
    /\ UNCHANGED <<editing, applied, dlayouts, astray>>

Apply ==
    /\ ~busy /\ Send(ApplyCall) /\ busy' = TRUE
    /\ UNCHANGED <<editing, applied, dlayouts, astray>>

Answered(call, c) == (calls \ {call}) \cup {c}

\* GetLayouts and SetLayout at the daemon; an answer may be lost after either
DaemonServes(call) ==
    /\ call.st = "sent"
    /\ \/ /\ calls' = Answered(call, [call EXCEPT !.st = "ok",
                                 !.layouts = IF call.do = "load" THEN dlayouts ELSE @])
          /\ astray' = (astray /\ call.do # "load")
          /\ UNCHANGED gbounds
       \/ /\ Spend("fails")
          /\ calls' = Answered(call, [call EXCEPT !.st = "error"])
          /\ astray' = TRUE
    /\ \/ /\ call.do = "apply"
          /\ dlayouts' = [dlayouts EXCEPT ![call.screen] = call.layouts[call.screen]]
       \/ (call.do = "load" \/ gbounds' # gbounds) /\ UNCHANGED dlayouts
    /\ UNCHANGED <<editing, applied, busy, crossed>>

OtherClient(s) ==
    /\ Spend("others")
    /\ dlayouts' = [dlayouts EXCEPT ![s] = <<>>] /\ astray' = TRUE
    /\ UNCHANGED <<editing, applied, busy, calls, crossed>>

Loaded(call) ==
    /\ call.do = "load" /\ call.st # "sent"
    /\ IF call.st = "error" THEN UNCHANGED <<working, applied>>
       ELSE working' = call.layouts /\ applied' = call.layouts
    /\ selected' = None /\ busy' = FALSE /\ calls' = calls \ {call}
    /\ UNCHANGED <<screen, drag, dlayouts, gbounds, crossed, astray>>

MarkedAsShown(call) == [applied EXCEPT ![screen] = Shown]

\* What was sent, whatever is on screen by now
Marked(call) == [applied EXCEPT ![call.screen] = call.layouts[call.screen]]

Applied(call) ==
    /\ call.do = "apply" /\ call.st # "sent"
    /\ applied' = IF call.st = "error" THEN applied ELSE Marked(call)
    /\ busy' = FALSE /\ calls' = calls \ {call}
    /\ UNCHANGED <<editing, dlayouts, gbounds, crossed, astray>>

DesignerNext ==
    \/ \E s \in Screens : SelectScreen(s) \/ OtherClient(s)
    \/ \E i \in 1 .. WidgetLimit : Select(i) \/ PointerDown(i)
    \/ PointerDown(None) \/ PointerMove \/ PointerUp
    \/ SetProperty \/ Add \/ Duplicate \/ Delete \/ Raise \/ Lower
    \/ Revert \/ ResetDefault \/ Imported
    \/ Reload \/ Apply
    \/ \E call \in calls : DaemonServes(call) \/ Loaded(call) \/ Applied(call)

DesignerSpec == DesignerInit /\ [][DesignerNext]_gvars

-----------------------------------------------------------------------------
(* Properties *)

DesignerTypeOK ==
    /\ screen \in Screens /\ busy \in BOOLEAN
    /\ \A s \in Screens : Len(working[s]) <= WidgetLimit /\ Len(applied[s]) <= WidgetLimit

\* The selection is always a widget of the screen that is shown, whatever
\* answers come between the click and the key: Delete and Duplicate index it.
SelectionIsAWidget == Picked => selected \in DOMAIN Shown

\* With no call under way, what the designer says is on the pad is what the
\* daemon holds: it offers Apply exactly when there is something to apply. Only
\* another client, or a load that crossed another call, can break that.
AppliedIsOnThePad == calls = {} /\ ~astray /\ ~crossed => applied = dlayouts

DesignerHolds == SelectionIsAWidget /\ AppliedIsOnThePad
===============================================================================
