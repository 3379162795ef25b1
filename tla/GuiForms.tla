------------------------------- MODULE GuiForms -------------------------------
(***************************************************************************)
(* The GUI's two editors of the pad's configuration, the settings form and *)
(* the Keys page, kept up to date by status polls whose answers may be old *)
(* by the time they come, beside other clients that change the same        *)
(* configuration.                                                          *)
(*                                                                         *)
(* A setting is one value, a key's actuation another. Not modelled: what   *)
(* the widgets allow, the live view, the noise floors that raise a press   *)
(* point.                                                                  *)
(***************************************************************************)
EXTENDS Naturals, FiniteSets

CONSTANTS
    None,
    MaxPolls,      \* bound: status requests under way
    FormBudgets    \* bounds: edits, saves, others, rejects, plugs

FormsConstants ==
    /\ MaxPolls \in Nat \ {0} /\ None \notin Nat \X Nat
    /\ FormBudgets \subseteq [edits : Nat, saves : Nat, others : Nat, rejects : Nat, plugs : Nat]

VARIABLES
    dconf,      \* the daemon's configuration: a setting and both keys
    plugd,      \* device_connected, as the daemon knows it
    view,       \* App: config, up (device_connected), loaded (config_loaded)
    form,       \* the settings form
    keys,       \* KeysState: edit, dirty, separate
    polls,      \* status requests under way and their answers
    saves,      \* UpdateConfig requests under way
    mbounds,
    touched,    \* history: the user changed the form since it was filled
    typed       \* history: the keys as the user left them

mvars == <<dconf, plugd, view, form, keys, polls, saves, mbounds, touched, typed>>

Uses(what) == mbounds[what] > 0 /\ mbounds' = [mbounds EXCEPT ![what] = @ - 1]
Fresh == mbounds.edits          \* a value nothing holds yet

Unset == [set |-> 0, k1 |-> 0, k2 |-> 0]
Asked == [st |-> "sent", conf |-> Unset, up |-> FALSE]

FormsInit ==
    /\ dconf \in [set : {9}, k1 : {8}, k2 : {8, 9}] /\ plugd = FALSE
    /\ view = [config |-> Unset, up |-> FALSE, loaded |-> FALSE]
    /\ form = 0 /\ keys = [edit |-> None, dirty |-> FALSE, separate |-> FALSE]
    /\ polls = {Asked} /\ saves = {}
    /\ mbounds \in FormBudgets /\ touched = FALSE /\ typed = None

-----------------------------------------------------------------------------
(* The daemon *)

PadPlugged ==
    /\ Uses("plugs") /\ plugd' = ~plugd
    /\ UNCHANGED <<dconf, view, form, keys, polls, saves, touched, typed>>

\* opadctl, or another window
OtherClient ==
    /\ Uses("others")
    /\ dconf' = [dconf EXCEPT !.set = 7, !.k2 = 7]
    /\ UNCHANGED <<plugd, view, form, keys, polls, saves, touched, typed>>

\* GetStatus
Serve(call) ==
    /\ call.st = "sent"
    /\ polls' = (polls \ {call}) \cup {[st |-> "ok", conf |-> dconf, up |-> plugd]}
    /\ UNCHANGED <<dconf, plugd, view, form, keys, saves, mbounds, touched, typed>>

\* UpdateConfig: the whole configuration, and what ActionDone does
Stored(conf) ==
    /\ saves' = saves \ {conf}
    /\ \/ dconf' = conf /\ UNCHANGED mbounds
       \/ Uses("rejects") /\ UNCHANGED dconf
    /\ polls' = IF Cardinality(polls) < MaxPolls THEN polls \cup {Asked} ELSE polls
    /\ UNCHANGED <<plugd, view, form, keys, touched, typed>>

-----------------------------------------------------------------------------
(* The GUI *)

Poll ==
    /\ Cardinality(polls) < MaxPolls
    /\ \A c \in polls : c.st # "sent"
    /\ polls' = polls \cup {Asked}
    /\ UNCHANGED <<dconf, plugd, view, form, keys, saves, mbounds, touched, typed>>

KeysOf(conf) == <<conf.k1, conf.k2>>

AdoptedAnyway(conf) == [keys EXCEPT !.edit = KeysOf(conf)]

\* KeysState::adopt
Adopted(conf) ==
    IF keys.dirty THEN keys
    ELSE [keys EXCEPT !.edit = KeysOf(conf),
                      !.separate = IF keys.edit = None THEN conf.k1 # conf.k2 ELSE @]

FollowsOnce(call) == call.up /\ (~view.loaded \/ ~view.up)

\* When the settings form follows the pad's configuration
Follows(call) == call.up /\ (~view.loaded \/ view.config # call.conf \/ ~view.up)

Status(call) ==
    /\ call.st = "ok" /\ polls' = polls \ {call}
    /\ form' = IF Follows(call) THEN call.conf.set ELSE form
    /\ touched' = (touched /\ ~Follows(call))
    /\ keys' = IF call.up THEN Adopted(call.conf) ELSE keys
    /\ view' = [config |-> call.conf, up |-> call.up, loaded |-> view.loaded \/ call.up]
    /\ UNCHANGED <<dconf, plugd, saves, mbounds, typed>>

ChangeSetting ==
    /\ view.up /\ Uses("edits")
    /\ form' = Fresh /\ touched' = TRUE
    /\ UNCHANGED <<dconf, plugd, view, keys, polls, saves, typed>>

\* Everything but the form's own fields comes from the last status
SaveConfig ==
    /\ view.up /\ Uses("saves")
    /\ saves' = saves \cup {[view.config EXCEPT !.set = form]}
    /\ UNCHANGED <<dconf, plugd, view, form, keys, polls, touched, typed>>

Edits == IF keys.edit = None THEN KeysOf(view.config) ELSE keys.edit
Typing(k) == keys' = k /\ typed' = k.edit

\* Linked keys change together
SetKey(i) ==
    /\ Uses("edits")
    /\ Typing([keys EXCEPT !.dirty = TRUE,
          !.edit = IF keys.separate THEN [Edits EXCEPT ![i] = Fresh] ELSE <<Fresh, Fresh>>])
    /\ UNCHANGED <<dconf, plugd, view, form, polls, saves, touched>>

Separate(on) ==
    /\ on # keys.separate
    /\ LET link == ~on /\ Edits[1] # Edits[2]
       IN  Typing([edit |-> IF link THEN <<Edits[1], Edits[1]>> ELSE Edits,
                   dirty |-> keys.dirty \/ link, separate |-> on])
    /\ UNCHANGED <<dconf, plugd, view, form, polls, saves, mbounds, touched>>

KeysSave ==
    /\ keys.dirty /\ view.up /\ Uses("saves")
    /\ saves' = saves \cup {[view.config EXCEPT !.k1 = Edits[1], !.k2 = Edits[2]]}
    /\ keys' = [keys EXCEPT !.dirty = FALSE]
    /\ UNCHANGED <<dconf, plugd, view, form, polls, touched, typed>>

Revert ==
    /\ keys.dirty
    /\ Typing([edit |-> KeysOf(view.config), dirty |-> FALSE,
               separate |-> view.config.k1 # view.config.k2])
    /\ UNCHANGED <<dconf, plugd, view, form, polls, saves, mbounds, touched>>

FormsNext ==
    \/ PadPlugged \/ OtherClient \/ Poll
    \/ \E call \in polls : Serve(call) \/ Status(call)
    \/ \E conf \in saves : Stored(conf)
    \/ ChangeSetting \/ SaveConfig
    \/ \E i \in 1 .. 2 : SetKey(i)
    \/ \E on \in BOOLEAN : Separate(on)
    \/ KeysSave \/ Revert

\* The poll timer runs, the daemon answers, and no answer waits for ever
FormsFairness ==
    /\ WF_mvars(Poll)
    /\ WF_mvars(\E call \in polls : Serve(call))
    /\ WF_mvars(\E call \in polls : Status(call))
    /\ WF_mvars(\E conf \in saves : Stored(conf))

FormsSpec == FormsInit /\ [][FormsNext]_mvars /\ FormsFairness

-----------------------------------------------------------------------------
(* Properties *)

Configs == [set : Nat, k1 : Nat, k2 : Nat]

FormsTypeOK ==
    /\ {dconf, view.config} \cup saves \cup {c.conf : c \in polls} \subseteq Configs
    /\ keys.edit = None => ~keys.dirty
    /\ Cardinality(polls) <= MaxPolls

\* Unsaved key edits stay as the user left them through every poll, plug and
\* change by another client.
KeyEditsStay == keys.dirty => keys.edit = typed

\* However old the answers that came between, once things are quiet both
\* editors show the configuration the daemon holds, or what the user has
\* changed in them since.
FormAgrees ==
    plugd /\ view.up => /\ (form = dconf.set \/ touched)
                       /\ (keys.edit = KeysOf(dconf) \/ keys.dirty)
===============================================================================
