----------------------------- MODULE ConfigRules -----------------------------
(***************************************************************************)
(* One configuration in its four forms: the DeviceConfig the daemon keeps  *)
(* and stores, the ConfigPayload on the wire, the record the pad keeps and *)
(* the JSON backup.  Each crossing has rules of its own: the desktop's     *)
(* validate, the pad's "0 keeps the current value" and its own validate,   *)
(* the defaults for what an older firmware does not report.                *)
(*                                                                         *)
(* One swipe and one Hall effect key stand for all of theirs; debounce and *)
(* sleep have the same rules as brightness.  What an NVS write does with   *)
(* the pad's record, and when the daemon defers one, is PadConfig's.       *)
(***************************************************************************)
EXTENDS Naturals, Sequences

CONSTANTS None, DesktopPins, PadPins,   \* KEY_PINS, KEY_GPIO_ALLOWED
          RuleBudgets                   \* records: edits, drops

VARIABLES
    kept,       \* the daemon's DeviceConfig
    padcfg,     \* device_config_data_t and he_key_settings_t
    vintage,    \* "new", or "old": firmware before pins, swipes and HE
    joinedPad,  \* the link is up
    frames,     \* SetConfig on its way
    backup,     \* a JSON backup, None before the export
    rbounds

jvars == <<kept, padcfg, vintage, joinedPad, frames, backup, rbounds>>

Default == [usage |-> 29, hz |-> 10, bright |-> 100, pin1 |-> 14, pin2 |-> 9,
            swipe |-> "next", skey |-> 0, smods |-> 0, he |-> None]
StockHe == [act |-> 500, dz |-> 0, mode |-> "off"]
NewFields == {"pin1", "pin2", "swipe", "skey", "smods", "he"}

\* What a form, a CLI command or a client may ask, one field at a time
Entries ==
    [usage |-> {0, 39, 44}, hz |-> {10, 60}, bright |-> {0, 100}, pin1 |-> {7, 8, 9},
     pin2 |-> {9}, swipe |-> {"none", "next", "key"}, skey |-> {0, 44},
     smods |-> {0, 1, 256}, he |-> [act : {0, 300}, dz : {0}, mode : {"off", "continuous"}]]

\* SwipeAction::to_wire and from_wire: 0 is no action
SwipeWire == [none |-> 1, next |-> 3, key |-> 6]
SwipeOf(n) == IF \E a \in DOMAIN SwipeWire : SwipeWire[a] = n
                 THEN CHOOSE a \in DOMAIN SwipeWire : SwipeWire[a] = n
                 ELSE Default.swipe

\* HeRtMode::to_wire and from_wire
HeWire == [off |-> 1, normal |-> 2, continuous |-> 3]
HeOf(n) == IF \E a \in DOMAIN HeWire : HeWire[a] = n
              THEN CHOOSE a \in DOMAIN HeWire : HeWire[a] = n ELSE "off"

\* hid_usage_to_char and char_to_hid_usage, the keys as a backup names them
KeyName(u) == CASE u \in 4 .. 29  -> <<"letter", u - 4>>
                [] u \in 30 .. 39 -> <<"digit", (u - 29) % 10>>
                [] OTHER          -> <<"hex", u>>
KeyNamed(n) == CASE n[1] = "letter" -> n[2] + 4
                 [] n[1] = "digit"  -> IF n[2] = 0 THEN 39 ELSE n[2] + 29
                 [] n[1] = "hex"    -> n[2]

UsageOk(u) == u \in 4 .. 231

\* validate_swipe, and the pad's swipe_valid
SwipeOk(action, key) == (key = 0 \/ UsageOk(key)) /\ (action = "key" => key # 0)

\* HeKeyConfig::validate, and the pad's device_config_validate_he
HeOk(k) == IF k = None THEN TRUE ELSE k.act <= 1000 /\ k.dz <= 1000

\* validate_key_gpios
PinsOk(c, pins) == c.pin1 \in pins /\ c.pin2 \in pins /\ c.pin1 # c.pin2

\* DeviceConfig::validate
Valid(c) ==
    /\ UsageOk(c.usage) /\ c.bright <= 100 /\ c.hz \in 1 .. 30
    /\ SwipeOk(c.swipe, c.skey) /\ c.smods <= 255
    /\ HeOk(c.he)
    /\ PinsOk(c, DesktopPins)

\* A Hall effect key, as send_config and device_config_from put it
HeToWire(k) == IF k = None THEN None ELSE [k EXCEPT !.mode = HeWire[@]]
HeFromWire(k) == IF k = None THEN None ELSE [k EXCEPT !.mode = HeOf(@)]

\* send_config
Payload(c) == [c EXCEPT !.swipe = SwipeWire[@], !.he = HeToWire(@)]

\* device_config_from.  The tosu endpoint and the animations stay on the PC.
DeviceConfigFrom(f) ==
    [f EXCEPT !.pin1 = IF @ = 0 THEN Default.pin1 ELSE @,
              !.pin2 = IF @ = 0 THEN Default.pin2 ELSE @,
              !.swipe = SwipeOf(@), !.he = HeFromWire(@)]

-----------------------------------------------------------------------------
(* The pad *)

Or(new, old) == IF new = 0 THEN old ELSE new

\* Mutant: a brightness of 0 keeps the current one, as its neighbours do
BasicsKeepZero(p, f) ==
    [p EXCEPT !.usage = Or(f.usage, @), !.hz = Or(f.hz, @), !.bright = Or(f.bright, @)]

\* SetConfig over the current record: 0 keeps what the pad has, except where
\* 0 is a value
Basics(p, f) ==
    [p EXCEPT !.usage = Or(f.usage, @), !.hz = Or(f.hz, @), !.bright = f.bright]

\* Firmware before pins, swipes and Hall effect keys skips their fields
Merged(p, f) ==
    IF vintage = "old" THEN Basics(p, f)
    ELSE [Basics(p, f) EXCEPT
            !.pin1 = Or(f.pin1, @), !.pin2 = Or(f.pin2, @),
            !.swipe = Or(f.swipe, @), !.skey = Or(f.skey, @), !.smods = f.smods % 256,
            !.he = IF f.he = None THEN @
                   ELSE [act |-> Or(f.he.act, @.act), dz |-> f.he.dz, mode |-> f.he.mode]]

\* device_config_validate.  Its actions are SwipeAction's wire values.
PadValid(p) ==
    /\ UsageOk(p.usage) /\ p.bright <= 100 /\ p.hz \in 0 .. 60
    /\ vintage = "new" => /\ p.swipe \in 1 .. 8 /\ SwipeOk(SwipeOf(p.swipe), p.skey)
                          /\ HeOk(p.he)
                          /\ PinsOk(p, PadPins)

\* fill_config_payload
Reported(p) == [p EXCEPT !.hz = IF @ = 0 THEN 10 ELSE @]

-----------------------------------------------------------------------------
RulesInit ==
    /\ kept = Default
    /\ vintage \in {"new", "old"}
    /\ padcfg = IF vintage = "new" THEN [Payload(Default) EXCEPT !.he = [StockHe EXCEPT !.mode = 1]]
                ELSE [Payload(Default) EXCEPT !.pin1 = 0, !.pin2 = 0, !.swipe = 0]
    /\ joinedPad = FALSE /\ frames = <<>> /\ backup = None
    /\ rbounds \in RuleBudgets

CountRule(what) == rbounds[what] > 0 /\ rbounds' = [rbounds EXCEPT ![what] = @ - 1]

\* The configuration is stored and sent; a send without a link is ignored
Keeps(c) ==
    /\ kept' = c
    /\ frames' = IF joinedPad THEN Append(frames, Payload(c)) ELSE frames

\* UpdateConfig with one field changed
Edits ==
    \E f \in DOMAIN Entries : \E v \in Entries[f] :
        /\ CountRule("edits")
        /\ Valid([kept EXCEPT ![f] = v])
        /\ Keeps([kept EXCEPT ![f] = v])
        /\ UNCHANGED <<padcfg, vintage, joinedPad, backup>>

\* JsonBackup::new: the Hall effect settings are not in it
Exports ==
    /\ backup = None
    /\ backup' = [kept EXCEPT !.usage = KeyName(@), !.he = None]
    /\ UNCHANGED <<kept, padcfg, vintage, joinedPad, frames, rbounds>>

Restored == [backup EXCEPT !.usage = KeyNamed(@)]

\* JsonBackup::validate, then the import as any other configuration
Imports ==
    /\ CountRule("edits")
    /\ backup # None
    /\ Valid(Restored)
    /\ Keeps(Restored)
    /\ UNCHANGED <<padcfg, vintage, joinedPad, backup>>

\* SetConfig.  ConfigAck is read by nobody on the desktop.
SetConfig ==
    /\ frames # <<>>
    /\ frames' = Tail(frames)
    /\ LET p == Merged(padcfg, Head(frames)) IN
       padcfg' = IF PadValid(p) THEN p ELSE padcfg
    /\ UNCHANGED <<kept, vintage, joinedPad, backup, rbounds>>

\* HelloAck: the daemon adopts what the pad reports
Joins ==
    /\ ~joinedPad
    /\ joinedPad' = TRUE
    /\ kept' = DeviceConfigFrom(Reported(padcfg))
    /\ UNCHANGED <<padcfg, vintage, frames, backup, rbounds>>

Leaves ==
    /\ joinedPad
    /\ CountRule("drops")
    /\ joinedPad' = FALSE /\ frames' = <<>>
    /\ UNCHANGED <<kept, padcfg, vintage, backup>>

RulesNext == Edits \/ Exports \/ Imports \/ SetConfig \/ Joins \/ Leaves

\* The stock pins are among those the desktop offers, and no pin has number 0
RulesConstants ==
    /\ DesktopPins \subseteq Nat \ {0} /\ {Default.pin1, Default.pin2} \subseteq DesktopPins
    /\ None \notin [act : Nat, dz : Nat, mode : DOMAIN HeWire \cup Nat]
    /\ RuleBudgets \subseteq [edits : Nat, drops : Nat]

RulesSpec == RulesInit /\ [][RulesNext]_jvars

-----------------------------------------------------------------------------
\* Types; what the daemon keeps has passed its own rules
RulesTypeOK ==
    /\ Valid(kept) /\ (backup # None => Valid(Restored))
    /\ vintage \in {"new", "old"} /\ joinedPad \in BOOLEAN
    /\ padcfg.bright \in 0 .. 100
    /\ \A i \in DOMAIN frames : frames[i].bright \in 0 .. 100
    /\ \A b \in DOMAIN rbounds : rbounds[b] \in Nat

\* What the protocol cannot say: a key or a Hall effect value of 0, or none
Unsaid(f) ==
    \/ f = "skey" /\ kept.skey = 0
    \/ f = "he" /\ (kept.he = None \/ kept.he.act = 0)
    \/ f \in NewFields /\ vintage = "old"

\* Once the pad has read everything, what the daemon believes and stores is
\* what the pad would report: a setting made while connected is not undone by
\* the next connect.  Except for values the protocol has no word for, and
\* while a pin is chosen that only one side knows.
SettingsLand ==
    joinedPad /\ frames = <<>> /\ (vintage = "new" => PinsOk(kept, PadPins)) =>
        \A f \in DOMAIN kept :
            kept[f] = DeviceConfigFrom(Reported(padcfg))[f] \/ Unsaid(f)
=============================================================================
