------------------------------- MODULE PadConfig -------------------------------
(***************************************************************************)
(* One configuration and one layout in their five places: the daemon's     *)
(* memory and database, the queue of what a map postpones, the pad's RAM   *)
(* and its flash.                                                          *)
(*                                                                         *)
(* The pad writes from two tasks: the protocol task when it receives, the  *)
(* supervisor when a map is over.  Layout writes share a lock; for the     *)
(* configuration only the copies do, not the write to flash.               *)
(*                                                                         *)
(* Abstractions.  A configuration, like a layout, is the number of its     *)
(* change.  An IPC request is one step, and so is what a sync drains: in   *)
(* the code both write memory, database and pad one after another.  No     *)
(* frame is lost while the pad is connected (PadLink, CounterSync have     *)
(* that).  Of the pad's state IDLE and not IDLE are told apart.            *)
(***************************************************************************)
EXTENDS Naturals, Sequences

CONSTANTS
    None,           \* nothing postponed, no write going on
    ConfigBudgets   \* bounds: sets (of configurations and layouts), maps,
                    \* cuts (of the cable or the power), failing NVS writes

VARIABLES
    cmode,      \* the daemon's mode: "idle", "map" or "sync"
    linked,     \* device_connected
    cfg,        \* DaemonState.config
    layout,     \* DaemonState.custom_layouts
    cdb,        \* SQLite: the configuration and the layout
    later,      \* PendingOperations: pending_config, pending_layouts
    wire,       \* frames on their way to the pad
    pst,        \* the pad's state: "idle" or "map"
    ram,        \* the pad's configuration and layout
    flash,      \* the same in NVS
    dirty,      \* s_dirty, and the layout in s_pending_layouts
    proto,      \* the configuration the protocol task is writing to NVS
    flusher,    \* the configuration the supervisor is writing to NVS
    cbounds,
    raced,      \* history: a configuration came while an older was flushed
    failed      \* history: an NVS write failed

host  == <<cmode, linked, cfg, layout, cdb, later>>
padv  == <<pst, ram, flash, dirty, proto, flusher>>
cvars == <<host, wire, padv, cbounds, raced, failed>>

Stock == 10     \* what the pad brings along
Nothing == [cfg |-> None, layout |-> None]

CountCfg(what) == cbounds[what] > 0 /\ cbounds' = [cbounds EXCEPT ![what] = @ - 1]
New == cbounds.sets
Frame(what, v) == <<[what |-> what, v |-> v]>>
Send(frames) == wire' = IF linked THEN wire \o frames ELSE wire

ConfigInit ==
    /\ cmode = "idle" /\ linked = FALSE
    /\ cfg = 0 /\ layout = 0 /\ cdb = [cfg |-> 0, layout |-> 0] /\ later = Nothing
    /\ wire = <<>>
    /\ pst = "idle"
    /\ ram = [cfg |-> Stock, layout |-> 0] /\ flash = ram
    /\ dirty = [cfg |-> FALSE, layout |-> None]
    /\ proto = None /\ flusher = None
    /\ cbounds \in ConfigBudgets
    /\ raced = FALSE /\ failed = FALSE

-----------------------------------------------------------------------------

(* The daemon *)

\* DeviceConnected: the pad's configuration is adopted, memory and database
Adopts(c) == cfg' = c /\ cdb' = [cdb EXCEPT !.cfg = c]

\* ... unless its flash was wiped: then ours is sent.  Custom layouts go out.
LinkUp(wiped) ==
    /\ ~linked
    /\ linked' = TRUE
    /\ IF wiped THEN UNCHANGED <<cfg, cdb>> ELSE Adopts(ram.cfg)
    /\ wire' = (IF wiped THEN Frame("cfg", cfg) ELSE <<>>)
               \o Frame(IF cmode = "map" THEN "play" ELSE "stop", 0)
               \o Frame("layout", layout)
    /\ cmode' = IF cmode = "idle" THEN "sync" ELSE cmode
    /\ UNCHANGED <<layout, later, padv, cbounds, raced, failed>>

\* The cable goes: what was sent and not read is lost
LinkDown ==
    /\ linked
    /\ CountCfg("cuts")
    /\ linked' = FALSE /\ wire' = <<>>
    /\ UNCHANGED <<cmode, cfg, layout, cdb, later, padv, raced, failed>>

MapStart ==
    /\ cmode # "map"
    /\ CountCfg("maps")
    /\ cmode' = "map"
    /\ Send(Frame("play", 0))
    /\ UNCHANGED <<linked, cfg, layout, cdb, later, padv, raced, failed>>

\* The cooldown is over on both sides, and a sync follows
MapOver ==
    /\ cmode = "map"
    /\ cmode' = "sync"
    /\ Send(Frame("stop", 0))
    /\ UNCHANGED <<linked, cfg, layout, cdb, later, padv, cbounds, raced, failed>>

\* UpdateConfig.  In a map keys and debounce wait, the rest is only not stored
UpdateConfig(keys) ==
    /\ CountCfg("sets")
    /\ IF cmode # "map"
          THEN /\ cfg' = New /\ cdb' = [cdb EXCEPT !.cfg = New]
               /\ Send(Frame("cfg", New)) /\ UNCHANGED later
          ELSE /\ later' = [later EXCEPT !.cfg = New]
               /\ IF keys THEN UNCHANGED <<cfg, wire>>
                  ELSE cfg' = New /\ Send(Frame("cfg", New))
               /\ UNCHANGED cdb
    /\ UNCHANGED <<cmode, linked, layout, padv, raced, failed>>

\* SetLayout
SetLayout ==
    /\ CountCfg("sets")
    /\ layout' = New
    /\ Send(Frame("layout", New))
    /\ IF cmode = "map"
          THEN later' = [later EXCEPT !.layout = New] /\ UNCHANGED cdb
          ELSE cdb' = [cdb EXCEPT !.layout = New] /\ UNCHANGED later
    /\ UNCHANGED <<cmode, linked, cfg, padv, raced, failed>>

\* Mutant: what was postponed is sent and stored, and memory keeps what it had
DrainsPadOnly == UNCHANGED cfg

\* Memory follows what is drained, though something newer was set in SYNC
DrainsCfg == cfg' = IF later.cfg = None THEN cfg ELSE later.cfg

\* The end of perform_sync, with a pad that says IDLE
SyncDrains ==
    /\ cmode = "sync" /\ linked /\ wire = <<>> /\ pst = "idle"
    /\ cmode' = "idle"
    /\ DrainsCfg
    /\ cdb' = [cfg |-> IF later.cfg = None THEN cdb.cfg ELSE later.cfg,
               layout |-> IF later.layout = None THEN cdb.layout ELSE later.layout]
    /\ wire' = (IF later.cfg = None THEN <<>> ELSE Frame("cfg", later.cfg))
               \o (IF later.layout = None THEN <<>> ELSE Frame("layout", later.layout))
    /\ later' = Nothing
    /\ UNCHANGED <<linked, layout, padv, cbounds, raced, failed>>

\* ... or without one
SyncSkips ==
    /\ cmode = "sync" /\ ~linked
    /\ cmode' = "idle"
    /\ UNCHANGED <<linked, cfg, layout, cdb, later, wire, padv, cbounds, raced, failed>>

-----------------------------------------------------------------------------
(* The pad *)

Receives(what) == proto = None /\ wire # <<>> /\ Head(wire).what = what /\ wire' = Tail(wire)

PadState ==
    /\ \/ Receives("play") /\ pst' = "map"
       \/ Receives("stop") /\ pst' = "idle"
    /\ UNCHANGED <<host, ram, flash, dirty, proto, flusher, cbounds, raced, failed>>

\* device_config_set: RAM at once, flash at once in IDLE
RecvConfig ==
    /\ Receives("cfg")
    /\ ram' = [ram EXCEPT !.cfg = Head(wire).v]
    /\ IF pst = "idle"
          THEN proto' = Head(wire).v /\ UNCHANGED dirty
          ELSE dirty' = [dirty EXCEPT !.cfg = TRUE] /\ UNCHANGED proto
    /\ raced' = (raced \/ flusher # None)
    /\ UNCHANGED <<host, pst, flash, flusher, cbounds, failed>>

\* nvs_set_blob and nvs_commit, or one of them fails
Nvs(ok) ==
    /\ failed' = (failed \/ ~ok)
    /\ IF ok THEN UNCHANGED cbounds ELSE CountCfg("fails")

\* Mutant: the mark stays after a write
WritesKeepMark(c, ok) ==
    /\ Nvs(ok)
    /\ flash' = IF ok THEN [flash EXCEPT !.cfg = c] ELSE flash
    /\ UNCHANGED dirty

\* write_to_nvs behind its check: a write that fails leaves the mark as it was
Writes(c, ok) ==
    /\ Nvs(ok)
    /\ IF ok THEN flash' = [flash EXCEPT !.cfg = c] /\ dirty' = [dirty EXCEPT !.cfg = FALSE]
       ELSE UNCHANGED <<flash, dirty>>

ProtoWrites(ok) ==
    /\ proto # None
    /\ Writes(proto, ok)
    /\ proto' = None
    /\ UNCHANGED <<host, wire, pst, ram, flusher, raced>>

\* device_config_flush: the mark, the state, the copy
FlushStart ==
    /\ flusher = None /\ dirty.cfg /\ pst = "idle"
    /\ flusher' = ram.cfg
    /\ UNCHANGED <<host, wire, pst, ram, flash, dirty, proto, cbounds, raced, failed>>

FlushWrites(ok) ==
    /\ flusher # None
    /\ Writes(flusher, ok)
    /\ flusher' = None
    /\ UNCHANGED <<host, wire, pst, ram, proto, raced>>

\* Mutant: a layout written in IDLE leaves an older one waiting
SupersedesNot == UNCHANGED dirty

\* Supersedes anything still deferred for this screen
Supersedes == dirty' = [dirty EXCEPT !.layout = None]

\* ui_store_save, under store_lock
RecvLayout(ok) ==
    /\ Receives("layout")
    /\ ram' = [ram EXCEPT !.layout = Head(wire).v]
    /\ IF pst # "idle"
          THEN /\ ok /\ dirty' = [dirty EXCEPT !.layout = Head(wire).v]
               /\ UNCHANGED <<flash, cbounds, failed>>
          ELSE /\ Supersedes
               /\ Nvs(ok)
               /\ flash' = IF ok THEN [flash EXCEPT !.layout = Head(wire).v] ELSE flash
    /\ UNCHANGED <<host, pst, proto, flusher, raced>>

\* Only once it is on flash
Forgets(ok) == dirty' = IF ok THEN [dirty EXCEPT !.layout = None] ELSE dirty

\* ui_store_flush_dirty, under store_lock
FlushLayout(ok) ==
    /\ dirty.layout # None /\ pst = "idle"
    /\ Nvs(ok)
    /\ flash' = IF ok THEN [flash EXCEPT !.layout = dirty.layout] ELSE flash
    /\ Forgets(ok)
    /\ UNCHANGED <<host, wire, pst, ram, proto, flusher, raced>>

\* No HostStatus comes any more
PadTimeout ==
    /\ ~linked /\ pst = "map"
    /\ pst' = "idle"
    /\ UNCHANGED <<host, wire, ram, flash, dirty, proto, flusher, cbounds, raced, failed>>

PowerCut ==
    /\ CountCfg("cuts")
    /\ linked' = FALSE /\ wire' = <<>> /\ pst' = "idle"
    /\ ram' = flash /\ dirty' = [cfg |-> FALSE, layout |-> None]
    /\ proto' = None /\ flusher' = None
    /\ UNCHANGED <<cmode, cfg, layout, cdb, later, flash, raced, failed>>

Flush == FlushStart \/ FlushWrites(TRUE) \/ FlushLayout(TRUE)

Receive ==
    \/ PadState \/ RecvConfig \/ ProtoWrites(TRUE) \/ RecvLayout(TRUE)

ConfigNext ==
    \/ \E wiped \in BOOLEAN : LinkUp(wiped)
    \/ LinkDown
    \/ MapStart \/ MapOver
    \/ \E keys \in BOOLEAN : UpdateConfig(keys)
    \/ SetLayout
    \/ SyncDrains \/ SyncSkips
    \/ Receive \/ ProtoWrites(FALSE) \/ RecvLayout(FALSE)
    \/ Flush \/ FlushWrites(FALSE) \/ FlushLayout(FALSE)
    \/ PadTimeout \/ PowerCut

\* The pad's tasks run, a map ends, and a sync ends with it
ConfigFairness ==
    /\ WF_cvars(Receive) /\ WF_cvars(Flush) /\ WF_cvars(PadTimeout)
    /\ WF_cvars(MapOver) /\ WF_cvars(SyncDrains \/ SyncSkips)

ConfigSpec == ConfigInit /\ [][ConfigNext]_cvars /\ ConfigFairness

-----------------------------------------------------------------------------
(* Properties *)

\* What the constants have to be
ConfigConstants ==
    /\ None \notin Nat
    /\ ConfigBudgets \subseteq [sets : Nat, maps : Nat, cuts : Nat, fails : Nat]

Values == Nat \cup {None}

\* Every variable stays in its range, and what is stored or sent is a value.
ConfigTypeOK ==
    /\ cmode \in {"idle", "map", "sync"} /\ pst \in {"idle", "map"}
    /\ {later.cfg, later.layout, proto, flusher, dirty.layout} \subseteq Values
    /\ {cfg, layout, cdb.cfg, cdb.layout, ram.cfg, ram.layout, flash.cfg, flash.layout}
           \subseteq Nat
    /\ linked \/ wire = <<>>

Rests == wire = <<>> /\ proto = None

\* Between maps, with nothing on its way or postponed, the configuration is one
\* and the same in the daemon's memory, its database and the pad, whatever was
\* set before, in and after a map and whichever pad it met.
ConfigAgrees ==
    cmode = "idle" /\ linked /\ Rests /\ later = Nothing =>
        cfg = cdb.cfg /\ cfg = ram.cfg

\* A configuration or layout that the pad uses and has no mark for is in flash,
\* unless a write failed, or both tasks wrote a configuration at once: the older
\* may then be written last.
FlashFollowsRam ==
    /\ ~failed /\ dirty.layout = None => flash.layout = ram.layout
    /\ ~failed /\ ~raced /\ ~dirty.cfg /\ proto = None => flash.cfg = ram.cfg

\* Both sides agree, and what a side believes written is.
ConfigKept == ConfigAgrees /\ FlashFollowsRam

\* What a map postponed; it reaches flash in the end.
Deferred == dirty.cfg \/ dirty.layout # None
===============================================================================
