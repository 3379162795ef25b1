------------------------------- MODULE PadPorts -------------------------------
(***************************************************************************)
(* Which port is the pad: discovery of the running app by USB strings or   *)
(* by a Hello probe (opad-device/src/lib.rs: classify_port, discover_port, *)
(* probe_port), and the way into the ROM bootloader, where the pad comes   *)
(* back under another name and any ESP32 board looks the same              *)
(* (flash.rs: enter_bootloader; lib.rs: select_bootloader_port).           *)
(* A second board, which answers no Hello, may be plugged in at any time.  *)
(***************************************************************************)
EXTENDS FiniteSets, Naturals

CONSTANTS
    None,
    Pad, Other,     \* the boards
    Sockets, Names, \* USB sockets, and the port names the platform gives out
    MaxPlugs        \* bound: boards plugged in or pulled out

PortConstants ==
    /\ Pad # Other /\ None \notin {Pad, Other} \cup Sockets \cup Names
    /\ None \notin {"app", "rom", "to rom", "to app", "trigger", "look", "took"}
    /\ MaxPlugs \in Nat

Boards == {Pad, Other}
Triggers == 2       \* BOOT_TRIGGERS

VARIABLES
    plat,    \* what the platform reports: of an app port, of a ROM port, paths
    dev,     \* the boards: socket, port name, mode, whether it answers yet
    probes,  \* ProbeHistory: ports not due for a Hello
    held,    \* the port the worker is connected on
    flash,   \* enter_bootloader: step, port, PadLocation, preexisting, trigger
    came,    \* boards that entered download mode since the flash looked first
    plugs    \* bound left

pvars == <<plat, dev, probes, held, flash, came, plugs>>

Unplugged == [socket |-> None, name |-> None, mode |-> None, ready |-> FALSE]
NoFlash == [at |-> None, port |-> None, mac |-> None, path |-> None, socket |-> None,
            pre |-> {}, tries |-> 0, fired |-> FALSE, took |-> None]

PortsInit ==
    /\ plat \in [app : {"strings", "bare", "unknown"}, macs : BOOLEAN, paths : BOOLEAN]
    /\ dev = [b \in Boards |-> Unplugged]
    /\ probes = {} /\ held = None /\ flash = NoFlash /\ came = {}
    /\ plugs = MaxPlugs

Named == {b \in Boards : dev[b].name # None}
FreeNames == Names \ {dev[b].name : b \in Named}
At(name) == CHOOSE b \in Named : dev[b].name = name
Present(name) == \E b \in Named : dev[b].name = name

-----------------------------------------------------------------------------
(* The boards *)

\* A board is plugged in: the pad boots its app, the other one either way
Plug(b, mode) ==
    /\ dev[b].socket = None /\ plugs > 0 /\ plugs' = plugs - 1
    /\ mode = "rom" => b = Other
    /\ \E s \in Sockets \ {dev[o].socket : o \in Boards}, n \in FreeNames :
         dev' = [dev EXCEPT ![b] = [socket |-> s, name |-> n, mode |-> mode,
                                    ready |-> FALSE]]
    /\ came' = IF mode = "rom" THEN came \cup {b} ELSE came
    /\ UNCHANGED <<plat, probes, held, flash>>

Unplug(b) ==
    /\ dev[b].socket # None /\ plugs > 0 /\ plugs' = plugs - 1
    /\ dev' = [dev EXCEPT ![b] = Unplugged]
    /\ UNCHANGED <<plat, probes, held, flash, came>>

\* The pad's app answers Hello from here on
Boots ==
    /\ dev[Pad].mode = "app" /\ ~dev[Pad].ready
    /\ dev' = [dev EXCEPT ![Pad].ready = TRUE]
    /\ UNCHANGED <<plat, probes, held, flash, came, plugs>>

\* The rebooting pad enumerates again, under whatever name is free
Enumerates ==
    /\ dev[Pad].mode \in {"to rom", "to app"}
    /\ LET mode == IF dev[Pad].mode = "to rom" THEN "rom" ELSE "app" IN
       /\ \E n \in FreeNames : dev' = [dev EXCEPT ![Pad].mode = mode, ![Pad].name = n]
       /\ came' = IF mode = "rom" THEN came \cup {Pad} ELSE came
    /\ UNCHANGED <<plat, probes, held, flash, plugs>>

-----------------------------------------------------------------------------
(* Discovery *)

\* classify_port, of the boards in app mode; a ROM port is never opened
ClassOf(b) ==
    IF dev[b].mode # "app" THEN "skip"
    ELSE IF plat.app # "strings" THEN "probe"
    ELSE IF b = Pad THEN "opad" ELSE "skip"

\* Mutant: a port that no string names is never asked
DueOnce(name) == name \notin probes /\ plat.app # "bare"

Due(name) == name \notin probes

\* PROBE_RETRY_KNOWN_VID has passed: a port with the pad's VID is due again
DueAgain(n) ==
    /\ plat.app = "bare" /\ n \in probes /\ probes' = probes \ {n}
    /\ UNCHANGED <<plat, dev, held, flash, came, plugs>>

Candidates == {dev[b].name : b \in {o \in Named : ClassOf(o) = "probe"}}

\* discover_port: strings first, else every candidate that is due is sent Hello
\* until one answers with an OSUPAD id
Discover ==
    /\ held = None /\ flash.at = None
    /\ LET live == {n \in probes : Present(n)}
           due  == {n \in Candidates : Due(n)} IN
       IF ClassOf(Pad) = "opad"
         THEN held' = dev[Pad].name /\ probes' = live
         ELSE IF dev[Pad].ready /\ dev[Pad].name \in due
                THEN /\ held' = dev[Pad].name
                     /\ \E before \in SUBSET (due \ {dev[Pad].name}) :
                          probes' = live \cup before \cup {dev[Pad].name}
                ELSE held' = None /\ probes' = live \cup due
    /\ <<held', probes'>> # <<held, probes>>
    /\ UNCHANGED <<plat, dev, flash, came, plugs>>

\* The worker's read fails: the port is gone, or another board's
Lost ==
    /\ held # None /\ held # dev[Pad].name /\ held' = None
    /\ UNCHANGED <<plat, dev, probes, flash, came, plugs>>

-----------------------------------------------------------------------------
(* Into the bootloader *)

\* A flash pauses the worker and takes the port it was connected on
Ask ==
    /\ held # None /\ flash.at = None
    /\ flash' = [NoFlash EXCEPT !.at = "asked", !.port = held]
    /\ held' = None /\ came' = {}
    /\ UNCHANGED <<plat, dev, probes, plugs>>

RomPorts == {dev[b].name : b \in {o \in Named : dev[o].mode = "rom" /\ plat.app # "unknown"}}
MacOf(name) == IF plat.macs THEN At(name) ELSE None
PathOf(name) == IF plat.paths /\ Present(name) THEN dev[At(name)].socket ELSE None

\* locate_pad, and the bootloader ports that were there before. A port that is
\* itself a bootloader's is used as it is.
Locate ==
    /\ flash.at = "asked"
    /\ IF flash.port \in RomPorts
         THEN flash' = [flash EXCEPT !.at = "given", !.took = At(flash.port)]
         ELSE flash' = [flash EXCEPT !.at = "trigger", !.mac = Pad,
                          !.path = PathOf(flash.port), !.pre = RomPorts,
                          !.socket = IF Present(flash.port) THEN dev[At(flash.port)].socket
                                     ELSE None]
    /\ came' = {}
    /\ UNCHANGED <<plat, dev, probes, held, plugs>>

Same(a, b) == a = b /\ a # None
Differs(a, b) == a # b /\ a # None /\ b # None

Proven == {n \in RomPorts : Same(MacOf(n), flash.mac) \/ Same(PathOf(n), flash.path)}
UnprovenNew == RomPorts \ flash.pre
Unproven ==
    {n \in RomPorts : ~Differs(MacOf(n), flash.mac) /\ ~Differs(PathOf(n), flash.path)}
      \ flash.pre

\* select_bootloader_port: the ports it may answer with; more than one that
\* nothing tells apart is refused as ambiguous
Matches == IF Proven # {} THEN Proven ELSE Unproven
Ambiguous == Proven = {} /\ Cardinality(Unproven) > 1

\* pick, and what follows when it finds nothing
Pick(f, otherwise) ==
    IF Ambiguous THEN flash' = [f EXCEPT !.at = "failed"]
    ELSE IF Matches # {} THEN \E n \in Matches : flash' = [f EXCEPT !.at = "took", !.took = At(n)]
    ELSE otherwise

NextTrigger(f) == flash' = [f EXCEPT !.at = "trigger", !.tries = @ + 1]

\* The next trigger: not before a look whether an earlier one landed late
Trigger ==
    /\ flash.at = "trigger" /\ flash.tries < Triggers
    /\ IF flash.fired /\ (Ambiguous \/ Matches # {})
         THEN Pick(flash, FALSE) /\ UNCHANGED dev
         ELSE IF ~Present(flash.port)
           THEN NextTrigger(flash) /\ UNCHANGED dev
           ELSE /\ flash' = [flash EXCEPT !.at = "look", !.fired = TRUE]
                /\ \/ /\ dev[Pad].name = flash.port /\ dev[Pad].mode = "app"
                      /\ dev' = [dev EXCEPT ![Pad] = [@ EXCEPT !.mode = "to rom",
                                                      !.name = None, !.ready = FALSE]]
                   \/ UNCHANGED dev
    /\ UNCHANGED <<plat, probes, held, came, plugs>>

\* 3 s of looking after each trigger
Look ==
    /\ flash.at = "look" /\ Pick(flash, FALSE)
    /\ UNCHANGED <<plat, dev, probes, held, came, plugs>>
LookOver ==
    /\ flash.at = "look" /\ NextTrigger(flash)
    /\ UNCHANGED <<plat, dev, probes, held, came, plugs>>

GivesUp ==
    /\ flash.at = "trigger" /\ flash.tries = Triggers
    /\ IF flash.fired THEN Pick(flash, flash' = [flash EXCEPT !.at = "failed"])
       ELSE flash' = [flash EXCEPT !.at = "failed"]
    /\ UNCHANGED <<plat, dev, probes, held, came, plugs>>

\* Written and reset into the app, or refused: the worker runs again
FlashOver ==
    /\ flash.at \in {"took", "given", "failed"} /\ flash' = NoFlash
    /\ dev' = IF flash.took = Pad /\ dev[Pad].mode = "rom"
                THEN [dev EXCEPT ![Pad].mode = "to app", ![Pad].name = None] ELSE dev
    /\ UNCHANGED <<plat, probes, held, came, plugs>>

FlashSteps == Locate \/ Trigger \/ Look \/ LookOver \/ GivesUp \/ FlashOver

PortsNext ==
    \/ \E b \in Boards : (\E mode \in {"app", "rom"} : Plug(b, mode)) \/ Unplug(b)
    \/ Boots \/ Enumerates \/ (\E n \in Names : DueAgain(n)) \/ Discover \/ Lost \/ Ask \/ FlashSteps

PortsFairness ==
    /\ WF_pvars(Boots) /\ WF_pvars(Enumerates) /\ WF_pvars(Discover)
    /\ (\A n \in Names : WF_pvars(DueAgain(n))) /\ WF_pvars(Lost) /\ WF_pvars(FlashSteps)

PortsSpec == PortsInit /\ [][PortsNext]_pvars /\ PortsFairness

-----------------------------------------------------------------------------
(* Properties *)

PortsTypeOK ==
    /\ dev \in [Boards -> [socket : Sockets \cup {None}, name : Names \cup {None},
                           mode : {"app", "rom", "to rom", "to app", None}, ready : BOOLEAN]]
    /\ probes \subseteq Names /\ held \in Names \cup {None}
    /\ flash.at \in {None, "asked", "trigger", "look", "took", "given", "failed"}
    /\ came \subseteq Boards /\ plugs \in 0 .. MaxPlugs

\* Another board in download mode is never taken for the pad, unless the port
\* asked for was its own, it was put into the pad's socket, or the platform
\* reports nothing that tells the two apart and it came up while the pad was
\* awaited.
NeverAStranger ==
    flash.at # "took" /\ flash'.at = "took" /\ flash'.took = Other =>
        \/ plat.paths /\ dev[Other].socket = flash.socket
        \/ ~plat.macs /\ flash.path = None /\ Other \in came

\* A pad that stays plugged in with its app running is found, however often it
\* was too early to answer and whatever else is on the bus, as long as the
\* platform reports at least its vendor id and no flash is asked for again.
AppRuns == dev[Pad].mode = "app" /\ plat.app # "unknown" /\ flash.at = None
Found == held # None /\ held = dev[Pad].name
===============================================================================
