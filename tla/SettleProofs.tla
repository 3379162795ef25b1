---------------------------- MODULE SettleProofs ----------------------------
(***************************************************************************)
(* Proofs about the parts of MCSettle, for every value of the constants:   *)
(* the pad's port, the releases and what installs of them, the switches    *)
(* and forms of the window, its log, the tap history and the migrations.   *)
(*                                                                         *)
(* Each part has an inductive invariant of its own; SettleInv says that    *)
(* the part that moves keeps its one.                                      *)
(***************************************************************************)
EXTENDS ChecksProofs, FiniteSetTheorems, WellFoundedInduction, TLAPS

-----------------------------------------------------------------------------
(* Ports: which bootloader the flasher takes *)

PortModes == {"app", "rom", "to rom", "to app", None}
PortBoards == [socket : Sockets \cup {None}, name : Names \cup {None}, mode : PortModes,
               ready : BOOLEAN]
PortFlashes == [at : {None, "asked", "trigger", "look", "took", "given", "failed"},
                port : Names \cup {None}, mac : {Pad, None}, path : Sockets \cup {None},
                socket : Sockets \cup {None}, pre : SUBSET Names, tries : Nat,
                fired : BOOLEAN, took : {Pad, Other, None}]

PortTypes ==
    /\ dev \in [Ports!Boards -> PortBoards] /\ held \in Names \cup {None}
    /\ flash \in PortFlashes

\* Two boards never have one name, and a board that is on the bus has a socket
Apart ==
    /\ dev[Pad].name # None => dev[Pad].name # dev[Other].name
    /\ \A b \in Ports!Boards : dev[b].socket = None => dev[b].name = None /\ dev[b].mode = None

\* While the pad is awaited: what is known of it, and which strangers were there
Awaited ==
    flash.at \in {"trigger", "look"} =>
        /\ flash.mac = Pad
        /\ flash.path # None => plat.paths /\ flash.path = flash.socket
        /\ Other \notin came /\ dev[Other].mode = "rom" /\ dev[Other].name # None
             /\ plat.app # "unknown" => dev[Other].name \in flash.pre

PortIInv == PortTypes /\ Apart /\ Awaited

LEMMA PortBoardsAre == Ports!Boards = {Pad, Other} /\ Pad # Other /\ None \notin {Pad, Other}
BY PortAssumption DEF Ports!PortConstants, Ports!Boards

LEMMA NoneIsNoPlace ==
    /\ None \notin Sockets /\ None \notin Names
    /\ None \notin {"app", "rom", "to rom", "to app", "trigger", "look", "took"}
BY PortAssumption DEF Ports!PortConstants

LEMMA PortInitial ==
    ASSUME Ports!PortsInit
    PROVE  PortIInv
<1>1. Ports!Unplugged \in PortBoards
    BY DEF Ports!Unplugged, PortBoards, PortModes
<1>2. Ports!NoFlash \in PortFlashes /\ Ports!NoFlash.at = None
    BY DEF Ports!NoFlash, PortFlashes
<1>3. \A b \in Ports!Boards : dev[b] = Ports!Unplugged
    BY DEF Ports!PortsInit
<1>4. \A b \in Ports!Boards : dev[b].name = None /\ dev[b].mode = None
    BY <1>3 DEF Ports!Unplugged
<1>5. PortTypes
    BY <1>1, <1>2 DEF Ports!PortsInit, PortTypes
<1>6. Apart
    BY <1>4, PortBoardsAre DEF Apart
<1>7. Awaited
    BY <1>2, NoneIsNoPlace DEF Ports!PortsInit, Awaited
<1>. QED BY <1>5, <1>6, <1>7 DEF PortIInv

\* The name of a port tells its board
LEMMA AtIs ==
    ASSUME PortIInv, NEW b \in Ports!Boards, dev[b].name # None
    PROVE  Ports!Present(dev[b].name) /\ Ports!At(dev[b].name) = b
<1>1. b \in Ports!Named
    BY DEF Ports!Named
<1>2. \A o \in Ports!Named : dev[o].name = dev[b].name => o = b
    BY PortBoardsAre DEF PortIInv, Apart, Ports!Named
<1>. QED BY <1>1, <1>2 DEF Ports!Present, Ports!At

LEMMA AtBoard ==
    ASSUME NEW n, Ports!Present(n)
    PROVE  Ports!At(n) \in Ports!Boards /\ dev[Ports!At(n)].name = n
BY DEF Ports!Present, Ports!At, Ports!Named

\* What a flash may take, looked at before anything is taken
LEMMA MatchIs ==
    ASSUME PortIInv, flash.at \in {"trigger", "look"},
           NEW n \in Ports!Matches, Ports!At(n) = Other
    PROVE  \/ plat.paths /\ dev[Other].socket = flash.socket
           \/ ~plat.macs /\ flash.path = None /\ Other \in came
<1>1. n \in Ports!RomPorts
    BY DEF Ports!Matches, Ports!Proven, Ports!Unproven
<1>2. PICK b \in Ports!Boards : dev[b].name = n /\ n # None /\ dev[b].mode = "rom"
                                /\ plat.app # "unknown"
    BY <1>1 DEF Ports!RomPorts, Ports!Named
<1>3. b = Other /\ Ports!Present(n)
    BY <1>2, AtIs
<1>4. flash.mac = Pad
    BY DEF PortIInv, Awaited
<1>5. dev[Other].socket # None
    BY <1>2, <1>3 DEF PortIInv, Apart
<1>6. Ports!PathOf(n) = IF plat.paths THEN dev[Other].socket ELSE None
    BY <1>3 DEF Ports!PathOf
<1>7. CASE Ports!Same(Ports!PathOf(n), flash.path)
    BY <1>5, <1>6, <1>7 DEF Ports!Same, PortIInv, Awaited
<1>8. ~Ports!Same(Ports!MacOf(n), flash.mac)
    BY <1>4, PortBoardsAre DEF Ports!Same, Ports!MacOf
<1>9. CASE ~Ports!Same(Ports!PathOf(n), flash.path)
    <2>1. /\ ~Ports!Differs(Ports!MacOf(n), flash.mac)
          /\ ~Ports!Differs(Ports!PathOf(n), flash.path)
          /\ n \notin flash.pre
        BY <1>8, <1>9 DEF Ports!Matches, Ports!Proven, Ports!Unproven
    <2>2. ~plat.macs
        BY <1>4, <2>1, PortBoardsAre DEF Ports!Differs, Ports!MacOf
    <2>3. flash.path = None
        BY <1>5, <1>6, <1>9, <2>1 DEF Ports!Differs, Ports!Same, PortIInv, Awaited
    <2>4. Other \in came
        BY <1>2, <1>3, <2>1 DEF PortIInv, Awaited
    <2>. QED BY <2>2, <2>3, <2>4
<1>. QED BY <1>7, <1>9

\* A flash that looks fails, takes a match or goes on
LEMMA PickIs ==
    ASSUME NEW f \in PortFlashes, NEW otherwise \in BOOLEAN, Ports!Pick(f, otherwise)
    PROVE  \/ flash' = [f EXCEPT !.at = "failed"]
           \/ \E n \in Ports!Matches : flash' = [f EXCEPT !.at = "took", !.took = Ports!At(n)]
           \/ otherwise
BY DEF Ports!Pick

LEMMA MatchesAreBoards ==
    ASSUME NEW n \in Ports!Matches
    PROVE  Ports!At(n) \in {Pad, Other}
<1>1. n \in Ports!RomPorts
    BY DEF Ports!Matches, Ports!Proven, Ports!Unproven
<1>2. Ports!Present(n)
    BY <1>1 DEF Ports!RomPorts, Ports!Present
<1>. QED BY <1>2, AtBoard, PortBoardsAre

\* What a step of the flash does to it
FlashGoes ==
    \/ flash' = [flash EXCEPT !.at = "failed"]
    \/ /\ flash.at \in {"trigger", "look"}
       /\ \E n \in Ports!Matches : flash' = [flash EXCEPT !.at = "took", !.took = Ports!At(n)]
    \/ flash.at \in {"trigger", "look"} /\ flash' = [flash EXCEPT !.at = "trigger", !.tries = @ + 1]
    \/ flash.at \in {"trigger", "look"} /\ flash' = [flash EXCEPT !.at = "look", !.fired = TRUE]

LEMMA SearchGoes ==
    ASSUME PortIInv, Ports!Trigger \/ Ports!Look \/ Ports!LookOver \/ Ports!GivesUp
    PROVE  FlashGoes
<1>0. flash \in PortFlashes /\ flash.at \in {"trigger", "look"}
    BY DEF PortIInv, PortTypes, Ports!Trigger, Ports!Look, Ports!LookOver, Ports!GivesUp
<1>1. CASE Ports!Trigger
    BY <1>0, <1>1 DEF Ports!Trigger, Ports!Pick, Ports!NextTrigger, FlashGoes
<1>2. CASE Ports!Look
    BY <1>0, <1>2 DEF Ports!Look, Ports!Pick, FlashGoes
<1>3. CASE Ports!LookOver
    BY <1>0, <1>3 DEF Ports!LookOver, Ports!NextTrigger, FlashGoes
<1>4. CASE Ports!GivesUp
    BY <1>0, <1>4 DEF Ports!GivesUp, Ports!Pick, FlashGoes
<1>. QED BY <1>1, <1>2, <1>3, <1>4

LEMMA FlashTyped ==
    ASSUME PortIInv, FlashGoes
    PROVE  /\ flash' \in PortFlashes
           /\ flash'.at \in {"trigger", "look"} =>
                 /\ flash.at \in {"trigger", "look"} /\ flash'.mac = flash.mac
                 /\ flash'.path = flash.path /\ flash'.socket = flash.socket
                 /\ flash'.pre = flash.pre
<1>1. flash \in PortFlashes
    BY DEF PortIInv, PortTypes
<1>2. CASE flash' = [flash EXCEPT !.at = "failed"]
    BY <1>1, <1>2 DEF PortFlashes
<1>3. ASSUME NEW n \in Ports!Matches, flash' = [flash EXCEPT !.at = "took", !.took = Ports!At(n)]
      PROVE  flash' \in PortFlashes /\ flash'.at = "took"
    <2> DEFINE b == Ports!At(n)
    <2>1. b \in {Pad, Other} /\ flash' = [flash EXCEPT !.at = "took", !.took = b]
        BY <1>3, MatchesAreBoards
    <2>. HIDE DEF b
    <2>. QED BY <1>1, <2>1 DEF PortFlashes
<1>4. CASE flash.at \in {"trigger", "look"} /\ flash' = [flash EXCEPT !.at = "trigger", !.tries = @ + 1]
    <2> DEFINE t == flash.tries + 1
    <2>1. t \in Nat /\ flash' = [flash EXCEPT !.at = "trigger", !.tries = t]
        BY <1>1, <1>4 DEF PortFlashes
    <2>. HIDE DEF t
    <2>. QED BY <1>1, <1>4, <2>1 DEF PortFlashes
<1>5. CASE flash.at \in {"trigger", "look"} /\ flash' = [flash EXCEPT !.at = "look", !.fired = TRUE]
    BY <1>1, <1>5 DEF PortFlashes
<1>. QED BY <1>2, <1>3, <1>4, <1>5 DEF FlashGoes

\* Where the boards are moves by itself; strangers come up into `came`
LEMMA BoardsMove ==
    ASSUME PortIInv, UNCHANGED <<plat, flash>>, PortTypes', Apart',
           \/ dev'[Other] = dev[Other]
           \/ Other \in came'
           \/ dev'[Other].mode # "rom" \/ dev'[Other].name = None,
           came \subseteq came'
    PROVE  PortIInv'
BY DEF PortIInv, Awaited

LEMMA PlugStep ==
    ASSUME PortIInv, NEW b \in Ports!Boards,
           (\E mode \in {"app", "rom"} : Ports!Plug(b, mode)) \/ Ports!Unplug(b)
    PROVE  PortIInv'
<1>1. UNCHANGED <<plat, flash, held>>
    BY DEF Ports!Plug, Ports!Unplug
<1>2. ASSUME NEW mode \in {"app", "rom"}, Ports!Plug(b, mode) PROVE PortIInv'
    <2>1. PICK s \in Sockets, n \in Names :
              /\ \A o \in Ports!Boards : dev[o].name # n
              /\ dev' = [dev EXCEPT ![b] = [socket |-> s, name |-> n, mode |-> mode, ready |-> FALSE]]
        <3>1. \A o \in Ports!Boards : dev[o].name # None => o \in Ports!Named
            BY DEF Ports!Named
        <3>. QED BY <1>2, <3>1, NoneIsNoPlace DEF Ports!Plug, Ports!FreeNames
    <2>2. [socket |-> s, name |-> n, mode |-> mode, ready |-> FALSE] \in PortBoards
        BY DEF PortBoards, PortModes
    <2>3. PortTypes'
        BY <1>1, <2>1, <2>2 DEF PortIInv, PortTypes
    <2>4. \A o \in Ports!Boards : dev'[o] = IF o = b THEN [socket |-> s, name |-> n, mode |-> mode, ready |-> FALSE] ELSE dev[o]
        BY <2>1 DEF PortIInv, PortTypes
    <2>5. Apart'
        <3>1. \A o \in Ports!Boards :
                  /\ dev'[o].name = IF o = b THEN n ELSE dev[o].name
                  /\ dev'[o].socket = IF o = b THEN s ELSE dev[o].socket
                  /\ o # b => dev'[o].mode = dev[o].mode
            BY <2>4
        <3>2. Pad \in Ports!Boards /\ Other \in Ports!Boards
            BY PortBoardsAre
        <3>3. dev'[Pad].name # None => dev'[Pad].name # dev'[Other].name
            BY <2>1, <3>1, <3>2, PortBoardsAre DEF PortIInv, Apart
        <3>4. \A o \in Ports!Boards : dev'[o].socket = None => dev'[o].name = None /\ dev'[o].mode = None
            BY <3>1, NoneIsNoPlace DEF PortIInv, Apart
        <3>. QED BY <3>3, <3>4 DEF Apart
    <2>6. came \subseteq came' /\ (mode = "rom" => b \in came')
        BY <1>2 DEF Ports!Plug
    <2>7. dev'[Other] = dev[Other] \/ Other \in came' \/ dev'[Other].mode # "rom"
        BY <2>4, <2>6, PortBoardsAre
    <2>. QED BY <1>1, <2>3, <2>5, <2>6, <2>7, BoardsMove
<1>3. CASE Ports!Unplug(b)
    <2>1. dev' = [dev EXCEPT ![b] = Ports!Unplugged] /\ came' = came
        BY <1>3 DEF Ports!Unplug
    <2>2. Ports!Unplugged \in PortBoards /\ Ports!Unplugged.name = None /\ Ports!Unplugged.mode = None
        BY DEF Ports!Unplugged, PortBoards, PortModes
    <2>3. PortTypes'
        BY <1>1, <2>1, <2>2 DEF PortIInv, PortTypes
    <2>4. \A o \in Ports!Boards : dev'[o] = IF o = b THEN Ports!Unplugged ELSE dev[o]
        BY <2>1 DEF PortIInv, PortTypes
    <2>5. Apart'
        BY <2>2, <2>4, PortBoardsAre DEF PortIInv, Apart
    <2>6. dev'[Other] = dev[Other] \/ dev'[Other].name = None
        BY <2>2, <2>4, PortBoardsAre
    <2>. QED BY <1>1, <2>1, <2>3, <2>5, <2>6, BoardsMove
<1>. QED BY <1>2, <1>3

\* The pad boots, enumerates, and the worker finds and loses it
LEMMA PadStep ==
    ASSUME PortIInv,
           \/ Ports!Boots \/ Ports!Enumerates \/ Ports!Discover \/ Ports!Lost
           \/ \E n \in Names : Ports!DueAgain(n)
    PROVE  PortIInv'
<1>0. Pad \in Ports!Boards /\ Other \in Ports!Boards /\ dev[Pad] \in PortBoards
    BY PortBoardsAre DEF PortIInv, PortTypes
<1>1. CASE Ports!Boots
    <2>1. UNCHANGED <<plat, flash, held, came>> /\ dev' = [dev EXCEPT ![Pad].ready = TRUE]
        BY <1>1 DEF Ports!Boots
    <2>2. \A o \in Ports!Boards : dev'[o] = IF o = Pad THEN [dev[Pad] EXCEPT !.ready = TRUE] ELSE dev[o]
        BY <2>1 DEF PortIInv, PortTypes
    <2>3. /\ [dev[Pad] EXCEPT !.ready = TRUE] \in PortBoards
          /\ [dev[Pad] EXCEPT !.ready = TRUE].name = dev[Pad].name
          /\ [dev[Pad] EXCEPT !.ready = TRUE].mode = dev[Pad].mode
          /\ [dev[Pad] EXCEPT !.ready = TRUE].socket = dev[Pad].socket
        BY <1>0 DEF PortBoards
    <2>4. PortTypes'
        BY <1>0, <2>1, <2>3 DEF PortIInv, PortTypes
    <2>5. Apart'
        BY <1>0, <2>2, <2>3, PortBoardsAre DEF PortIInv, Apart
    <2>. QED BY <1>0, <2>1, <2>2, <2>4, <2>5, PortBoardsAre, BoardsMove
<1>2. CASE Ports!Enumerates
    <2>1. PICK n \in Names, mode \in {"rom", "app"} :
              /\ \A o \in Ports!Boards : dev[o].name # n
              /\ dev' = [dev EXCEPT ![Pad].mode = mode, ![Pad].name = n]
        <3>1. \A o \in Ports!Boards : dev[o].name # None => o \in Ports!Named
            BY DEF Ports!Named
        <3>. QED BY <1>2, <3>1, NoneIsNoPlace DEF Ports!Enumerates, Ports!FreeNames
    <2> DEFINE p == [dev[Pad] EXCEPT !.mode = mode, !.name = n]
    <2>2. p \in PortBoards /\ p.name = n /\ p.socket = dev[Pad].socket
        BY <1>0 DEF PortBoards, PortModes
    <2>3. dev' = [dev EXCEPT ![Pad] = p]
        BY <1>0, <2>1 DEF PortIInv, PortTypes, PortBoards
    <2>. HIDE DEF p
    <2>4. UNCHANGED <<plat, flash, held>> /\ came \subseteq came' /\ dev[Pad].mode \in {"to rom", "to app"}
        BY <1>2 DEF Ports!Enumerates
    <2>5. \A o \in Ports!Boards : dev'[o] = IF o = Pad THEN p ELSE dev[o]
        BY <2>3 DEF PortIInv, PortTypes
    <2>6. PortTypes'
        BY <2>2, <2>3, <2>4 DEF PortIInv, PortTypes
    <2>7. dev[Pad].socket # None
        BY <1>0, <2>4, NoneIsNoPlace DEF PortIInv, Apart
    <2>8. Apart'
        BY <1>0, <2>1, <2>2, <2>5, <2>7, PortBoardsAre DEF PortIInv, Apart
    <2>. QED BY <1>0, <2>4, <2>5, <2>6, <2>8, PortBoardsAre, BoardsMove
<1>3. CASE Ports!Discover \/ Ports!Lost \/ \E n \in Names : Ports!DueAgain(n)
    <2>1. UNCHANGED <<plat, flash, dev, came>>
        BY <1>3 DEF Ports!Discover, Ports!Lost, Ports!DueAgain
    <2>2. held' \in Names \cup {None}
        <3>1. held' \in {held, dev[Pad].name, None}
            BY <1>3 DEF Ports!Discover, Ports!Lost, Ports!DueAgain
        <3>. QED BY <1>0, <3>1 DEF PortIInv, PortTypes, PortBoards
    <2>3. PortTypes' /\ Apart'
        BY <2>1, <2>2 DEF PortIInv, PortTypes, Apart
    <2>. QED BY <2>1, <2>3, BoardsMove
<1>. QED BY <1>1, <1>2, <1>3

\* A flash begins: no stranger has come up since, and the bootloaders that are
\* there are remembered
LEMMA BeginsFlash ==
    ASSUME PortIInv, Ports!Ask \/ Ports!Locate
    PROVE  PortIInv'
<1>0. dev' = dev /\ plat' = plat /\ came' = {}
    BY DEF Ports!Ask, Ports!Locate
<1>1. CASE Ports!Ask
    <2>1. flash' = [Ports!NoFlash EXCEPT !.at = "asked", !.port = held] /\ held' = None
        BY <1>1 DEF Ports!Ask
    <2>2. flash' \in PortFlashes /\ flash'.at = "asked"
        BY <2>1 DEF Ports!NoFlash, PortFlashes, PortIInv, PortTypes
    <2>. QED BY <1>0, <2>1, <2>2 DEF PortIInv, PortTypes, Apart, Awaited
<1>2. CASE Ports!Locate
    <2>0. flash \in PortFlashes /\ held' = held
        BY <1>2 DEF PortIInv, PortTypes, Ports!Locate
    <2>1. CASE flash.port \in Ports!RomPorts
        <3> DEFINE b == Ports!At(flash.port)
        <3>1. b \in {Pad, Other}
            BY <2>1, AtBoard, PortBoardsAre DEF Ports!RomPorts, Ports!Present
        <3>2. flash' = [flash EXCEPT !.at = "given", !.took = b]
            BY <1>2, <2>1 DEF Ports!Locate
        <3>. HIDE DEF b
        <3>3. flash' \in PortFlashes /\ flash'.at = "given"
            BY <2>0, <3>1, <3>2 DEF PortFlashes
        <3>. QED BY <1>0, <2>0, <3>3 DEF PortIInv, PortTypes, Apart, Awaited
    <2>2. CASE flash.port \notin Ports!RomPorts
        <3> DEFINE path == Ports!PathOf(flash.port)
                   sock == IF Ports!Present(flash.port) THEN dev[Ports!At(flash.port)].socket ELSE None
        <3>1. flash' = [flash EXCEPT !.at = "trigger", !.mac = Pad, !.path = path,
                                     !.pre = Ports!RomPorts, !.socket = sock]
            BY <1>2, <2>2 DEF Ports!Locate
        <3>2. sock \in Sockets \cup {None}
            BY AtBoard DEF PortIInv, PortTypes, PortBoards
        <3>3. path = (IF plat.paths THEN sock ELSE None)
            BY DEF Ports!PathOf
        <3>4. path \in Sockets \cup {None} /\ (path # None => plat.paths /\ path = sock)
            BY <3>2, <3>3
        <3>5. Ports!RomPorts \subseteq Names
            BY DEF Ports!RomPorts, Ports!Named, PortIInv, PortTypes, PortBoards
        <3>6. dev[Other].mode = "rom" /\ dev[Other].name # None /\ plat.app # "unknown"
                => dev[Other].name \in Ports!RomPorts
            BY PortBoardsAre DEF Ports!RomPorts, Ports!Named
        <3>. HIDE DEF path, sock
        <3>7. /\ flash' \in PortFlashes /\ flash'.mac = Pad /\ flash'.path = path
              /\ flash'.socket = sock /\ flash'.pre = Ports!RomPorts
            BY <2>0, <3>1, <3>2, <3>4, <3>5 DEF PortFlashes
        <3>8. Awaited'
            BY <1>0, <3>4, <3>6, <3>7 DEF Awaited
        <3>. QED BY <1>0, <2>0, <3>7, <3>8 DEF PortIInv, PortTypes, Apart
    <2>. QED BY <2>1, <2>2
<1>. QED BY <1>1, <1>2

\* The flasher's own steps: only the pad moves, into its bootloader and back
LEMMA FlashStep ==
    ASSUME PortIInv,
           Ports!Trigger \/ Ports!Look \/ Ports!LookOver \/ Ports!GivesUp \/ Ports!FlashOver
    PROVE  PortIInv'
<1>0. /\ Pad \in Ports!Boards /\ Other \in Ports!Boards /\ dev[Pad] \in PortBoards
      /\ UNCHANGED <<plat, held, came>>
    BY PortBoardsAre DEF PortIInv, PortTypes, Ports!Trigger, Ports!Look, Ports!LookOver,
                         Ports!GivesUp, Ports!FlashOver
<1>1. /\ flash' \in PortFlashes
      /\ flash'.at \in {"trigger", "look"} =>
            /\ flash.at \in {"trigger", "look"} /\ flash'.mac = flash.mac
            /\ flash'.path = flash.path /\ flash'.socket = flash.socket
            /\ flash'.pre = flash.pre
    <2>1. CASE Ports!FlashOver
        BY <2>1, NoneIsNoPlace DEF Ports!FlashOver, Ports!NoFlash, PortFlashes
    <2>2. CASE ~Ports!FlashOver
        BY <2>2, SearchGoes, FlashTyped
    <2>. QED BY <2>1, <2>2
<1>2. \/ dev' = dev
      \/ dev[Pad].mode # None /\ \E mode \in {"to rom", "to app"}, ready \in BOOLEAN :
            dev' = [dev EXCEPT ![Pad] = [@ EXCEPT !.mode = mode, !.name = None, !.ready = ready]]
    <2>1. CASE Ports!Trigger
        BY <2>1, NoneIsNoPlace DEF Ports!Trigger
    <2>2. CASE Ports!Look \/ Ports!LookOver \/ Ports!GivesUp
        BY <2>2 DEF Ports!Look, Ports!LookOver, Ports!GivesUp
    <2>3. CASE Ports!FlashOver
        <3>1. CASE dev' # dev
            <4>1. dev' = [dev EXCEPT ![Pad].mode = "to app", ![Pad].name = None] /\ dev[Pad].mode = "rom"
                BY <2>3, <3>1 DEF Ports!FlashOver
            <4>2. dev[Pad].ready \in BOOLEAN
                BY <1>0 DEF PortBoards
            <4>3. dev' = [dev EXCEPT ![Pad] = [dev[Pad] EXCEPT !.mode = "to app", !.name = None, !.ready = dev[Pad].ready]]
                BY <1>0, <4>1 DEF PortIInv, PortTypes, PortBoards
            <4>. QED BY <4>1, <4>2, <4>3, NoneIsNoPlace
        <3>. QED BY <3>1
    <2>. QED BY <2>1, <2>2, <2>3
<1>3. PortTypes' /\ Apart' /\ dev'[Other] = dev[Other]
    <2>1. CASE dev' = dev
        BY <1>0, <1>1, <2>1 DEF PortIInv, PortTypes, Apart
    <2>2. ASSUME NEW mode \in {"to rom", "to app"}, NEW ready \in BOOLEAN, dev[Pad].mode # None,
                 dev' = [dev EXCEPT ![Pad] = [@ EXCEPT !.mode = mode, !.name = None, !.ready = ready]]
          PROVE  PortTypes' /\ Apart' /\ dev'[Other] = dev[Other]
        <3> DEFINE p == [dev[Pad] EXCEPT !.mode = mode, !.name = None, !.ready = ready]
        <3>1. p \in PortBoards /\ p.name = None /\ p.socket = dev[Pad].socket
            BY <1>0 DEF PortBoards, PortModes
        <3>2. dev' = [dev EXCEPT ![Pad] = p]
            BY <2>2
        <3>. HIDE DEF p
        <3>3. \A o \in Ports!Boards : dev'[o] = IF o = Pad THEN p ELSE dev[o]
            BY <3>2 DEF PortIInv, PortTypes
        <3>4. PortTypes'
            BY <1>0, <1>1, <3>1, <3>2 DEF PortIInv, PortTypes
        <3>5. dev[Pad].socket # None
            BY <1>0, <2>2 DEF PortIInv, Apart
        <3>. QED BY <1>0, <3>1, <3>3, <3>4, <3>5, PortBoardsAre DEF PortIInv, Apart
    <2>. QED BY <1>2, <2>1, <2>2
<1>4. Awaited'
    BY <1>0, <1>1, <1>3 DEF PortIInv, Awaited
<1>. QED BY <1>3, <1>4 DEF PortIInv

LEMMA PortStep == PortIInv /\ [Ports!PortsNext]_pvars => PortIInv'
<1>. SUFFICES ASSUME PortIInv, [Ports!PortsNext]_pvars PROVE PortIInv'
    OBVIOUS
<1>1. CASE UNCHANGED pvars
    BY <1>1 DEF pvars, PortIInv, PortTypes, Apart, Awaited
<1>2. CASE Ports!PortsNext
    BY <1>2, PlugStep, PadStep, BeginsFlash, FlashStep DEF Ports!PortsNext, Ports!FlashSteps
<1>. QED BY <1>1, <1>2

\* A step that takes a port takes one of the matches
LEMMA StrangerStep == PortIInv /\ [Ports!PortsNext]_pvars => Ports!NeverAStranger
<1>. SUFFICES ASSUME PortIInv, [Ports!PortsNext]_pvars,
                     flash.at # "took", flash'.at = "took", flash'.took = Other
              PROVE  \/ plat.paths /\ dev[Other].socket = flash.socket
                     \/ ~plat.macs /\ flash.path = None /\ Other \in came
    BY DEF Ports!NeverAStranger
<1>0. flash \in PortFlashes
    BY DEF PortIInv, PortTypes
<1>1. Ports!Trigger \/ Ports!Look \/ Ports!LookOver \/ Ports!GivesUp
    <2>1. ASSUME flash' = flash PROVE FALSE
        BY <2>1
    <2>2. ASSUME Ports!Ask \/ Ports!Locate \/ Ports!FlashOver PROVE FALSE
        <3>1. CASE Ports!FlashOver
            BY <3>1, NoneIsNoPlace DEF Ports!FlashOver, Ports!NoFlash
        <3>2. CASE Ports!Ask
            BY <3>2 DEF Ports!Ask, Ports!NoFlash
        <3>3. CASE Ports!Locate
            <4>1. flash'.at = "given" \/ flash'.at = "trigger"
                <5> DEFINE b == Ports!At(flash.port)
                           path == Ports!PathOf(flash.port)
                           sock == IF Ports!Present(flash.port) THEN dev[Ports!At(flash.port)].socket ELSE None
                           pre == Ports!RomPorts
                <5>1. \/ flash' = [flash EXCEPT !.at = "given", !.took = b]
                      \/ flash' = [flash EXCEPT !.at = "trigger", !.mac = Pad, !.path = path,
                                                !.pre = pre, !.socket = sock]
                    BY <3>3 DEF Ports!Locate
                <5>. HIDE DEF b, path, sock, pre
                <5>. QED BY <1>0, <5>1 DEF PortFlashes
            <4>. QED BY <4>1
        <3>. QED BY <2>2, <3>1, <3>2, <3>3
    <2>. QED BY <2>1, <2>2
         DEF pvars, Ports!PortsNext, Ports!FlashSteps, Ports!Plug, Ports!Unplug, Ports!Boots,
             Ports!Enumerates, Ports!DueAgain, Ports!Discover, Ports!Lost
<1>2. FlashGoes
    BY <1>1, SearchGoes
<1>3. PICK n \in Ports!Matches : flash' = [flash EXCEPT !.at = "took", !.took = Ports!At(n)]
                                 /\ flash.at \in {"trigger", "look"}
    BY <1>0, <1>2 DEF FlashGoes, PortFlashes
<1>4. Ports!At(n) = Other
    BY <1>0, <1>3 DEF PortFlashes
<1>. QED BY <1>3, <1>4, MatchIs

-----------------------------------------------------------------------------
(* Releases: what a feed holds that an install may be served *)

\* Published releases its policy had not pulled, and on stable no pre-release
GoodFeed(f) ==
    \A t \in f.tags : /\ t \in Tags /\ feedHub[t] = "published" /\ t \notin f.pulled
                      /\ f.channel = Stable => t \notin Pre

FeedsGood ==
    /\ run # None => \A c \in Feed!Channels : GoodFeed(run[c])
    /\ \A c \in Feed!Channels : /\ site[c] # None => GoodFeed(site[c])
                                /\ stale[c] # None => GoodFeed(stale[c])

InstallHolds ==
    /\ inst = [channel |-> inst.channel, has |-> inst.has, seen |-> inst.seen,
               pulled |-> inst.pulled, feed |-> inst.feed, early |-> inst.early]
    /\ inst.channel \in Feed!Channels
    /\ inst.pulled = [c \in Feed!Channels |-> inst.pulled[c]]
    /\ inst.feed # None => /\ GoodFeed(inst.feed) /\ inst.feed.channel = inst.channel
                           /\ inst.feed.pulled = inst.pulled[inst.channel]

HubTyped == feedHub \in [Tags -> {"none", "draft", "published"}]

FeedIInv == HubTyped /\ FeedsGood /\ InstallHolds

LEMMA FeedInitial ==
    ASSUME Feed!FeedInit
    PROVE  FeedIInv
<1>1. HubTyped
    BY DEF Feed!FeedInit, HubTyped
<1>2. FeedsGood
    BY DEF Feed!FeedInit, FeedsGood
<1>3. PICK early \in BOOLEAN :
        inst = [channel |-> Stable, has |-> [x \in Feed!Tracks |-> None],
                seen |-> [c \in Feed!Channels |-> 0],
                pulled |-> [c \in Feed!Channels |-> {}], feed |-> None, early |-> early]
    BY DEF Feed!FeedInit
<1>4. Stable \in Feed!Channels
    BY DEF Feed!Channels
<1>5. InstallHolds
    BY <1>3, <1>4 DEF InstallHolds
<1>. QED BY <1>1, <1>2, <1>5 DEF FeedIInv

\* A feed stays good: nothing unpublishes a release
LEMMA PublishedStays ==
    ASSUME HubTyped, NEW t \in Tags, Feed!DraftOf(t) \/ Feed!Publish(t)
    PROVE  HubTyped' /\ \A o \in Tags : feedHub[o] = "published" => feedHub'[o] = "published"
BY DEF HubTyped, Feed!DraftOf, Feed!Publish

LEMMA HubStep ==
    ASSUME FeedIInv, NEW t \in Tags,
           Feed!DraftOf(t) \/ Feed!Publish(t) \/ Feed!Yank(t) \/ Feed!Narrow(t) \/ Feed!Widen(t)
    PROVE  FeedIInv'
<1>1. UNCHANGED <<run, site, stale, inst>>
    BY DEF Feed!DraftOf, Feed!Publish, Feed!Yank, Feed!Narrow, Feed!Widen
<1>2. HubTyped' /\ \A o \in Tags : feedHub[o] = "published" => feedHub'[o] = "published"
    <2>1. CASE Feed!DraftOf(t) \/ Feed!Publish(t)
        BY <2>1, PublishedStays DEF FeedIInv
    <2>2. CASE Feed!Yank(t) \/ Feed!Narrow(t) \/ Feed!Widen(t)
        BY <2>2 DEF FeedIInv, HubTyped, Feed!Yank, Feed!Narrow, Feed!Widen
    <2>. QED BY <2>1, <2>2
<1>4. FeedsGood'
    BY <1>1, <1>2 DEF FeedIInv, FeedsGood, GoodFeed
<1>5. InstallHolds'
    BY <1>1, <1>2 DEF FeedIInv, InstallHolds, GoodFeed
<1>. QED BY <1>2, <1>4, <1>5 DEF FeedIInv

LEMMA BuildStep ==
    ASSUME FeedIInv, Feed!Build
    PROVE  FeedIInv'
<1>1. UNCHANGED <<feedHub, site, stale, inst>> /\ run' = [c \in Feed!Channels |-> Feed!FeedOf(c)]
    BY DEF Feed!Build
<1>2. ASSUME NEW c \in Feed!Channels PROVE GoodFeed(Feed!FeedOf(c))
    BY DEF GoodFeed, Feed!FeedOf, Feed!NewestOf, Feed!Eligible
<1>3. FeedsGood'
    BY <1>1, <1>2 DEF FeedIInv, FeedsGood, GoodFeed
<1>4. HubTyped' /\ InstallHolds'
    BY <1>1 DEF FeedIInv, HubTyped, InstallHolds, GoodFeed
<1>. QED BY <1>3, <1>4 DEF FeedIInv

LEMMA DeployStep ==
    ASSUME FeedIInv, Feed!Deploy \/ Feed!WeekPasses
    PROVE  FeedIInv'
<1>1. UNCHANGED <<feedHub, inst>>
    BY DEF Feed!Deploy, Feed!WeekPasses
<1>2. FeedsGood'
    BY <1>1 DEF FeedIInv, FeedsGood, GoodFeed, Feed!Deploy, Feed!WeekPasses
<1>3. HubTyped' /\ InstallHolds'
    BY <1>1 DEF FeedIInv, HubTyped, InstallHolds, GoodFeed
<1>. QED BY <1>2, <1>3 DEF FeedIInv

\* A check takes a deployed feed of its own channel, whichever one a cache had
LEMMA CheckStep ==
    ASSUME FeedIInv, Feed!CheckStale
    PROVE  FeedIInv'
<1>1. UNCHANGED <<feedHub, run, site, stale>>
    BY DEF Feed!CheckStale, Feed!Check
<1>0. PICK c \in Feed!Channels : \E f \in {site[c], stale[c]} : f # None /\ Feed!Check(f)
    BY DEF Feed!CheckStale
<1>2. PICK f \in {site[c], stale[c]} : f # None /\ Feed!Check(f)
    BY <1>0
<1>3. GoodFeed(f) /\ f.channel = inst.channel
    BY <1>2 DEF FeedIInv, FeedsGood, Feed!Check, Feed!Accepts
<1>4. inst' = [inst EXCEPT !.feed = f, !.seen[inst.channel] = f.serial,
                           !.pulled[inst.channel] = f.pulled]
    BY <1>2 DEF Feed!Check
<1> DEFINE seenNow == [inst.seen EXCEPT ![inst.channel] = f.serial]
           pulledNow == [inst.pulled EXCEPT ![inst.channel] = f.pulled]
<1>5. inst' = [channel |-> inst.channel, has |-> inst.has, seen |-> seenNow,
               pulled |-> pulledNow, feed |-> f, early |-> inst.early]
    BY <1>4 DEF FeedIInv, InstallHolds
<1>6. pulledNow = [c2 \in Feed!Channels |-> pulledNow[c2]] /\ pulledNow[inst.channel] = f.pulled
    BY DEF FeedIInv, InstallHolds
<1>. HIDE DEF seenNow, pulledNow
<1>7. inst'.channel = inst.channel /\ inst'.pulled = pulledNow /\ inst'.feed = f
    BY <1>5
<1>8. GoodFeed(f)'
    BY <1>1, <1>3 DEF GoodFeed
<1>9. InstallHolds'
    BY <1>3, <1>5, <1>6, <1>7, <1>8 DEF FeedIInv, InstallHolds, GoodFeed
<1>10. HubTyped' /\ FeedsGood'
    BY <1>1 DEF FeedIInv, HubTyped, FeedsGood, GoodFeed
<1>. QED BY <1>9, <1>10 DEF FeedIInv

LEMMA InstStep ==
    ASSUME FeedIInv, Feed!Install \/ Feed!Switch
    PROVE  FeedIInv'
<1>1. UNCHANGED <<feedHub, run, site, stale>>
    BY DEF Feed!Install, Feed!Switch
<1>2. HubTyped' /\ FeedsGood'
    BY <1>1 DEF FeedIInv, HubTyped, FeedsGood, GoodFeed
<1>3. CASE Feed!Install
    <2>1. PICK has : inst' = [inst EXCEPT !.has = has]
        BY <1>3 DEF Feed!Install, FeedIInv, InstallHolds
    <2>2. inst' = [channel |-> inst.channel, has |-> has, seen |-> inst.seen,
                   pulled |-> inst.pulled, feed |-> inst.feed, early |-> inst.early]
        BY <2>1 DEF FeedIInv, InstallHolds
    <2>. QED BY <1>1, <1>2, <2>2 DEF FeedIInv, InstallHolds, GoodFeed
<1>4. CASE Feed!Switch
    <2>1. PICK c \in Feed!Channels : inst' = [inst EXCEPT !.channel = c, !.feed = None]
        BY <1>4 DEF Feed!Switch, Feed!Channels
    <2>2. inst' = [channel |-> c, has |-> inst.has, seen |-> inst.seen,
                   pulled |-> inst.pulled, feed |-> None, early |-> inst.early]
        BY <2>1 DEF FeedIInv, InstallHolds
    <2>. QED BY <1>2, <2>2 DEF FeedIInv, InstallHolds
<1>. QED BY <1>3, <1>4

LEMMA FeedStep == FeedIInv /\ [Feed!FeedNext]_zvars => FeedIInv'
<1>. SUFFICES ASSUME FeedIInv, [Feed!FeedNext]_zvars PROVE FeedIInv'
    OBVIOUS
<1>1. CASE UNCHANGED zvars
    BY <1>1 DEF zvars, FeedIInv, HubTyped, FeedsGood, InstallHolds, GoodFeed
<1>2. CASE Feed!FeedNext
    BY <1>2, HubStep, BuildStep, DeployStep, CheckStep, InstStep DEF Feed!FeedNext
<1>. QED BY <1>1, <1>2

\* Only Install changes what runs, and it takes what its feed offers
LEMMA GoodStep == FeedIInv /\ [Feed!FeedNext]_zvars => Feed!InstallsAreGood
<1>. SUFFICES ASSUME FeedIInv, [Feed!FeedNext]_zvars,
                     NEW x \in Feed!Tracks, inst'.has[x] # inst.has[x]
              PROVE  /\ inst'.has[x] \notin inst.pulled[inst.channel]
                     /\ feedHub[inst'.has[x]] = "published"
                     /\ inst.channel = Stable => inst'.has[x] \notin Pre
                     /\ inst.has[x] # None => Feed!Newer(inst'.has[x], inst.has[x])
    BY DEF Feed!InstallsAreGood
<1>1. Feed!Install
    <2>1. inst' # inst
        OBVIOUS
    <2>2. ASSUME Feed!CheckStale \/ Feed!Switch PROVE inst'.has = inst.has
        BY <2>2 DEF Feed!CheckStale, Feed!Check, Feed!Switch, FeedIInv, InstallHolds
    <2>. QED BY <2>1, <2>2
         DEF zvars, Feed!FeedNext, Feed!DraftOf, Feed!Publish, Feed!Yank, Feed!Narrow,
             Feed!Widen, Feed!WeekPasses, Feed!Build, Feed!Deploy
<1>2. PICK t \in Feed!Updates : inst' = [inst EXCEPT !.has[InfoOf[t].track] = t]
    BY <1>1 DEF Feed!Install
<1>3. inst'.has = [inst.has EXCEPT ![InfoOf[t].track] = t]
    BY <1>2 DEF FeedIInv, InstallHolds
<1>4. x = InfoOf[t].track /\ inst'.has[x] = t
    BY <1>3
<1>5. t \in inst.feed.tags /\ (inst.has[x] = None \/ Feed!Newer(t, inst.has[x]))
    BY <1>4 DEF Feed!Updates, Feed!Offered
<1>6. inst.feed # None
    BY <1>1 DEF Feed!Install
<1>. QED BY <1>4, <1>5, <1>6 DEF FeedIInv, InstallHolds, GoodFeed

-----------------------------------------------------------------------------
(* The updates panel: which channel the worker is at when no switch is on its way *)

PanelStates == [channel : Panel!Channels, on : BOOLEAN, checking : BOOLEAN]
PanelArgs == {None} \cup BOOLEAN \cup Panel!Channels \cup PanelStates
PanelCalls ==
    {c \in [kind : {"poll", "toggle", "channel", "check", "install"}, arg : PanelArgs,
            st : {"sent", "saved", "back"}] :
        /\ c.kind = "toggle" => c.arg \in BOOLEAN
        /\ c.kind = "channel" => c.arg \in Panel!Channels
        /\ c.st = "saved" => c.kind = "channel"
        /\ c.kind = "poll" /\ c.st = "back" => c.arg \in PanelStates}

PanelTyped ==
    /\ stored \in [channel : Panel!Channels, on : BOOLEAN]
    /\ worker \in PanelStates
    /\ panel \in {None} \cup PanelStates
    /\ task \in [st : {"idle", "check", "install"}, channel : {None} \cup Panel!Channels]
    /\ feed \in {None} \cup Panel!Channels
    /\ queue \in Seq(PanelCalls) /\ asked \subseteq PanelCalls

PanelIInv == PanelTyped /\ Panel!SwitchIsHonoured

LEMMA PanelInitial ==
    ASSUME Panel!PanelInit
    PROVE  PanelIInv
<1>1. /\ stored = [channel |-> Stable, on |-> TRUE]
      /\ worker = [channel |-> Stable, on |-> TRUE, checking |-> FALSE]
      /\ feed \in {None, Stable} /\ task = [st |-> "idle", channel |-> None]
      /\ queue = <<>> /\ asked = {} /\ panel = None
    BY DEF Panel!PanelInit, Panel!Idle
<1>2. PanelTyped
    BY <1>1 DEF PanelTyped, PanelStates, Panel!Channels
<1>3. Panel!SwitchIsHonoured
    BY <1>1 DEF Panel!SwitchIsHonoured
<1>. QED BY <1>2, <1>3 DEF PanelIInv

\* A step of the window, or an answer: no switch is lost and the daemon is as it was
LEMMA WindowStep ==
    ASSUME PanelIInv, UNCHANGED <<stored, worker, feed, task, queue>>,
           panel' \in {None} \cup PanelStates, asked' \subseteq PanelCalls,
           \A c \in asked : c.st = "saved" => c \in asked'
    PROVE  PanelIInv'
<1>1. PanelTyped'
    BY DEF PanelIInv, PanelTyped
<1>2. Panel!SwitchIsHonoured'
    BY DEF PanelIInv, Panel!SwitchIsHonoured, Panel!Switching
<1>. QED BY <1>1, <1>2 DEF PanelIInv

LEMMA CallTyped ==
    ASSUME NEW kind \in {"poll", "toggle", "channel", "check", "install"},
           NEW arg \in PanelArgs, NEW st \in {"sent", "saved", "back"},
           kind = "toggle" => arg \in BOOLEAN, kind = "channel" => arg \in Panel!Channels,
           st = "saved" => kind = "channel", kind = "poll" /\ st = "back" => arg \in PanelStates
    PROVE  Panel!Call(kind, arg, st) \in PanelCalls
BY DEF PanelCalls, Panel!Call

LEMMA PollCall == Panel!Call("poll", None, "sent") \in PanelCalls
BY CallTyped DEF PanelArgs

LEMMA GuiPolls ==
    ASSUME PanelIInv,
           Panel!Ages \/ Panel!PollTick \/ Panel!OpensSettings \/ Panel!Window
    PROVE  PanelIInv'
<1>1. UNCHANGED <<stored, worker, feed, task, queue, panel>>
    BY DEF Panel!Ages, Panel!PollTick, Panel!OpensSettings, Panel!Window, Panel!dvars
<1>2. asked' \in {asked, asked \cup {Panel!Call("poll", None, "sent")}}
    BY DEF Panel!Ages, Panel!PollTick, Panel!OpensSettings, Panel!Window, Panel!Polls
<1>. QED BY <1>1, <1>2, PollCall, WindowStep DEF PanelIInv, PanelTyped

LEMMA GuiAnswers ==
    ASSUME PanelIInv, NEW c \in asked, Panel!UpdateStatus(c) \/ Panel!ActionDone(c)
    PROVE  PanelIInv'
<1>1. UNCHANGED <<stored, worker, feed, task, queue>> /\ c.st = "back"
    BY DEF Panel!UpdateStatus, Panel!ActionDone, Panel!dvars
<1>2. asked' \in {asked \ {c}, (asked \ {c}) \cup {Panel!Call("poll", None, "sent")}}
    BY DEF Panel!UpdateStatus, Panel!ActionDone, Panel!Polls
<1>3. asked' \subseteq PanelCalls
    BY <1>2, PollCall DEF PanelIInv, PanelTyped
<1>4. panel' \in {None} \cup PanelStates
    BY DEF Panel!UpdateStatus, Panel!ActionDone, PanelIInv, PanelTyped, PanelCalls
<1>5. \A d \in asked : d.st = "saved" => d \in asked'
    BY <1>1, <1>2
<1>. QED BY <1>1, <1>3, <1>4, <1>5, WindowStep

LEMMA GuiClicks ==
    ASSUME PanelIInv,
           \/ Panel!ToggleUpdater \/ Panel!CheckForUpdates \/ Panel!InstallUpdate
           \/ \E ch \in Panel!Channels : Panel!PicksChannel(ch)
    PROVE  PanelIInv'
<1>1. /\ UNCHANGED <<stored, worker, feed, task, queue>> /\ panel \in PanelStates
    BY DEF Panel!ToggleUpdater, Panel!CheckForUpdates, Panel!InstallUpdate, Panel!PicksChannel,
           Panel!Clicks, Panel!dvars, PanelIInv, PanelTyped
<1>2. CASE Panel!ToggleUpdater
    <2>1. asked' = asked \cup {Panel!Call("toggle", ~panel.on, "sent")}
        BY <1>2 DEF Panel!ToggleUpdater, Panel!Clicks
    <2>2. Panel!Call("toggle", ~panel.on, "sent") \in PanelCalls
        BY <1>1, CallTyped DEF PanelArgs, PanelStates
    <2>3. panel' \in PanelStates
        BY <1>1, <1>2 DEF Panel!ToggleUpdater, PanelStates
    <2>. QED BY <1>1, <2>1, <2>2, <2>3, WindowStep DEF PanelIInv, PanelTyped
<1>3. CASE Panel!CheckForUpdates
    <2>1. asked' = asked \cup {Panel!Call("check", None, "sent")}
        BY <1>3 DEF Panel!CheckForUpdates, Panel!Clicks
    <2>2. Panel!Call("check", None, "sent") \in PanelCalls
        BY CallTyped DEF PanelArgs
    <2>3. panel' \in PanelStates
        BY <1>1, <1>3 DEF Panel!CheckForUpdates, PanelStates
    <2>. QED BY <1>1, <2>1, <2>2, <2>3, WindowStep DEF PanelIInv, PanelTyped
<1>4. CASE Panel!InstallUpdate
    <2>1. asked' = asked \cup {Panel!Call("install", None, "sent")} /\ panel' = panel
        BY <1>4 DEF Panel!InstallUpdate, Panel!Clicks
    <2>2. Panel!Call("install", None, "sent") \in PanelCalls
        BY CallTyped DEF PanelArgs
    <2>. QED BY <1>1, <2>1, <2>2, WindowStep DEF PanelIInv, PanelTyped
<1>5. CASE \E ch \in Panel!Channels : Panel!PicksChannel(ch)
    <2>0. PICK ch \in Panel!Channels : Panel!PicksChannel(ch)
        BY <1>5
    <2>1. asked' = asked \cup {Panel!Call("channel", ch, "sent")}
        BY <2>0 DEF Panel!PicksChannel, Panel!Clicks
    <2>2. Panel!Call("channel", ch, "sent") \in PanelCalls
        BY CallTyped DEF PanelArgs
    <2>3. panel' \in PanelStates
        BY <1>1, <2>0 DEF Panel!PicksChannel, PanelStates
    <2>. QED BY <1>1, <2>1, <2>2, <2>3, WindowStep DEF PanelIInv, PanelTyped
<1>. QED BY <1>2, <1>3, <1>4, <1>5

\* The daemon's handlers: a switch is either saved or queued before it is answered
LEMMA HandlerStep ==
    ASSUME PanelIInv, NEW c \in asked,
           Panel!GetUpdateStatus(c) \/ Panel!SetUpdateEnabled(c)
    PROVE  PanelIInv'
<1>1. UNCHANGED <<worker, feed, task, queue, panel>> /\ c.st = "sent" /\ c \in PanelCalls
    BY DEF Panel!GetUpdateStatus, Panel!SetUpdateEnabled, Panel!gvars, Panel!dvars,
           PanelIInv, PanelTyped
<1>2. stored' \in [channel : Panel!Channels, on : BOOLEAN] /\ stored'.channel = stored.channel
    BY <1>1 DEF Panel!GetUpdateStatus, Panel!SetUpdateEnabled, Panel!dvars,
           PanelIInv, PanelTyped, PanelCalls
<1>3. PICK arg \in PanelArgs : /\ \/ c.kind = "poll" /\ arg \in PanelStates
                                  \/ c.kind = "toggle" /\ arg \in BOOLEAN
                               /\ asked' = (asked \ {c}) \cup {Panel!Call(c.kind, arg, "back")}
    BY <1>1 DEF Panel!GetUpdateStatus, Panel!SetUpdateEnabled, Panel!Moves,
                PanelIInv, PanelTyped, PanelArgs, PanelCalls
<1>4. Panel!Call(c.kind, arg, "back") \in PanelCalls
    BY <1>3, CallTyped
<1>5. PanelTyped'
    BY <1>1, <1>2, <1>3, <1>4 DEF PanelIInv, PanelTyped
<1>6. \A d \in asked : d.st = "saved" => d \in asked'
    BY <1>1, <1>3
<1>7. Panel!SwitchIsHonoured'
    BY <1>1, <1>2, <1>6 DEF PanelIInv, Panel!SwitchIsHonoured, Panel!Switching
<1>. QED BY <1>5, <1>7 DEF PanelIInv

LEMMA ChannelStep ==
    ASSUME PanelIInv, NEW c \in asked, Panel!SetUpdateChannel(c)
    PROVE  PanelIInv'
<1>1. /\ UNCHANGED <<worker, feed, task, queue, panel>>
      /\ c.st = "sent" /\ c.kind = "channel" /\ c.arg \in Panel!Channels
    BY DEF Panel!SetUpdateChannel, Panel!gvars, PanelIInv, PanelTyped, PanelCalls
<1>2. CASE inmap
    <2>1. asked' = (asked \ {c}) \cup {Panel!Call(c.kind, c.arg, "back")} /\ stored' = stored
        BY <1>2 DEF Panel!SetUpdateChannel, Panel!Moves
    <2>2. Panel!Call(c.kind, c.arg, "back") \in PanelCalls
        BY <1>1, CallTyped DEF PanelArgs
    <2>. QED BY <1>1, <2>1, <2>2, WindowStep DEF PanelIInv, PanelTyped
<1>3. CASE ~inmap
    <2>1. /\ asked' = (asked \ {c}) \cup {Panel!Call(c.kind, c.arg, "saved")}
          /\ stored' = [stored EXCEPT !.channel = c.arg]
        BY <1>3 DEF Panel!SetUpdateChannel, Panel!Moves
    <2>2. Panel!Call(c.kind, c.arg, "saved") \in PanelCalls
        BY <1>1, CallTyped DEF PanelArgs
    <2>3. PanelTyped'
        BY <1>1, <2>1, <2>2 DEF PanelIInv, PanelTyped
    <2>4. \E d \in asked' : d.st = "saved"
        <3>1. Panel!Call(c.kind, c.arg, "saved") \in asked'
            BY <2>1
        <3>2. Panel!Call(c.kind, c.arg, "saved").st = "saved"
            BY DEF Panel!Call
        <3>. QED BY <3>1, <3>2
    <2>5. Panel!Switching'
        BY <2>4 DEF Panel!Switching
    <2>. QED BY <2>3, <2>5 DEF PanelIInv, Panel!SwitchIsHonoured
<1>. QED BY <1>2, <1>3

LEMMA QueuedStep ==
    ASSUME PanelIInv, NEW c \in asked, Panel!ChannelSaved(c) \/ Panel!Commands(c)
    PROVE  PanelIInv'
<1>1. UNCHANGED <<stored, worker, feed, task, panel>> /\ c \in PanelCalls
    BY DEF Panel!ChannelSaved, Panel!Commands, Panel!gvars, PanelIInv, PanelTyped
<1>2. PICK arg \in PanelArgs : /\ c.kind = "channel" => arg \in Panel!Channels
                               /\ c.kind \notin {"poll", "toggle"}
                               /\ asked' = (asked \ {c}) \cup {Panel!Call(c.kind, arg, "back")}
    <2>1. CASE Panel!ChannelSaved(c)
        BY <1>1, <2>1 DEF Panel!ChannelSaved, Panel!Moves, PanelArgs, PanelCalls
    <2>2. CASE Panel!Commands(c)
        BY <1>1, <2>2 DEF Panel!Commands, Panel!Moves, PanelArgs, PanelCalls
    <2>. QED BY <2>1, <2>2
<1>3. Panel!Call(c.kind, arg, "back") \in PanelCalls
    BY <1>1, <1>2, CallTyped DEF PanelCalls
<1>4. asked' \subseteq PanelCalls
    BY <1>2, <1>3 DEF PanelIInv, PanelTyped
<1>5. CASE Panel!ChannelSaved(c)
    <2>1. queue' = Append(queue, Panel!Call("channel", c.arg, "sent"))
        BY <1>5 DEF Panel!ChannelSaved
    <2>2. Panel!Call("channel", c.arg, "sent") \in PanelCalls
        BY <1>1, <1>5, CallTyped DEF PanelCalls, Panel!ChannelSaved, PanelArgs
    <2>3. queue' \in Seq(PanelCalls)
        BY <2>1, <2>2 DEF PanelIInv, PanelTyped
    <2>4. Len(queue) + 1 \in DOMAIN queue' /\ queue'[Len(queue) + 1].kind = "channel"
        BY <2>1 DEF PanelIInv, PanelTyped, Panel!Call
    <2>5. Panel!Switching'
        BY <2>4 DEF Panel!Switching
    <2>. QED BY <1>1, <1>4, <2>3, <2>5 DEF PanelIInv, PanelTyped, Panel!SwitchIsHonoured
<1>6. CASE Panel!Commands(c)
    <2>1. queue' \in {queue, Append(queue, c)} /\ c.st = "sent"
        BY <1>6 DEF Panel!Commands
    <2>2. queue' \in Seq(PanelCalls)
        BY <1>1, <2>1 DEF PanelIInv, PanelTyped
    <2>3. \A i \in DOMAIN queue : i \in DOMAIN queue' /\ queue'[i] = queue[i]
        BY <2>1 DEF PanelIInv, PanelTyped
    <2>4. \A d \in asked : d.st = "saved" => d \in asked'
        BY <1>2, <2>1
    <2>5. Panel!Switching => Panel!Switching'
        BY <2>3, <2>4 DEF Panel!Switching
    <2>. QED BY <1>1, <1>4, <2>2, <2>5 DEF PanelIInv, PanelTyped, Panel!SwitchIsHonoured
<1>. QED BY <1>5, <1>6

\* The worker takes its commands one at a time
LEMMA TakeStep ==
    ASSUME PanelIInv, Panel!TakesCheck \/ Panel!TakesInstall
    PROVE  PanelIInv'
<1>1. /\ UNCHANGED <<stored, feed, asked, panel>> /\ task.st = "idle"
      /\ queue # <<>> /\ Head(queue).kind # "channel" /\ queue' = Tail(queue)
    BY DEF Panel!TakesCheck, Panel!TakesInstall, Panel!gvars
<1>2. queue' \in Seq(PanelCalls)
    BY <1>1 DEF PanelIInv, PanelTyped
<1>3. ASSUME NEW i \in DOMAIN queue, queue[i].kind = "channel"
      PROVE  i - 1 \in DOMAIN queue' /\ queue'[i - 1].kind = "channel"
    <2>1. queue \in Seq(PanelCalls) /\ i # 1
        BY <1>1, <1>3 DEF PanelIInv, PanelTyped
    <2>. QED BY <1>1, <1>3, <2>1
<1>4. Panel!Switching => Panel!Switching'
    BY <1>1, <1>3 DEF Panel!Switching
<1>5. /\ worker' \in PanelStates /\ worker'.channel = worker.channel
      /\ task' \in [st : {"idle", "check", "install"}, channel : {None} \cup Panel!Channels]
      /\ task'.st = "check" => task'.channel = None
    <2>1. CASE Panel!TakesCheck
        <3>1. CASE Panel!Begins
            BY <3>1 DEF Panel!Begins, PanelIInv, PanelTyped, PanelStates
        <3>2. CASE UNCHANGED <<task, worker>>
            BY <1>1, <3>2 DEF PanelIInv, PanelTyped
        <3>. QED BY <2>1, <3>1, <3>2 DEF Panel!TakesCheck
    <2>2. CASE Panel!TakesInstall
        BY <1>1, <2>2 DEF Panel!TakesInstall, PanelIInv, PanelTyped
    <2>. QED BY <2>1, <2>2
<1>. QED BY <1>1, <1>2, <1>4, <1>5 DEF PanelIInv, PanelTyped, Panel!SwitchIsHonoured

LEMMA SwitchStep ==
    ASSUME PanelIInv, Panel!TakesChannel
    PROVE  PanelIInv'
<1>1. /\ UNCHANGED <<stored, asked, panel>> /\ queue # <<>> /\ queue' = Tail(queue)
      /\ task' = [st |-> "check", channel |-> None] /\ feed' = None
      /\ worker' = [worker EXCEPT !.channel = stored.channel, !.checking = TRUE]
    BY DEF Panel!TakesChannel, Panel!ChannelOf, Panel!gvars
<1>2. queue' \in Seq(PanelCalls)
    BY <1>1 DEF PanelIInv, PanelTyped
<1>3. worker' \in PanelStates /\ worker'.channel = stored.channel
    BY <1>1 DEF PanelIInv, PanelTyped, PanelStates
<1>. QED BY <1>1, <1>2, <1>3 DEF PanelIInv, PanelTyped, Panel!SwitchIsHonoured

LEMMA WorkStep ==
    ASSUME PanelIInv,
           \/ Panel!WorkerTicks \/ Panel!CheckReads \/ Panel!CheckEnds \/ Panel!InstallEnds
           \/ Panel!ModeChanges
    PROVE  PanelIInv'
<1>1. UNCHANGED <<stored, queue, asked, panel>>
    BY DEF Panel!WorkerTicks, Panel!CheckReads, Panel!CheckEnds, Panel!InstallEnds,
           Panel!ModeChanges, Panel!gvars
<1>2. /\ worker' \in PanelStates /\ worker'.channel = worker.channel
    BY DEF Panel!WorkerTicks, Panel!CheckReads, Panel!CheckEnds, Panel!InstallEnds,
           Panel!ModeChanges, Panel!Begins, PanelIInv, PanelTyped, PanelStates
<1>3. /\ task' \in [st : {"idle", "check", "install"}, channel : {None} \cup Panel!Channels]
      /\ task'.st = "check" => \/ task'.channel \in {None, stored.channel}
                               \/ UNCHANGED task
    BY DEF Panel!WorkerTicks, Panel!CheckReads, Panel!CheckEnds, Panel!InstallEnds,
           Panel!ModeChanges, Panel!Begins, Panel!Idle, PanelIInv, PanelTyped
<1>4. feed' # feed => task.st = "check" /\ task.channel # None /\ feed' = task.channel
    BY DEF Panel!WorkerTicks, Panel!CheckReads, Panel!CheckEnds, Panel!InstallEnds,
           Panel!ModeChanges
<1>5. PanelTyped'
    BY <1>1, <1>2, <1>3, <1>4 DEF PanelIInv, PanelTyped
<1>6. Panel!SwitchIsHonoured'
    BY <1>1, <1>2, <1>3, <1>4 DEF PanelIInv, Panel!SwitchIsHonoured, Panel!Switching
<1>. QED BY <1>5, <1>6 DEF PanelIInv

LEMMA PanelStep == PanelIInv /\ [Panel!PanelNext]_wvars => PanelIInv'
<1>. SUFFICES ASSUME PanelIInv, [Panel!PanelNext]_wvars PROVE PanelIInv'
    OBVIOUS
<1>1. CASE UNCHANGED wvars
    BY <1>1 DEF wvars, PanelIInv, PanelTyped, Panel!SwitchIsHonoured, Panel!Switching
<1>2. CASE Panel!PanelNext
    BY <1>2, GuiPolls, GuiAnswers, GuiClicks, HandlerStep, ChannelStep, QueuedStep, TakeStep,
       SwitchStep, WorkStep DEF Panel!PanelNext
<1>. QED BY <1>1, <1>2

-----------------------------------------------------------------------------
(* The forms: unsaved key edits *)

FormsShape ==
    /\ keys = [edit |-> keys.edit, dirty |-> keys.dirty, separate |-> keys.separate]
    /\ keys.dirty \in BOOLEAN

FormsIInv == FormsShape /\ Forms!KeyEditsStay

LEMMA FormsInitial ==
    ASSUME Forms!FormsInit
    PROVE  FormsIInv
<1>1. keys = [edit |-> None, dirty |-> FALSE, separate |-> FALSE]
    BY DEF Forms!FormsInit
<1>. QED BY <1>1 DEF FormsIInv, FormsShape, Forms!KeyEditsStay

\* Every step that types remembers what it typed
LEMMA TypingStep ==
    ASSUME NEW k, k = [edit |-> k.edit, dirty |-> k.dirty, separate |-> k.separate],
           k.dirty \in BOOLEAN, Forms!Typing(k)
    PROVE  FormsIInv'
BY DEF Forms!Typing, FormsIInv, FormsShape, Forms!KeyEditsStay

LEMMA UserStep ==
    ASSUME FormsIInv,
           \/ \E i \in 1 .. 2 : Forms!SetKey(i)
           \/ \E on \in BOOLEAN : Forms!Separate(on)
           \/ Forms!Revert
    PROVE  FormsIInv'
<1>1. ASSUME NEW i \in 1 .. 2, Forms!SetKey(i) PROVE FormsIInv'
    <2> DEFINE e == IF keys.separate THEN [Forms!Edits EXCEPT ![i] = Forms!Fresh]
                                     ELSE <<Forms!Fresh, Forms!Fresh>>
    <2>1. Forms!Typing([keys EXCEPT !.dirty = TRUE, !.edit = e])
        BY <1>1 DEF Forms!SetKey
    <2>. HIDE DEF e
    <2> DEFINE k == [edit |-> e, dirty |-> TRUE, separate |-> keys.separate]
    <2>2. [keys EXCEPT !.dirty = TRUE, !.edit = e] = k
        <3>1. keys \in [edit : {keys.edit}, dirty : BOOLEAN, separate : {keys.separate}]
            BY DEF FormsIInv, FormsShape
        <3> DEFINE r == [keys EXCEPT !.dirty = TRUE, !.edit = e]
        <3>2. r \in [edit : {e}, dirty : {TRUE}, separate : {keys.separate}]
            BY <3>1
        <3>. HIDE DEF r
        <3>3. r = k
            BY <3>2
        <3>. QED BY <3>3 DEF r
    <2>3. Forms!Typing(k)
        BY <2>1, <2>2
    <2>4. k = [edit |-> k.edit, dirty |-> k.dirty, separate |-> k.separate] /\ k.dirty = TRUE
        OBVIOUS
    <2>. HIDE DEF k
    <2>. QED BY <2>3, <2>4, TypingStep
<1>2. ASSUME NEW on \in BOOLEAN, Forms!Separate(on) PROVE FormsIInv'
    <2> DEFINE link == ~on /\ Forms!Edits[1] # Forms!Edits[2]
               e == IF link THEN <<Forms!Edits[1], Forms!Edits[1]>> ELSE Forms!Edits
               d == keys.dirty \/ link
    <2>1. Forms!Typing([edit |-> e, dirty |-> d, separate |-> on])
        BY <1>2 DEF Forms!Separate
    <2>2. d \in BOOLEAN
        OBVIOUS
    <2>. HIDE DEF e, d
    <2>. QED BY <2>1, <2>2, TypingStep
<1>3. ASSUME Forms!Revert PROVE FormsIInv'
    BY <1>3, TypingStep DEF Forms!Revert
<1>. QED BY <1>1, <1>2, <1>3

\* An answer leaves edits alone, a save makes them no edits
LEMMA KeysStep ==
    ASSUME FormsIInv, Forms!KeysSave \/ \E call \in polls : Forms!Status(call)
    PROVE  FormsIInv'
<1>1. CASE Forms!KeysSave
    <2>1. keys' = [edit |-> keys.edit, dirty |-> FALSE, separate |-> keys.separate]
        BY <1>1 DEF Forms!KeysSave, FormsIInv, FormsShape
    <2>. QED BY <2>1 DEF FormsIInv, FormsShape, Forms!KeyEditsStay
<1>2. ASSUME NEW call \in polls, Forms!Status(call) PROVE FormsIInv'
    <2>1. typed' = typed /\ keys' \in {keys, Forms!Adopted(call.conf)}
        BY <1>2 DEF Forms!Status
    <2>2. CASE keys' = keys
        BY <2>1, <2>2 DEF FormsIInv, FormsShape, Forms!KeyEditsStay
    <2>3. CASE keys' # keys
        <3> DEFINE sep == IF keys.edit = None THEN call.conf.k1 # call.conf.k2
                                              ELSE keys.separate
        <3>1. ~keys.dirty
            BY <2>1, <2>3 DEF Forms!Adopted
        <3>2. keys' = [keys EXCEPT !.edit = Forms!KeysOf(call.conf), !.separate = sep]
            BY <2>1, <2>3, <3>1 DEF Forms!Adopted, FormsIInv, FormsShape
        <3>. HIDE DEF sep
        <3>3. keys' = [edit |-> Forms!KeysOf(call.conf), dirty |-> keys.dirty,
                       separate |-> sep]
            BY <3>2 DEF FormsIInv, FormsShape
        <3>. QED BY <3>1, <3>3 DEF FormsIInv, FormsShape, Forms!KeyEditsStay
    <2>. QED BY <2>2, <2>3
<1>. QED BY <1>1, <1>2

LEMMA FormsStep == FormsIInv /\ [Forms!FormsNext]_mvars => FormsIInv'
<1>. SUFFICES ASSUME FormsIInv, [Forms!FormsNext]_mvars PROVE FormsIInv'
    OBVIOUS
<1>1. CASE UNCHANGED <<keys, typed>>
    BY <1>1 DEF FormsIInv, FormsShape, Forms!KeyEditsStay
<1>2. CASE UNCHANGED mvars
    BY <1>1, <1>2 DEF mvars
<1>3. CASE \/ Forms!PadPlugged \/ Forms!OtherClient \/ Forms!Poll
           \/ \E call \in polls : Forms!Serve(call)
           \/ \E conf \in saves : Forms!Stored(conf)
           \/ Forms!ChangeSetting \/ Forms!SaveConfig
    BY <1>1, <1>3 DEF Forms!PadPlugged, Forms!OtherClient, Forms!Poll, Forms!Serve, Forms!Stored,
                      Forms!ChangeSetting, Forms!SaveConfig
<1>. QED BY <1>2, <1>3, UserStep, KeysStep DEF Forms!FormsNext

-----------------------------------------------------------------------------
(* The log: what every answer under way will leave covered *)

\* A finite set of naturals has a largest and a smallest member: the one with
\* the fewest above it, or below it
LEMMA Fewest ==
    ASSUME NEW S, IsFiniteSet(S), NEW T, T \subseteq SUBSET S, T # {}
    PROVE  \E a \in T : \A b \in T : <<b, a>> \notin StrictSubsetOrdering(S)
<1>1. IsWellFoundedOn(StrictSubsetOrdering(S), FiniteSubsetsOf(S))
    BY FS_StrictSubsetOrderingWellFounded
<1>2. T \subseteq FiniteSubsetsOf(S)
    BY FS_FiniteSubsetsOfFinite
<1>3. PICK a \in T : \A b \in T : ~ (<<b, a>> \in StrictSubsetOrdering(S))
    BY <1>1, <1>2, WFMin
<1>. QED BY <1>3

LEMMA Largest ==
    ASSUME NEW S, S \subseteq Nat, IsFiniteSet(S), S # {}
    PROVE  \E x \in S : \A y \in S : x >= y
<1> DEFINE T == {U \in SUBSET S : \E x \in S : U = {k \in S : k > x}}
<1>1. PICK a \in T : \A b \in T : <<b, a>> \notin StrictSubsetOrdering(S)
    <2>1. T \subseteq SUBSET S /\ T # {}
        <3>1. PICK x \in S : TRUE
            OBVIOUS
        <3> DEFINE b == {k \in S : k > x}
        <3>2. b \in T
            OBVIOUS
        <3>3. T \subseteq SUBSET S
            OBVIOUS
        <3>. HIDE DEF b, T
        <3>. QED BY <3>2, <3>3
    <2>. HIDE DEF T
    <2>. QED BY <2>1, Fewest
<1>2. PICK x \in S : a = {k \in S : k > x}
    OBVIOUS
<1>3. ASSUME NEW y \in S, ~(x >= y) PROVE FALSE
    <2> DEFINE b == {k \in S : k > y}
    <2>1. y \in Nat /\ x \in Nat /\ y > x
        BY <1>3
    <2>2. b \in T
        OBVIOUS
    <2>3. y \in a /\ y \notin b
        BY <1>2, <2>1
    <2>4. \A k \in b : k \in Nat /\ k > y /\ k \in S
        OBVIOUS
    <2>5. \A k \in b : k \in a
        <3>. HIDE DEF b, T
        <3>. QED BY <1>2, <2>1, <2>4
    <2>6. a \subseteq S /\ b \subseteq S
        OBVIOUS
    <2>. HIDE DEF b, T
    <2>. QED BY <1>1, <2>2, <2>3, <2>5, <2>6 DEF StrictSubsetOrdering
<1>. QED BY <1>3

LEMMA Smallest ==
    ASSUME NEW S, S \subseteq Nat, IsFiniteSet(S), S # {}
    PROVE  \E x \in S : \A y \in S : x <= y
<1> DEFINE T == {U \in SUBSET S : \E x \in S : U = {k \in S : k < x}}
<1>1. PICK a \in T : \A b \in T : <<b, a>> \notin StrictSubsetOrdering(S)
    <2>1. T \subseteq SUBSET S /\ T # {}
        <3>1. PICK x \in S : TRUE
            OBVIOUS
        <3> DEFINE b == {k \in S : k < x}
        <3>2. b \in T
            OBVIOUS
        <3>3. T \subseteq SUBSET S
            OBVIOUS
        <3>. HIDE DEF b, T
        <3>. QED BY <3>2, <3>3
    <2>. HIDE DEF T
    <2>. QED BY <2>1, Fewest
<1>2. PICK x \in S : a = {k \in S : k < x}
    OBVIOUS
<1>3. ASSUME NEW y \in S, ~(x <= y) PROVE FALSE
    <2> DEFINE b == {k \in S : k < y}
    <2>1. y \in Nat /\ x \in Nat /\ y < x
        BY <1>3
    <2>2. b \in T
        OBVIOUS
    <2>3. y \in a /\ y \notin b
        BY <1>2, <2>1
    <2>4. \A k \in b : k \in Nat /\ k < y /\ k \in S
        OBVIOUS
    <2>5. \A k \in b : k \in a
        <3>. HIDE DEF b, T
        <3>. QED BY <1>2, <2>1, <2>4
    <2>6. a \subseteq S /\ b \subseteq S
        OBVIOUS
    <2>. HIDE DEF b, T
    <2>. QED BY <1>1, <2>2, <2>3, <2>5, <2>6 DEF StrictSubsetOrdering
<1>. QED BY <1>3

LEMMA MaxOf ==
    ASSUME NEW S, S \subseteq Nat, IsFiniteSet(S), S # {}
    PROVE  Logs!Max(S) \in S /\ \A y \in S : Logs!Max(S) >= y
BY Largest DEF Logs!Max

LEMMA MinOf ==
    ASSUME NEW S, S \subseteq Nat, IsFiniteSet(S), S # {}
    PROVE  Logs!Min(S) \in S /\ \A y \in S : Logs!Min(S) <= y
BY Smallest DEF Logs!Min

LEMMA SameCount == \A S : Logs!Cardinality(S) = Cardinality(S)
BY DEF Logs!Cardinality, Cardinality

\* A capped answer leaves out later entries only, or earlier ones, and is not empty
LEMMA FirstIsLow ==
    ASSUME NEW S, S \subseteq Nat, IsFiniteSet(S)
    PROVE  /\ Logs!FirstOf(S) \subseteq S
           /\ \A n \in S : \A g \in Logs!FirstOf(S) : n <= g => n \in Logs!FirstOf(S)
           /\ S # {} => Logs!FirstOf(S) # {}
<1>1. ASSUME NEW n \in S, NEW g \in Logs!FirstOf(S), n <= g PROVE n \in Logs!FirstOf(S)
    <2> DEFINE N == {k \in S : k < n}
               G == {k \in S : k < g}
    <2>1. g \in S /\ Cardinality(G) < Limit
        BY SameCount DEF Logs!FirstOf
    <2>2. \A k \in N : k \in G
        BY <1>1, <2>1
    <2>3. G \in SUBSET S
        OBVIOUS
    <2>4. Cardinality(N) < Limit
        <3>. HIDE DEF N, G
        <3>1. IsFiniteSet(G) /\ N \in SUBSET G
            BY <2>2, <2>3, FS_Subset
        <3>2. IsFiniteSet(N) /\ Cardinality(N) <= Cardinality(G)
            BY <3>1, FS_Subset
        <3>3. Cardinality(N) \in Nat /\ Cardinality(G) \in Nat /\ Limit \in Nat
            BY <3>1, <3>2, FS_CardinalityType, LogAssumption DEF Logs!LogConstants
        <3>. QED BY <2>1, <3>2, <3>3
    <2>. QED BY <2>4, SameCount DEF Logs!FirstOf
<1>2. ASSUME S # {} PROVE Logs!FirstOf(S) # {}
    <2>1. PICK x \in S : \A y \in S : x <= y
        BY <1>2, Smallest
    <2> DEFINE N == {k \in S : k < x}
    <2>2. \A k \in N : FALSE
        BY <2>1
    <2>3. Cardinality(N) = 0
        <3>. HIDE DEF N
        <3>. QED BY <2>2, FS_EmptySet
    <2>4. 0 < Limit
        BY LogAssumption DEF Logs!LogConstants
    <2>5. x \in Logs!FirstOf(S)
        BY <2>3, <2>4, SameCount DEF Logs!FirstOf
    <2>. QED BY <2>5
<1>. QED BY <1>1, <1>2 DEF Logs!FirstOf

LEMMA LastIsHigh ==
    ASSUME NEW S, S \subseteq Nat, IsFiniteSet(S)
    PROVE  /\ Logs!LastOf(S) \subseteq S
           /\ \A n \in S : \A g \in Logs!LastOf(S) : n >= g => n \in Logs!LastOf(S)
           /\ S # {} => Logs!LastOf(S) # {}
<1>1. ASSUME NEW n \in S, NEW g \in Logs!LastOf(S), n >= g PROVE n \in Logs!LastOf(S)
    <2> DEFINE N == {k \in S : k > n}
               G == {k \in S : k > g}
    <2>1. g \in S /\ Cardinality(G) < Limit
        BY SameCount DEF Logs!LastOf
    <2>2. \A k \in N : k \in G
        BY <1>1, <2>1
    <2>3. G \in SUBSET S
        OBVIOUS
    <2>4. Cardinality(N) < Limit
        <3>. HIDE DEF N, G
        <3>1. IsFiniteSet(G) /\ N \in SUBSET G
            BY <2>2, <2>3, FS_Subset
        <3>2. IsFiniteSet(N) /\ Cardinality(N) <= Cardinality(G)
            BY <3>1, FS_Subset
        <3>3. Cardinality(N) \in Nat /\ Cardinality(G) \in Nat /\ Limit \in Nat
            BY <3>1, <3>2, FS_CardinalityType, LogAssumption DEF Logs!LogConstants
        <3>. QED BY <2>1, <3>2, <3>3
    <2>. QED BY <2>4, SameCount DEF Logs!LastOf
<1>2. ASSUME S # {} PROVE Logs!LastOf(S) # {}
    <2>1. PICK x \in S : \A y \in S : x >= y
        BY <1>2, Largest
    <2> DEFINE N == {k \in S : k > x}
    <2>2. \A k \in N : FALSE
        BY <2>1
    <2>3. Cardinality(N) = 0
        <3>. HIDE DEF N
        <3>. QED BY <2>2, FS_EmptySet
    <2>4. 0 < Limit
        BY LogAssumption DEF Logs!LogConstants
    <2>5. x \in Logs!LastOf(S)
        BY <2>3, <2>4, SameCount DEF Logs!LastOf
    <2>. QED BY <2>5
<1>. QED BY <1>1, <1>2 DEF Logs!LastOf

\* The window has every entry the ring still has from the first of these to the last
Covered(first, end) == \A n \in first .. end : n \in Logs!Ring => [run |-> 1, n |-> n] \in logs

LogTyped ==
    /\ hub = [run |-> hub.run, next |-> hub.next]
    /\ hub.next \in Nat \ {0} /\ cursor \in Nat /\ from \in Nat \ {0}
    /\ \A f \in fetches :
          /\ f = [st |-> f.st, since |-> f.since, run |-> f.run, latest |-> f.latest,
                  got |-> f.got]
          /\ f.since \in {None} \cup Nat
          /\ f.latest \in Nat /\ f.got \subseteq 1 .. f.latest

\* An answer to a poll with a cursor goes on from it without a hole; one to a
\* poll without ends at the newest entry
AnswerGood(f) ==
    /\ f.run = 1 /\ f.latest < hub.next
    /\ f.since # None =>
          /\ \A n \in Logs!Ring : \A g \in f.got : f.since < n /\ n <= g => n \in f.got
          /\ f.got = {} => f.latest <= f.since
    /\ f.since = None =>
          /\ \A n \in Logs!Ring : \A g \in f.got : g <= n /\ n <= f.latest => n \in f.got
          /\ f.got = {} => f.latest = 0

FetchGood(f) ==
    /\ f.since # None => f.since < hub.next /\ Covered(from, f.since)
    /\ f.st = "ok" => AnswerGood(f)

LogKnown ==
    /\ hub.run = 1 /\ cursor < hub.next /\ Covered(from, cursor)
    /\ \A e \in logs : e = [run |-> 1, n |-> e.n]
    /\ \A f \in fetches : FetchGood(f)

LogIInv == LogTyped /\ (~restarted => LogKnown)

LEMMA LogInitial ==
    ASSUME Logs!LogsInit
    PROVE  LogIInv
<1>1. /\ hub = [run |-> 1, next |-> 1] /\ cursor = 0 /\ logs = {} /\ fetches = {} /\ from = 1
    BY DEF Logs!LogsInit
<1>. QED BY <1>1 DEF LogIInv, LogTyped, LogKnown, Covered

\* The ring loses its oldest entry to a new one
LEMMA LoggedStep ==
    ASSUME LogIInv, Logs!Logged
    PROVE  LogIInv'
<1>1. /\ hub' = [hub EXCEPT !.next = @ + 1]
      /\ UNCHANGED <<cursor, logs, fetches, from, restarted>>
    BY DEF Logs!Logged
<1>2. hub' = [run |-> hub.run, next |-> hub.next + 1] /\ hub.next \in Nat \ {0}
    BY <1>1 DEF LogIInv, LogTyped
<1>3. LogTyped'
    BY <1>1, <1>2 DEF LogIInv, LogTyped
<1>4. \A n \in Logs!Ring' : n \in Nat /\ (n = hub.next \/ n \in Logs!Ring)
    BY <1>2, LogAssumption DEF Logs!Ring, Logs!Newest, Logs!LogConstants
<1>5. ASSUME NEW b \in Nat, b < hub.next, Covered(from, b)
      PROVE  Covered(from, b)'
    <2>. SUFFICES ASSUME NEW n \in from .. b, n \in Logs!Ring'
                  PROVE  [run |-> 1, n |-> n] \in logs
        BY <1>1 DEF Covered
    <2>1. n # hub.next /\ from \in Nat
        BY <1>2, <1>5 DEF LogIInv, LogTyped
    <2>. QED BY <1>4, <1>5, <2>1 DEF Covered
<1>6. ASSUME ~restarted, NEW f \in fetches PROVE FetchGood(f)'
    <2>1. FetchGood(f) /\ f.since \in {None} \cup Nat /\ f.latest \in Nat /\ f.got \subseteq 1 .. f.latest
        BY <1>6 DEF LogIInv, LogKnown, LogTyped
    <2>2. f.since # None => f.since < hub'.next /\ Covered(from, f.since)'
        BY <1>2, <1>5, <2>1 DEF FetchGood
    <2>3. ASSUME f.st = "ok" PROVE AnswerGood(f)'
        <3>1. AnswerGood(f) /\ f.latest < hub.next
            BY <2>1, <2>3 DEF FetchGood, AnswerGood
        <3>2. \A n \in Logs!Ring' : \A g \in f.got : n <= g \/ n <= f.latest => n \in Logs!Ring
            BY <1>2, <1>4, <2>1, <3>1
        <3>3. f.latest < hub'.next
            BY <1>2, <2>1, <3>1
        <3>. QED BY <3>1, <3>2, <3>3 DEF AnswerGood
    <2>. QED BY <2>2, <2>3 DEF FetchGood
<1>7. ASSUME ~restarted PROVE LogKnown'
    <2>1. LogKnown /\ cursor \in Nat
        BY <1>7 DEF LogIInv, LogTyped
    <2>2. hub'.run = 1 /\ cursor' < hub'.next
        BY <1>1, <1>2, <2>1 DEF LogKnown
    <2>3. PICK b \in Nat : b = cursor
        BY <2>1
    <2>4. Covered(from, b)'
        BY <1>5, <2>1, <2>3 DEF LogKnown
    <2>5. Covered(from, cursor)'
        BY <1>1, <2>3, <2>4
    <2>. QED BY <1>1, <1>6, <1>7, <2>1, <2>2, <2>5 DEF LogKnown
<1>. QED BY <1>1, <1>3, <1>7 DEF LogIInv

LEMMA RestartStep ==
    ASSUME LogIInv, Logs!DaemonRestarts
    PROVE  LogIInv'
BY DEF Logs!DaemonRestarts, LogIInv, LogTyped

LEMMA PollStep ==
    ASSUME LogIInv, Logs!PollLogs
    PROVE  LogIInv'
<1>0. PICK s \in {None} \cup Nat : s = IF cursor > 0 THEN cursor ELSE None
    BY DEF LogIInv, LogTyped
<1> DEFINE p == [st |-> "sent", since |-> s, run |-> 0, latest |-> 0, got |-> {}]
<1>1. UNCHANGED <<hub, cursor, logs, from, restarted>> /\ fetches' = fetches \cup {p}
    BY <1>0 DEF Logs!PollLogs
<1>2. s # None => s = cursor
    BY <1>0
<1>3. LogTyped'
    BY <1>1, <1>2 DEF LogIInv, LogTyped
<1>4. ASSUME ~restarted PROVE LogKnown'
    <2>1. LogKnown
        BY <1>4 DEF LogIInv
    <2>2. /\ \A b : Covered(from, b) => Covered(from, b)'
          /\ Covered(from, cursor)'
        BY <1>1, <2>1 DEF LogKnown, Covered, Logs!Ring, Logs!Newest
    <2>3. FetchGood(p)'
        BY <1>1, <1>2, <2>1, <2>2 DEF FetchGood, LogKnown
    <2>4. \A f \in fetches : FetchGood(f)'
        BY <1>1, <2>1, <2>2 DEF LogKnown, FetchGood, AnswerGood, Logs!Ring, Logs!Newest
    <2>. QED BY <1>1, <2>1, <2>2, <2>3, <2>4 DEF LogKnown
<1>. QED BY <1>1, <1>3, <1>4 DEF LogIInv

\* What the daemon answers at a moment
LEMMA RingFacts ==
    ASSUME hub.next \in Nat \ {0}
    PROVE  /\ Logs!Newest \in Nat /\ Logs!Newest < hub.next
           /\ Logs!Ring \subseteq 1 .. Logs!Newest /\ IsFiniteSet(Logs!Ring)
           /\ Logs!Newest > 0 => Logs!Newest \in Logs!Ring
<1>1. Logs!Newest \in Nat /\ Logs!Newest < hub.next
    BY DEF Logs!Newest
<1>2. Logs!Ring \subseteq 1 .. Logs!Newest
    BY DEF Logs!Ring
<1>3. IsFiniteSet(Logs!Ring)
    <2>1. IsFiniteSet(1 .. Logs!Newest)
        BY <1>1, FS_Interval
    <2>. QED BY <1>2, <2>1, FS_Subset
<1>4. Logs!Newest > 0 => Logs!Newest \in Logs!Ring
    BY <1>1, LogAssumption DEF Logs!Ring, Logs!Newest, Logs!LogConstants
<1>. QED BY <1>1, <1>2, <1>3, <1>4

LEMMA AnswerIsGood ==
    ASSUME hub.next \in Nat \ {0}, hub.run = 1, NEW f, NEW s \in {None} \cup Nat,
           f.since = s, f.run = 1, f.latest = Logs!Newest, f.got = Logs!EntriesSince(s)
    PROVE  AnswerGood(f)
<1>1. ASSUME s # None
      PROVE  /\ \A n \in Logs!Ring : \A g \in f.got : s < n /\ n <= g => n \in f.got
             /\ f.got = {} => f.latest <= s
    <2> DEFINE L == {n \in Logs!Ring : n > s}
    <2>1. L \subseteq Nat /\ IsFiniteSet(L) /\ s \in Nat
        BY <1>1, RingFacts, FS_Subset
    <2>2. f.got = Logs!FirstOf(L)
        BY <1>1 DEF Logs!EntriesSince
    <2>3. \A n \in Logs!Ring : s < n => n \in L
        BY <1>1, RingFacts
    <2>4. Logs!Newest > 0 /\ s < Logs!Newest => Logs!Newest \in L
        BY <2>3, RingFacts
    <2>. HIDE DEF L
    <2>5. /\ \A n \in L : \A g \in f.got : n <= g => n \in f.got
          /\ L # {} => f.got # {}
        <3>1. /\ \A n \in L : \A g \in Logs!FirstOf(L) : n <= g => n \in Logs!FirstOf(L)
              /\ L # {} => Logs!FirstOf(L) # {}
            BY <2>1, FirstIsLow
        <3>. QED BY <2>2, <3>1
    <2>. QED BY <2>1, <2>3, <2>4, <2>5, RingFacts
<1>2. ASSUME s = None
      PROVE  /\ \A n \in Logs!Ring : \A g \in f.got : g <= n /\ n <= f.latest => n \in f.got
             /\ f.got = {} => f.latest = 0
    <2>1. f.got = Logs!LastOf(Logs!Ring)
        BY <1>2 DEF Logs!EntriesSince
    <2>2. Logs!Ring \subseteq Nat /\ IsFiniteSet(Logs!Ring)
        BY RingFacts
    <2>3. /\ f.got \subseteq Logs!Ring
          /\ \A n \in Logs!Ring : \A g \in f.got : n >= g => n \in f.got
          /\ Logs!Ring # {} => f.got # {}
        <3> DEFINE L == Logs!Ring
        <3>. HIDE DEF L
        <3>1. /\ Logs!LastOf(L) \subseteq L
              /\ \A n \in L : \A g \in Logs!LastOf(L) : n >= g => n \in Logs!LastOf(L)
              /\ L # {} => Logs!LastOf(L) # {}
            BY <2>2, LastIsHigh DEF L
        <3>. QED BY <2>1, <3>1 DEF L
    <2>. QED BY <2>2, <2>3, RingFacts
<1>. QED BY <1>1, <1>2, RingFacts DEF AnswerGood

LEMMA ServeStep ==
    ASSUME LogIInv, NEW f \in fetches, Logs!Serves(f)
    PROVE  LogIInv'
<1> DEFINE a == [f EXCEPT !.st = "ok", !.run = hub.run, !.latest = Logs!Newest,
                          !.got = Logs!EntriesSince(f.since)]
           b == [st |-> "ok", since |-> f.since, run |-> hub.run, latest |-> Logs!Newest,
                 got |-> Logs!EntriesSince(f.since)]
<1>1. UNCHANGED <<hub, cursor, logs, from, restarted>> /\ fetches' = (fetches \ {f}) \cup {a}
    BY DEF Logs!Serves
<1>2. /\ f = [st |-> f.st, since |-> f.since, run |-> f.run, latest |-> f.latest, got |-> f.got]
      /\ f.since \in {None} \cup Nat /\ hub.next \in Nat \ {0}
    BY DEF LogIInv, LogTyped
<1>3. a = b
    <2> DEFINE e == Logs!EntriesSince(f.since)
               l == Logs!Newest
               r == hub.run
               q == [f EXCEPT !.st = "ok", !.run = r, !.latest = l, !.got = e]
    <2>1. a = q /\ b = [st |-> "ok", since |-> f.since, run |-> r, latest |-> l, got |-> e]
        OBVIOUS
    <2>. HIDE DEF e, l, r
    <2>2. f \in [st : {f.st}, since : {f.since}, run : {f.run}, latest : {f.latest}, got : {f.got}]
        BY <1>2
    <2>3. q \in [st : {"ok"}, since : {f.since}, run : {r}, latest : {l}, got : {e}]
        BY <2>2
    <2>. HIDE DEF q, a, b
    <2>4. q = [st |-> "ok", since |-> f.since, run |-> r, latest |-> l, got |-> e]
        BY <2>3
    <2>. QED BY <2>1, <2>4
<1>. HIDE DEF a
<1>4. Logs!EntriesSince(f.since) \subseteq 1 .. Logs!Newest
    <2> DEFINE L == {n \in Logs!Ring : n > f.since}
    <2>1. L \subseteq Logs!Ring /\ L \subseteq Nat /\ IsFiniteSet(L)
        BY <1>2, RingFacts, FS_Subset
    <2>2. Logs!EntriesSince(f.since) \in {Logs!LastOf(Logs!Ring), Logs!FirstOf(L)}
        BY DEF Logs!EntriesSince
    <2>. HIDE DEF L
    <2>3. Logs!FirstOf(L) \subseteq Logs!Ring
        BY <2>1, FirstIsLow
    <2>4. Logs!LastOf(Logs!Ring) \subseteq Logs!Ring
        BY <1>2, RingFacts, LastIsHigh
    <2>. QED BY <1>2, <2>2, <2>3, <2>4, RingFacts
<1>5. Logs!Newest \in Nat
    BY <1>2, RingFacts
<1>6. LogTyped'
    <2>1. /\ b.since = f.since /\ b.latest = Logs!Newest /\ b.got = Logs!EntriesSince(f.since)
          /\ b = [st |-> b.st, since |-> b.since, run |-> b.run, latest |-> b.latest, got |-> b.got]
        OBVIOUS
    <2>. HIDE DEF b
    <2>. QED BY <1>1, <1>2, <1>3, <1>4, <1>5, <2>1 DEF LogIInv, LogTyped
<1>7. ASSUME ~restarted PROVE LogKnown'
    <2>1. LogKnown
        BY <1>7 DEF LogIInv
    <2>2. /\ b.since = f.since /\ b.run = 1 /\ b.latest = Logs!Newest
          /\ b.got = Logs!EntriesSince(f.since)
        BY <2>1 DEF LogKnown
    <2>. HIDE DEF b
    <2>3. AnswerGood(b)
        BY <1>2, <2>1, <2>2, AnswerIsGood DEF LogKnown
    <2>4. FetchGood(b)
        BY <2>1, <2>2, <2>3 DEF LogKnown, FetchGood
    <2>5. \A p : FetchGood(p) => FetchGood(p)'
        BY <1>1 DEF FetchGood, AnswerGood, Covered, Logs!Ring, Logs!Newest
    <2>6. Covered(from, cursor)'
        BY <1>1, <2>1 DEF LogKnown, Covered, Logs!Ring, Logs!Newest
    <2>. QED BY <1>1, <1>3, <2>1, <2>4, <2>5, <2>6 DEF LogKnown
<1>. QED BY <1>1, <1>6, <1>7 DEF LogIInv

\* Where an answer takes the cursor, and from where the window now begins
LEMMA TakenFrom ==
    ASSUME LogIInv, NEW f \in fetches, Logs!Received(f)
    PROVE  /\ cursor' \in Nat /\ from' \in Nat \ {0} /\ from' >= from
           /\ f.got # {} => cursor' \in f.got /\ \A g \in f.got : cursor' >= g
           /\ f.got = {} => cursor' = (IF f.latest > 0 THEN f.latest ELSE cursor) /\ from' = from
           /\ f.since = None /\ f.got # {} => \E g \in f.got : from' >= g
<1>1. /\ f.latest \in Nat /\ f.got \subseteq 1 .. f.latest
      /\ cursor \in Nat /\ from \in Nat \ {0}
    BY DEF LogIInv, LogTyped
<1>2. f.got \subseteq Nat /\ IsFiniteSet(f.got)
    <2>1. IsFiniteSet(1 .. f.latest)
        BY <1>1, FS_Interval
    <2>. QED BY <1>1, <2>1, FS_Subset
<1>3. f.got # {} => /\ cursor' = Logs!Max(f.got) /\ Logs!Max(f.got) \in f.got
                    /\ \A g \in f.got : Logs!Max(f.got) >= g
    BY <1>2, MaxOf DEF Logs!Received, Logs!NextCursor
<1>4. f.got = {} => cursor' = (IF f.latest > 0 THEN f.latest ELSE cursor) /\ from' = from
    BY DEF Logs!Received, Logs!NextCursor
<1>5. cursor' \in Nat
    BY <1>1, <1>3, <1>4
<1>6. CASE f.since = None /\ f.got # {}
    <2>1. Logs!Min(f.got) \in f.got
        BY <1>2, <1>6, MinOf
    <2>2. PICK m \in f.got : m = Logs!Min(f.got)
        BY <2>1
    <2>3. from' = Logs!Max({from, m}) /\ m \in Nat \ {0}
        BY <1>1, <1>6, <2>2 DEF Logs!Received
    <2>4. IsFiniteSet({from, m})
        <3>1. PICK t \in Nat : t = from + m
            BY <1>1, <2>3
        <3>2. IsFiniteSet(0 .. t)
            BY <3>1, FS_Interval
        <3>3. {from, m} \in SUBSET (0 .. t)
            BY <1>1, <2>3, <3>1
        <3>. QED BY <3>2, <3>3, FS_Subset
    <2>5. PICK x \in {from, m} : x = from' /\ x >= from /\ x >= m
        BY <1>1, <2>3, <2>4, MaxOf
    <2>. QED BY <1>1, <1>3, <1>5, <1>6, <2>3, <2>5
<1>7. CASE ~(f.since = None /\ f.got # {})
    <2>1. from' = from
        BY <1>7 DEF Logs!Received
    <2>. QED BY <1>1, <1>3, <1>4, <1>5, <1>7, <2>1
<1>. QED BY <1>6, <1>7

LEMMA ReceivedStep ==
    ASSUME LogIInv, NEW f \in fetches, Logs!Received(f)
    PROVE  LogIInv'
<1>1. /\ UNCHANGED <<hub, restarted>> /\ fetches' = fetches \ {f} /\ f.st = "ok"
      /\ logs' = logs \cup {[run |-> f.run, n |-> n] :
                               n \in {k \in f.got : \A e \in logs : e.n # k}}
    BY DEF Logs!Received
<1>2. LogTyped'
    BY <1>1, TakenFrom DEF LogIInv, LogTyped
<1>3. ASSUME ~restarted PROVE LogKnown'
    <2>1. LogKnown /\ FetchGood(f) /\ AnswerGood(f) /\ f.run = 1
        BY <1>1, <1>3 DEF LogIInv, LogKnown, FetchGood, AnswerGood
    <2>2. Logs!Ring' = Logs!Ring
        BY <1>1 DEF Logs!Ring, Logs!Newest
    <2>3. \A e \in logs' : e = [run |-> 1, n |-> e.n]
        BY <1>1, <2>1 DEF LogKnown
    <2>4. \A k \in f.got : [run |-> 1, n |-> k] \in logs'
        BY <1>1, <2>1 DEF LogKnown
    <2>5. /\ f.since \in {None} \cup Nat /\ f.latest \in Nat /\ f.got \subseteq 1 .. f.latest
          /\ cursor \in Nat /\ from \in Nat /\ from' \in Nat /\ from' >= from /\ cursor' \in Nat
          /\ hub.next \in Nat
        BY TakenFrom DEF LogIInv, LogTyped
    <2>6. \A b \in Nat : Covered(from, b) =>
              \A n \in from' .. b : n \in Logs!Ring => [run |-> 1, n |-> n] \in logs'
        BY <1>1, <2>5 DEF Covered
    <2>7. \A n \in Logs!Ring : n \in Nat
        BY <2>5 DEF Logs!Ring
    <2>8. cursor' < hub.next
        BY <2>1, <2>5, TakenFrom DEF LogKnown, AnswerGood
    <2>9. ASSUME NEW n \in from' .. cursor', n \in Logs!Ring
          PROVE  [run |-> 1, n |-> n] \in logs'
        <3>1. CASE f.got # {} /\ f.since # None
            <4>1. CASE n <= f.since
                BY <2>1, <2>5, <2>6, <2>9, <3>1, <4>1 DEF FetchGood
            <4>2. CASE ~(n <= f.since)
                <5>1. n \in f.got
                    BY <2>1, <2>5, <2>7, <2>9, <3>1, <4>2, TakenFrom DEF AnswerGood
                <5>. QED BY <2>4, <5>1
            <4>. QED BY <4>1, <4>2
        <3>2. CASE f.got # {} /\ f.since = None
            <4>1. PICK g \in f.got : from' >= g
                BY <3>2, TakenFrom
            <4>2. g <= n /\ n <= f.latest
                BY <2>5, <2>7, <2>9, <3>2, <4>1, TakenFrom
            <4>3. n \in f.got
                BY <2>1, <2>9, <3>2, <4>2 DEF AnswerGood
            <4>. QED BY <2>4, <4>3
        <3>3. CASE f.got = {} /\ f.since # None /\ f.latest > 0
            <4>1. n \in from' .. f.since
                BY <2>1, <2>5, <2>9, <3>3, TakenFrom DEF AnswerGood
            <4>. QED BY <2>1, <2>5, <2>6, <2>9, <3>3, <4>1 DEF FetchGood
        <3>4. CASE f.got = {} /\ ~(f.since # None /\ f.latest > 0)
            <4>1. cursor' = cursor
                BY <2>1, <2>5, <3>4, TakenFrom DEF AnswerGood
            <4>. QED BY <2>1, <2>5, <2>6, <2>9, <4>1 DEF LogKnown
        <3>. QED BY <3>1, <3>2, <3>3, <3>4
    <2>10. Covered(from, cursor)'
        BY <2>2, <2>9 DEF Covered
    <2>11. ASSUME NEW p \in fetches PROVE FetchGood(p)'
        <3>1. FetchGood(p) /\ p.since \in {None} \cup Nat
            BY <2>1 DEF LogKnown, LogIInv, LogTyped
        <3>2. p.since # None => p.since < hub'.next /\ Covered(from, p.since)'
            BY <1>1, <2>2, <2>6, <3>1 DEF FetchGood, Covered
        <3>3. AnswerGood(p) => AnswerGood(p)'
            BY <1>1, <2>2 DEF AnswerGood
        <3>. QED BY <3>1, <3>2, <3>3 DEF FetchGood
    <2>. QED BY <1>1, <2>1, <2>3, <2>8, <2>10, <2>11 DEF LogKnown
<1>. QED BY <1>1, <1>2, <1>3 DEF LogIInv

LEMMA LogStep == LogIInv /\ [Logs!LogsNext]_lvars => LogIInv'
<1>. SUFFICES ASSUME LogIInv, [Logs!LogsNext]_lvars PROVE LogIInv'
    OBVIOUS
<1>1. CASE UNCHANGED lvars
    BY <1>1 DEF lvars, LogIInv, LogTyped, LogKnown, FetchGood, AnswerGood, Covered, Logs!Ring,
                Logs!Newest
<1>2. CASE Logs!LogsNext
    BY <1>2, LoggedStep, RestartStep, PollStep, ServeStep, ReceivedStep DEF Logs!LogsNext
<1>. QED BY <1>1, <1>2

\* The window's promise is a part of what is known
LEMMA LogHolds == LogIInv => Logs!CursorSkipsNothing
BY DEF LogIInv, LogKnown, Covered, Logs!CursorSkipsNothing

-----------------------------------------------------------------------------
(* The history: what a period change and a refresh carry between their steps *)

HistoryShape ==
    /\ snap = [days |-> snap.days, hist |-> snap.hist, unsaved |-> snap.unsaved]
    /\ work # None => work = [st |-> work.st, n |-> work.n, days |-> work.days, hist |-> work.hist]
    /\ \A c \in calls : c = [kind |-> c.kind, days |-> c.days, st |-> c.st, hist |-> c.hist,
                             saved |-> c.saved, got |-> c.got]

\* What was read for a period is of that period until it is written
OfItsPeriod ==
    /\ snap.hist.days = snap.days
    /\ work # None /\ work.st = "publish" => work.hist.days = work.days
    /\ \A c \in calls : c.st = "read" => c.hist.days = c.days

HistIInv == HistoryShape /\ OfItsPeriod

LEMMA HistoryInitial ==
    ASSUME Hist!HistoryInit
    PROVE  HistIInv
<1>1. PICK days \in Days :
          /\ snap = [days |-> days, hist |-> [days |-> days, n |-> 0], unsaved |-> FALSE]
          /\ work = None /\ calls = {}
    BY DEF Hist!HistoryInit
<1>. QED BY <1>1 DEF HistIInv, HistoryShape, OfItsPeriod

\* The event loop's steps
LEMMA LoopStep ==
    ASSUME HistIInv,
           \/ Hist!Plays \/ Hist!HistoryTick \/ Hist!RefreshReads \/ Hist!RefreshQueries
           \/ Hist!RefreshPublishes \/ \E fails \in BOOLEAN : Hist!SaveTapStats(fails)
    PROVE  HistIInv'
<1>1. UNCHANGED calls
    BY DEF Hist!Plays, Hist!HistoryTick, Hist!RefreshReads, Hist!RefreshQueries,
           Hist!RefreshPublishes, Hist!SaveTapStats
<1>2. CASE Hist!Plays
    BY <1>1, <1>2 DEF Hist!Plays, HistIInv, HistoryShape, OfItsPeriod
<1>3. CASE Hist!HistoryTick
    <2>1. snap' = [days |-> snap.days, hist |-> snap.hist, unsaved |-> FALSE]
        BY <1>3 DEF Hist!HistoryTick, HistIInv, HistoryShape
    <2> DEFINE st == IF ended > 0 \/ snap.unsaved THEN "save" ELSE "refresh"
               days == IF snap.unsaved THEN snap.days ELSE None
    <2>2. work' = [st |-> st, n |-> ended, days |-> days, hist |-> None] /\ st # "publish"
        BY <1>3 DEF Hist!HistoryTick
    <2>. HIDE DEF st, days
    <2>. QED BY <1>1, <2>1, <2>2 DEF HistIInv, HistoryShape, OfItsPeriod
<1>4. ASSUME NEW fails \in BOOLEAN, Hist!SaveTapStats(fails) PROVE HistIInv'
    <2>1. work # None /\ work' = [work EXCEPT !.st = "refresh"]
        BY <1>4 DEF Hist!SaveTapStats
    <2>2. work' = [st |-> "refresh", n |-> work.n, days |-> work.days, hist |-> work.hist]
        BY <2>1 DEF HistIInv, HistoryShape
    <2>3. PICK u : snap' = [snap EXCEPT !.unsaved = u] \/ snap' = snap
        BY <1>4 DEF Hist!SaveTapStats
    <2>4. PICK v : snap' = [days |-> snap.days, hist |-> snap.hist, unsaved |-> v]
        BY <2>3 DEF HistIInv, HistoryShape
    <2>. QED BY <1>1, <2>2, <2>4 DEF HistIInv, HistoryShape, OfItsPeriod
<1>5. CASE Hist!RefreshReads
    <2>1. /\ work # None /\ work' = [work EXCEPT !.st = "query", !.days = snap.days]
          /\ UNCHANGED snap
        BY <1>5 DEF Hist!RefreshReads
    <2>2. work' = [st |-> "query", n |-> work.n, days |-> snap.days, hist |-> work.hist]
        BY <2>1 DEF HistIInv, HistoryShape
    <2>. QED BY <1>1, <2>1, <2>2 DEF HistIInv, HistoryShape, OfItsPeriod
<1>6. CASE Hist!RefreshQueries
    <2>1. /\ work # None /\ UNCHANGED snap
          /\ work' = [work EXCEPT !.st = "publish", !.hist = Hist!History(work.days)]
        BY <1>6 DEF Hist!RefreshQueries
    <2> DEFINE h == Hist!History(work.days)
    <2>2. h.days = work.days
        BY DEF Hist!History
    <2>. HIDE DEF h
    <2>3. work' = [st |-> "publish", n |-> work.n, days |-> work.days, hist |-> h]
        BY <2>1, <2>2 DEF HistIInv, HistoryShape, h
    <2>4. work'.days = work.days /\ work'.hist = h
        BY <2>3
    <2>5. UNCHANGED snap
        BY <2>1
    <2>6. HistoryShape'
        BY <1>1, <2>3, <2>5 DEF HistIInv, HistoryShape
    <2>7. OfItsPeriod'
        BY <1>1, <2>2, <2>4, <2>5 DEF HistIInv, OfItsPeriod
    <2>. QED BY <2>6, <2>7 DEF HistIInv
<1>7. CASE Hist!RefreshPublishes
    <2>1. /\ work # None /\ work.st = "publish" /\ work' = None
          /\ snap' = IF snap.days = work.days THEN [snap EXCEPT !.hist = work.hist] ELSE snap
        BY <1>7 DEF Hist!RefreshPublishes, Hist!ForThePeriod
    <2>2. PICK h : /\ snap' = [days |-> snap.days, hist |-> h, unsaved |-> snap.unsaved]
                   /\ h.days = snap.days
        BY <2>1 DEF HistIInv, HistoryShape, OfItsPeriod
    <2>. QED BY <1>1, <2>1, <2>2 DEF HistIInv, HistoryShape, OfItsPeriod
<1>. QED BY <1>2, <1>3, <1>4, <1>5, <1>6, <1>7

\* A call with other fields is the record of them
LEMMA CallMoves ==
    ASSUME NEW c,
           c = [kind |-> c.kind, days |-> c.days, st |-> c.st, hist |-> c.hist,
                saved |-> c.saved, got |-> c.got]
    PROVE  /\ \A h, s : [c EXCEPT !.st = "read", !.hist = h, !.saved = s]
                       = [kind |-> c.kind, days |-> c.days, st |-> "read", hist |-> h,
                          saved |-> s, got |-> c.got]
           /\ \A g : [c EXCEPT !.st = "ok", !.got = g]
                    = [kind |-> c.kind, days |-> c.days, st |-> "ok", hist |-> c.hist,
                       saved |-> c.saved, got |-> g]
<1>1. c \in [kind : {c.kind}, days : {c.days}, st : {c.st}, hist : {c.hist},
             saved : {c.saved}, got : {c.got}]
    OBVIOUS
<1>2. ASSUME NEW h, NEW s
      PROVE  [c EXCEPT !.st = "read", !.hist = h, !.saved = s]
             = [kind |-> c.kind, days |-> c.days, st |-> "read", hist |-> h,
                saved |-> s, got |-> c.got]
    <2> DEFINE r == [c EXCEPT !.st = "read", !.hist = h, !.saved = s]
    <2>1. r \in [kind : {c.kind}, days : {c.days}, st : {"read"}, hist : {h},
                 saved : {s}, got : {c.got}]
        BY <1>1
    <2>. HIDE DEF r
    <2>2. r = [kind |-> c.kind, days |-> c.days, st |-> "read", hist |-> h,
               saved |-> s, got |-> c.got]
        BY <2>1
    <2>. QED BY <2>2 DEF r
<1>3. ASSUME NEW g
      PROVE  [c EXCEPT !.st = "ok", !.got = g]
             = [kind |-> c.kind, days |-> c.days, st |-> "ok", hist |-> c.hist,
                saved |-> c.saved, got |-> g]
    <2> DEFINE r == [c EXCEPT !.st = "ok", !.got = g]
    <2>1. r \in [kind : {c.kind}, days : {c.days}, st : {"ok"}, hist : {c.hist},
                 saved : {c.saved}, got : {g}]
        BY <1>1
    <2>. HIDE DEF r
    <2>2. r = [kind |-> c.kind, days |-> c.days, st |-> "ok", hist |-> c.hist,
               saved |-> c.saved, got |-> g]
        BY <2>1
    <2>. QED BY <2>2 DEF r
<1>. QED BY <1>2, <1>3

\* The requests: a call moves on with what it read
LEMMA RequestStep ==
    ASSUME HistIInv, NEW c \in calls,
           Hist!PeriodQueries(c) \/ Hist!PeriodApplies(c) \/ Hist!GetTapStats(c)
    PROVE  HistIInv'
<1>1. /\ UNCHANGED work
      /\ c = [kind |-> c.kind, days |-> c.days, st |-> c.st, hist |-> c.hist,
              saved |-> c.saved, got |-> c.got]
    BY DEF Hist!PeriodQueries, Hist!PeriodApplies, Hist!GetTapStats, HistIInv, HistoryShape
<1>2. CASE Hist!PeriodQueries(c)
    <2>0. PICK s \in BOOLEAN : s = (~play)
        OBVIOUS
    <2>1. /\ UNCHANGED snap
          /\ calls' = (calls \ {c}) \cup
                {[c EXCEPT !.st = "read", !.hist = Hist!History(c.days), !.saved = s]}
        BY <1>2, <2>0 DEF Hist!PeriodQueries, Hist!Becomes
    <2> DEFINE h == Hist!History(c.days)
    <2>2. h.days = c.days
        BY DEF Hist!History
    <2>. HIDE DEF h
    <2> DEFINE d == [kind |-> c.kind, days |-> c.days, st |-> "read", hist |-> h,
                     saved |-> s, got |-> c.got]
    <2>3. [c EXCEPT !.st = "read", !.hist = h, !.saved = s] = d
        <3>1. \A e, t : [c EXCEPT !.st = "read", !.hist = e, !.saved = t]
                       = [kind |-> c.kind, days |-> c.days, st |-> "read", hist |-> e,
                          saved |-> t, got |-> c.got]
            BY <1>1, CallMoves
        <3>. QED BY <3>1, Zenon
    <2>4. calls' = (calls \ {c}) \cup {d}
        BY <2>1, <2>3 DEF h
    <2>. QED BY <1>1, <2>1, <2>2, <2>4 DEF HistIInv, HistoryShape, OfItsPeriod
<1>3. CASE Hist!PeriodApplies(c)
    <2> DEFINE u == ~c.saved
               g == [days |-> c.days, hist |-> c.hist]
               d == [kind |-> c.kind, days |-> c.days, st |-> "ok", hist |-> c.hist,
                     saved |-> c.saved, got |-> g]
    <2>1. /\ c.st = "read" /\ snap' = [days |-> c.days, hist |-> c.hist, unsaved |-> u]
          /\ calls' = (calls \ {c}) \cup {[c EXCEPT !.st = "ok", !.got = g]}
        BY <1>3 DEF Hist!PeriodApplies, Hist!Becomes
    <2>. HIDE DEF u, g
    <2>2. [c EXCEPT !.st = "ok", !.got = g] = d
        BY <1>1, CallMoves
    <2>3. calls' = (calls \ {c}) \cup {d}
        BY <2>1, <2>2
    <2>. QED BY <1>1, <2>1, <2>3 DEF HistIInv, HistoryShape, OfItsPeriod
<1>4. CASE Hist!GetTapStats(c)
    <2> DEFINE g == [days |-> snap.days, hist |-> snap.hist]
               d == [kind |-> c.kind, days |-> c.days, st |-> "ok", hist |-> c.hist,
                     saved |-> c.saved, got |-> g]
    <2>1. /\ UNCHANGED snap
          /\ calls' = (calls \ {c}) \cup {[c EXCEPT !.st = "ok", !.got = g]}
        BY <1>4 DEF Hist!GetTapStats, Hist!Becomes
    <2>. HIDE DEF g
    <2>2. [c EXCEPT !.st = "ok", !.got = g] = d
        BY <1>1, CallMoves
    <2>3. calls' = (calls \ {c}) \cup {d}
        BY <2>1, <2>2
    <2>. QED BY <1>1, <2>1, <2>3 DEF HistIInv, HistoryShape, OfItsPeriod
<1>. QED BY <1>2, <1>3, <1>4

LEMMA PageStep ==
    ASSUME HistIInv,
           \/ Hist!PollStats \/ Hist!BackoffOver \/ \E days \in Days : Hist!SetPeriod(days)
           \/ \E c \in calls : \E fails \in BOOLEAN :
                 Hist!Received(c, fails) \/ Hist!PeriodSet(c, fails)
    PROVE  HistIInv'
<1>1. UNCHANGED <<snap, work>>
    BY DEF Hist!PollStats, Hist!BackoffOver, Hist!SetPeriod, Hist!Received, Hist!PeriodSet
<1>2. \A d \in calls' : d \in calls \/ \E kind, days : d = Hist!Call(kind, days)
    BY DEF Hist!PollStats, Hist!BackoffOver, Hist!SetPeriod, Hist!Received, Hist!PeriodSet
<1>3. ASSUME NEW kind, NEW days, NEW d, d = Hist!Call(kind, days)
      PROVE  /\ d.st = "sent"
             /\ d = [kind |-> d.kind, days |-> d.days, st |-> d.st, hist |-> d.hist,
                     saved |-> d.saved, got |-> d.got]
    BY <1>3 DEF Hist!Call
<1>. QED BY <1>1, <1>2, <1>3 DEF HistIInv, HistoryShape, OfItsPeriod

LEMMA HistoryStep == HistIInv /\ [Hist!HistoryNext]_hvars => HistIInv'
<1>. SUFFICES ASSUME HistIInv, [Hist!HistoryNext]_hvars PROVE HistIInv'
    OBVIOUS
<1>1. CASE UNCHANGED hvars
    BY <1>1 DEF hvars, HistIInv, HistoryShape, OfItsPeriod
<1>2. CASE Hist!HistoryNext
    BY <1>2, LoopStep, RequestStep, PageStep DEF Hist!HistoryNext, Hist!WorkStep
<1>. QED BY <1>1, <1>2

-----------------------------------------------------------------------------
(* The schema: what a column holds at every version *)

\* The migration that adds a column
AddedBy ==
    [hz |-> 1, debounce |-> 1, endpoint |-> 1, color |-> 2, layouts |-> 3, gpio |-> 6,
     state |-> 7, taps |-> 9, song |-> 10, peak |-> 11, sideways |-> 12, invert |-> 13,
     updown |-> 14, modifiers |-> 15, animations |-> 16]

Cols == {"hz", "debounce", "endpoint", "color", "layouts", "gpio", "state", "taps", "song",
         "peak", "sideways", "invert", "updown", "modifiers", "animations"}

Rewrites == {4, 5, 8}

LEMMA ColumnsAre == Schema!Columns = Cols /\ DOMAIN AddedBy = Cols
BY DEF Schema!Columns, Schema!Default, Cols, AddedBy

LEMMA AddersAre ==
    \A c \in Cols : AddedBy[c] \in (1 .. 16) \ Rewrites
BY DEF AddedBy, Cols, Rewrites

M(k) == Schema!Migrations[k]

LEMMA ConfigSteps ==
    /\ M(1) = <<Schema!AddMissing({"hz", "debounce", "endpoint"})>>
    /\ M(2) = <<Schema!Add({"color"})>>
    /\ M(3) = <<Schema!AddMissing({"layouts"})>>
    /\ M(4) = <<Schema!Rewrite("hz", Schema!Legacy, Schema!Current)>>
    /\ M(5) = <<Schema!Rewrite("endpoint", Schema!Legacy, Schema!Current)>>
    /\ M(6) = <<Schema!Add({"gpio"})>>
    /\ M(7) = <<Schema!AddMissing({"state"})>>
    /\ M(8) = <<Schema!Rewrite("debounce", Schema!Legacy, Schema!Current)>>
BY DEF M, Schema!Migrations, Schema!ConfigMigrations, Schema!TapMigrations, Schema!SwipeMigrations

LEMMA TapSteps ==
    /\ M(9) = <<Schema!AddMissing({"taps"})>>
    /\ M(10) = <<Schema!AddMissing({"song"})>>
    /\ M(11) = <<Schema!AddMissing({"peak"})>>
BY DEF M, Schema!Migrations, Schema!ConfigMigrations, Schema!TapMigrations, Schema!SwipeMigrations

LEMMA SwipeSteps ==
    /\ M(12) = <<Schema!AddMissing({"sideways"})>>
    /\ M(13) = <<Schema!AddMissing({"invert"})>>
    /\ M(14) = <<Schema!AddMissing({"updown"}), Schema!Invert>>
    /\ M(15) = <<Schema!AddMissing({"modifiers"})>>
    /\ M(16) = <<Schema!AddMissing({"animations"})>>
BY DEF M, Schema!Migrations, Schema!ConfigMigrations, Schema!TapMigrations, Schema!SwipeMigrations

Adds(k) == {c \in Cols : AddedBy[c] = k}

LEMMA FirstStatements ==
    ASSUME NEW k \in 1 .. 16
    PROVE  /\ k \notin Rewrites => /\ M(k)[1].op \in {"add", "ensure"} /\ M(k)[1].cols = Adds(k)
           /\ k \in Rewrites => M(k)[1].op = "rewrite"
           /\ Len(M(k)) = IF k = 14 THEN 2 ELSE 1
<1>1. CASE k \in {1, 2, 3}
    BY <1>1, ConfigSteps DEF Adds, AddedBy, Cols, Rewrites, Schema!Add, Schema!AddMissing
<1>2. CASE k \in Rewrites
    BY <1>2, ConfigSteps DEF Rewrites, Schema!Rewrite
<1>3. CASE k \in {6, 7}
    BY <1>3, ConfigSteps DEF Adds, AddedBy, Cols, Rewrites, Schema!Add, Schema!AddMissing
<1>4. CASE k \in {9, 10, 11}
    BY <1>4, TapSteps DEF Adds, AddedBy, Cols, Rewrites, Schema!AddMissing
<1>5. CASE k \in {12, 13, 14}
    BY <1>5, SwipeSteps DEF Adds, AddedBy, Cols, Rewrites, Schema!AddMissing
<1>6. CASE k \in {15, 16}
    BY <1>6, SwipeSteps DEF Adds, AddedBy, Cols, Rewrites, Schema!AddMissing
<1>. QED BY <1>1, <1>2, <1>3, <1>4, <1>5, <1>6 DEF Rewrites

\* The columns of a version, of a pad's database or of one under way
Has(v) == {c \in Cols : AddedBy[c] <= v /\ ~(c = "invert" /\ v >= 14)}

LEMMA ColumnsAt ==
    ASSUME NEW v \in 0 .. 16
    PROVE  Schema!ColumnsOf(v) = Has(v)
<1>1. \A c : c \in Schema!ColumnsOf(v) <=>
             /\ \E k \in 1 .. v : M(k)[1].op # "rewrite" /\ c \in M(k)[1].cols
             /\ ~(c = "invert" /\ v >= 14)
    BY DEF Schema!ColumnsOf, M
<1>2. \A k \in 1 .. v : M(k)[1].op # "rewrite" => M(k)[1].cols = Adds(k)
    BY FirstStatements
<1>3. \A c \in Schema!ColumnsOf(v) : c \in Has(v)
    BY <1>1, <1>2 DEF Adds, Has
<1>4. ASSUME NEW c \in Has(v) PROVE c \in Schema!ColumnsOf(v)
    <2>1. AddedBy[c] \in 1 .. v /\ AddedBy[c] \in 1 .. 16 /\ AddedBy[c] \notin Rewrites
        BY AddersAre DEF Has
    <2>2. PICK k \in 1 .. v : k = AddedBy[c] /\ k \in 1 .. 16 /\ k \notin Rewrites
        BY <2>1
    <2>3. M(k)[1].op # "rewrite" /\ c \in M(k)[1].cols
        BY <2>2, FirstStatements DEF Adds, Has
    <2>. QED BY <1>1, <2>3 DEF Has
<1>. QED BY <1>3, <1>4

\* What a column holds at version v, of what it held before the first open
Old(c) == was.row[c]
ValueAt(c, v) ==
    IF c \in Has(was.version)
      THEN IF \/ c = "hz" /\ was.version < 4 /\ v >= 4
              \/ c = "endpoint" /\ was.version < 5 /\ v >= 5
              \/ c = "debounce" /\ was.version < 8 /\ v >= 8
             THEN IF Old(c) = Schema!Legacy THEN Schema!Current ELSE Old(c)
             ELSE Old(c)
      ELSE IF c = "updown" /\ was.version = 13 /\ Old("invert") = 1 THEN "swapped"
           ELSE Schema!Default[c]

RowAt(row, v) ==
    /\ row = [c \in Has(v) |-> row[c]]
    /\ \A c \in Has(v) : row[c] = ValueAt(c, v)

\* Within the fourteenth, whose second statement the flag waits for
RowWithin(row) ==
    /\ row = [c \in Has(13) \cup {"updown"} |-> row[c]]
    /\ \A c \in Has(13) : row[c] = ValueAt(c, 13)
    /\ row["updown"] = "up"

WasGood ==
    /\ was.version \in 0 .. 16 /\ DOMAIN was.row = Has(was.version)
    /\ "endpoint" \in Has(was.version) =>
          Old("endpoint") = IF was.version < 5 THEN Schema!Legacy ELSE Schema!Current

SchIInv ==
    /\ WasGood
    /\ file = [version |-> file.version, row |-> file.row]
    /\ file.version \in was.version .. 16 /\ RowAt(file.row, file.version)
    /\ open = "opened" => file.version = 16
    /\ tx # None =>
          /\ file.version < 16 /\ tx = [at |-> tx.at, row |-> tx.row]
          /\ \/ tx.at = 1 /\ RowAt(tx.row, file.version)
             \/ tx.at = 2 /\ file.version = 13 /\ RowWithin(tx.row)
             \/ tx.at = Len(M(file.version + 1)) + 1 /\ RowAt(tx.row, file.version + 1)

LEMMA SchemaInitial ==
    ASSUME Schema!SchemaInit
    PROVE  SchIInv
<1>1. PICK v \in 0 .. 16, hz \in {Schema!Legacy, Schema!Current, "own"},
           debounce \in {Schema!Legacy, Schema!Current, "own"}, invert \in {0, 1},
           updown \in {"up", "swapped", "other"} :
          file = [version |-> v,
                  row |-> [c \in Schema!ColumnsOf(v) |->
                              CASE c = "hz" -> hz [] c = "debounce" -> debounce
                                [] c = "endpoint" -> IF v < 5 THEN Schema!Legacy ELSE Schema!Current
                                [] c = "invert" -> invert [] c = "updown" -> updown
                                [] OTHER -> Schema!Default[c]]]
    BY DEF Schema!SchemaInit, Schema!Last
<1>2. open = None /\ tx = None /\ was = file
    BY DEF Schema!SchemaInit
<1>3. file.version = v /\ DOMAIN file.row = Has(v) /\ file = [version |-> v, row |-> file.row]
    BY <1>1, ColumnsAt
<1>4. file.row = [c \in Has(v) |-> file.row[c]]
    BY <1>1, ColumnsAt
<1>5. "endpoint" \in Has(v) =>
          file.row["endpoint"] = IF v < 5 THEN Schema!Legacy ELSE Schema!Current
    BY <1>1, ColumnsAt
<1>6. \A c \in Has(v) : file.row[c] = ValueAt(c, v)
    BY <1>2, <1>3 DEF ValueAt, Old
<1>7. WasGood
    BY <1>2, <1>3, <1>5 DEF WasGood, Old
<1>8. open # "opened"
    BY <1>2, SchemaAssumption DEF Schema!SchemaConstants
<1>. QED BY <1>2, <1>3, <1>4, <1>6, <1>7, <1>8 DEF SchIInv, RowAt

LEMMA OpensStep ==
    ASSUME SchIInv, Schema!Opens \/ Schema!Dies
    PROVE  SchIInv'
<1>1. UNCHANGED <<file, was>> /\ tx' \in {tx, None} /\ open' # "opened"
    BY SchemaAssumption DEF Schema!Opens, Schema!Dies, Schema!Fails, Schema!SchemaConstants
<1>. QED BY <1>1 DEF SchIInv, WasGood, Old, RowAt, RowWithin, ValueAt

LEMMA BeginsStep ==
    ASSUME SchIInv, Schema!Begins
    PROVE  SchIInv'
<1>1. UNCHANGED <<file, was>> /\ tx = None
    BY DEF Schema!Begins
<1>2. /\ WasGood' /\ RowAt(file.row, file.version)'
      /\ file = [version |-> file.version, row |-> file.row]
      /\ file.version \in was.version .. 16 /\ was.version \in 0 .. 16
    BY <1>1 DEF SchIInv, WasGood, Old, RowAt, ValueAt
<1>3. CASE Schema!Behind
    <2>1. tx' = [at |-> 1, row |-> file.row] /\ UNCHANGED open
        BY <1>3 DEF Schema!Begins
    <2>2. file.version < 16
        BY <1>3 DEF Schema!Behind, Schema!Last
    <2>3. RowAt(tx.row, file.version)'
        BY <1>1, <1>2, <2>1 DEF RowAt, ValueAt, Old
    <2>. QED BY <1>1, <1>2, <2>1, <2>2, <2>3 DEF SchIInv
<1>4. CASE ~Schema!Behind
    <2>1. UNCHANGED tx /\ file.version = 16
        BY <1>2, <1>4 DEF Schema!Begins, Schema!Behind, Schema!Last
    <2>. QED BY <1>1, <1>2, <2>1 DEF SchIInv
<1>. QED BY <1>3, <1>4

LEMMA CommitsStep ==
    ASSUME SchIInv, Schema!Commits
    PROVE  SchIInv'
<1>1. /\ tx # None /\ tx.at > Len(M(file.version + 1)) /\ UNCHANGED <<open, was>>
      /\ file' = [version |-> file.version + 1, row |-> tx.row] /\ tx' = None
    BY DEF Schema!Commits, Schema!WritesBoth, Schema!Pending, M
<1>2. /\ file.version \in was.version .. 16 /\ was.version \in 0 .. 16 /\ file.version < 16
    BY <1>1 DEF SchIInv, WasGood
<1>3. Len(M(file.version + 1)) = IF file.version = 13 THEN 2 ELSE 1
    <2>1. PICK k \in 1 .. 16 : k = file.version + 1
        BY <1>2
    <2>2. Len(M(k)) = IF k = 14 THEN 2 ELSE 1
        BY FirstStatements
    <2>. QED BY <1>2, <2>1, <2>2
<1>4. RowAt(tx.row, file.version + 1)
    BY <1>1, <1>2, <1>3 DEF SchIInv
<1>5. WasGood' /\ RowAt(file.row, file.version)'
    BY <1>1, <1>4 DEF SchIInv, WasGood, Old, RowAt, ValueAt
<1>6. open # "opened"
    BY <1>2 DEF SchIInv
<1>. QED BY <1>1, <1>2, <1>5, <1>6 DEF SchIInv

\* A migration that adds columns: the old rows are as they were, the new are defaults
LEMMA AddsStep ==
    ASSUME WasGood, NEW v \in was.version .. 15, v + 1 \notin Rewrites, NEW row, RowAt(row, v),
           NEW s, s.op \in {"add", "ensure"}, s.cols = Adds(v + 1)
    PROVE  /\ v # 13 => RowAt(Schema!Executed(s, row), v + 1)
           /\ v = 13 => RowWithin(Schema!Executed(s, row))
<1> DEFINE D == Has(v) \cup Adds(v + 1)
           new == [c \in D |-> IF c \in Has(v) THEN row[c] ELSE Schema!Default[c]]
<1>1. Schema!Executed(s, row) = new
    BY DEF Schema!Executed, RowAt
<1>2. v \in Nat /\ was.version \in Nat /\ was.version <= v
    BY DEF WasGood
<1>3. \A c \in Cols : AddedBy[c] \in Nat
    BY AddersAre
<1>4. ASSUME NEW c \in Has(v) PROVE new[c] = ValueAt(c, v)
    BY DEF RowAt
<1>5. ASSUME NEW c \in Adds(v + 1) PROVE c \notin Has(v) /\ c \notin Has(was.version)
    BY <1>2, <1>3, <1>5 DEF Adds, Has
<1>6. \A c \in Adds(v + 1) : new[c] = Schema!Default[c]
    BY <1>5
<1>7. CASE v # 13
    <2>1. D = Has(v + 1)
        BY <1>2, <1>3, <1>7 DEF Has, Adds, AddedBy, Cols
    <2>2. ASSUME NEW c \in Has(v) PROVE ValueAt(c, v) = ValueAt(c, v + 1)
        BY <1>2 DEF ValueAt, Rewrites
    <2>3. ASSUME NEW c \in Adds(v + 1) PROVE Schema!Default[c] = ValueAt(c, v + 1)
        <3>1. c # "updown"
            BY <1>2, <1>7, <2>3 DEF Adds, AddedBy
        <3>. QED BY <1>5, <2>3, <3>1 DEF ValueAt
    <2>4. new = [c \in Has(v + 1) |-> new[c]]
        BY <2>1
    <2>5. \A c \in Has(v + 1) : new[c] = ValueAt(c, v + 1)
        <3>. HIDE DEF new
        <3>. QED BY <1>4, <1>6, <2>1, <2>2, <2>3
    <2>. HIDE DEF new
    <2>. QED BY <1>1, <1>7, <2>4, <2>5 DEF RowAt
<1>8. CASE v = 13
    <2>1. Adds(14) = {"updown"}
        BY DEF Adds, AddedBy, Cols
    <2>2. new["updown"] = "up"
        BY <1>6, <1>8, <2>1 DEF Schema!Default
    <2>3. D = Has(13) \cup {"updown"} /\ new = [c \in D |-> new[c]]
        BY <1>8, <2>1
    <2>. HIDE DEF new
    <2>. QED BY <1>1, <1>4, <1>8, <2>2, <2>3 DEF RowWithin
<1>. QED BY <1>7, <1>8

\* A migration that rewrites an old default
LEMMA RewriteStep ==
    ASSUME WasGood, NEW v \in was.version .. 15, NEW row, RowAt(row, v),
           NEW col, \/ v = 3 /\ col = "hz"
                    \/ v = 4 /\ col = "endpoint"
                    \/ v = 7 /\ col = "debounce"
    PROVE  RowAt(Schema!Executed(Schema!Rewrite(col, Schema!Legacy, Schema!Current), row), v + 1)
<1> DEFINE new == [c \in Has(v) |-> IF c = col /\ row[c] = Schema!Legacy THEN Schema!Current
                                                                        ELSE row[c]]
<1>1. Schema!Executed(Schema!Rewrite(col, Schema!Legacy, Schema!Current), row) = new
    BY DEF Schema!Executed, Schema!Rewrite, RowAt
<1>2. v \in Nat /\ was.version \in Nat /\ was.version <= v
    BY DEF WasGood
<1>3. Has(v + 1) = Has(v)
    BY <1>2 DEF Has, AddedBy, Cols
<1>4. ASSUME NEW c \in Has(v) PROVE new[c] = ValueAt(c, v + 1)
    <2>1. row[c] = ValueAt(c, v)
        BY DEF RowAt
    <2>2. Schema!Default["hz"] # Schema!Legacy /\ Schema!Default["endpoint"] # Schema!Legacy
          /\ Schema!Default["debounce"] # Schema!Legacy /\ Schema!Current # Schema!Legacy
        BY DEF Schema!Default, Schema!Legacy, Schema!Current
    <2>. QED BY <1>2, <2>1, <2>2 DEF ValueAt
<1>5. new = [c \in Has(v + 1) |-> new[c]]
    BY <1>3
<1>. HIDE DEF new
<1>. QED BY <1>1, <1>3, <1>4, <1>5 DEF RowAt

\* The flag becomes swapped actions before it goes
LEMMA InvertStep ==
    ASSUME WasGood, was.version <= 13, NEW row, RowWithin(row)
    PROVE  RowAt(Schema!Executed(Schema!Invert, row), 14)
<1> DEFINE u == IF row["invert"] = 1 THEN "swapped" ELSE row["updown"]
           mid == [row EXCEPT !["updown"] = u]
           new == [c \in Has(14) |-> mid[c]]
<1>0. was.version \in Nat
    BY DEF WasGood
<1>1. /\ DOMAIN row = Has(13) \cup {"updown"} /\ "invert" \in Has(13) /\ "updown" \notin Has(13)
      /\ Has(14) = (Has(13) \cup {"updown"}) \ {"invert"}
    BY DEF RowWithin, Has, AddedBy, Cols
<1>2. Schema!Executed(Schema!Invert, row) = new
    <2>1. Schema!Executed(Schema!Invert, row) = Schema!Inverted(row)
        BY DEF Schema!Executed, Schema!Invert
    <2>2. Schema!Inverted(row) = Schema!Restrict(mid, DOMAIN row \ {"invert"})
        BY <1>1 DEF Schema!Inverted
    <2>. HIDE DEF mid
    <2>. QED BY <1>1, <2>1, <2>2 DEF Schema!Restrict
<1>3. ASSUME NEW c \in Has(13), c # "invert" PROVE new[c] = ValueAt(c, 14)
    <2>1. new[c] = row[c] /\ row[c] = ValueAt(c, 13)
        BY <1>1, <1>3 DEF RowWithin
    <2>2. ValueAt(c, 13) = ValueAt(c, 14)
        BY <1>0 DEF ValueAt
    <2>. QED BY <2>1, <2>2
<1>4. new["updown"] = ValueAt("updown", 14)
    <2>1. new["updown"] = u
        BY <1>1
    <2>2. "updown" \notin Has(was.version)
        BY <1>0 DEF Has, AddedBy
    <2>3. row["updown"] = "up" /\ Schema!Default["updown"] = "up" /\ Schema!Default["invert"] = 0
        BY DEF RowWithin, Schema!Default
    <2>4. row["invert"] = IF was.version = 13 THEN Old("invert") ELSE 0
        <3>1. row["invert"] = ValueAt("invert", 13)
            BY <1>1 DEF RowWithin
        <3>2. "invert" \in Has(was.version) <=> was.version = 13
            BY <1>0 DEF Has, AddedBy, Cols
        <3>. QED BY <2>3, <3>1, <3>2 DEF ValueAt
    <2>5. ValueAt("updown", 14)
          = IF was.version = 13 /\ Old("invert") = 1 THEN "swapped" ELSE "up"
        BY <2>2, <2>3 DEF ValueAt
    <2>. QED BY <2>1, <2>3, <2>4, <2>5
<1>5. \A c \in Has(14) : new[c] = ValueAt(c, 14)
    <2>. HIDE DEF new
    <2>. QED BY <1>1, <1>3, <1>4
<1>6. new = [c \in Has(14) |-> new[c]]
    OBVIOUS
<1>. HIDE DEF new
<1>. QED BY <1>2, <1>5, <1>6 DEF RowAt

LEMMA StatementStep ==
    ASSUME SchIInv, Schema!Statement
    PROVE  SchIInv'
<1>0. /\ tx # None /\ file.version < 16 /\ file.version \in was.version .. 16
      /\ was.version \in 0 .. 16
    BY DEF SchIInv, WasGood, Schema!Statement
<1>1. PICK v \in was.version .. 15 : v = file.version /\ v \in 0 .. 15
    BY <1>0
<1> DEFINE s == M(v + 1)[tx.at]
<1>2. tx # None /\ tx.at <= Len(M(v + 1)) /\ UNCHANGED <<file, was>>
    BY <1>1 DEF Schema!Statement, Schema!Pending, M
<1>3. Len(M(v + 1)) = IF v = 13 THEN 2 ELSE 1
    <2>1. PICK k \in 1 .. 16 : k = v + 1
        BY <1>1
    <2>2. Len(M(k)) = IF k = 14 THEN 2 ELSE 1
        BY FirstStatements
    <2>. QED BY <1>1, <2>1, <2>2
<1>4. \/ tx.at = 1 /\ RowAt(tx.row, v)
      \/ tx.at = 2 /\ v = 13 /\ RowWithin(tx.row)
    BY <1>1, <1>2, <1>3 DEF SchIInv
<1>5. /\ WasGood' /\ RowAt(file.row, v)'
      /\ file = [version |-> file.version, row |-> file.row]
    BY <1>1, <1>2 DEF SchIInv, WasGood, Old, RowAt, ValueAt
<1>6. CASE tx' = None
    <2>1. UNCHANGED open \/ open' = None
        BY DEF Schema!Statement, Schema!Fails
    <2>2. (open = "opened" => file.version = 16) /\ None # "opened"
        BY SchemaAssumption DEF SchIInv, Schema!SchemaConstants
    <2>. QED BY <1>0, <1>1, <1>2, <1>5, <1>6, <2>1, <2>2 DEF SchIInv
<1>7. CASE tx' # None
    <2>1. tx' = [at |-> tx.at + 1, row |-> Schema!Executed(s, tx.row)] /\ UNCHANGED open
        <3>1. Schema!Pending = M(v + 1)
            BY <1>1 DEF Schema!Pending, M
        <3>. QED BY <1>7, <3>1 DEF Schema!Statement, Schema!Fails
    <2>2. open # "opened"
        BY <1>0 DEF SchIInv
    <2> DEFINE e == Schema!Executed(s, tx.row)
    <2>. HIDE DEF e
    <2>3. tx'.at = tx.at + 1 /\ tx'.row = e /\ tx' = [at |-> tx'.at, row |-> tx'.row]
        BY <2>1 DEF e
    <2>4. /\ \A x : RowAt(e, x) => RowAt(tx.row, x)'
          /\ RowWithin(e) => RowWithin(tx.row)'
        BY <1>2, <2>3 DEF RowAt, RowWithin, ValueAt, Old
    <2>5. \/ tx.at = 1 /\ v = 13 /\ RowWithin(e)
          \/ tx.at = Len(M(v + 1)) /\ RowAt(e, v + 1)
        <3>1. CASE tx.at = 1 /\ v + 1 \notin Rewrites
            <4>1. s.op \in {"add", "ensure"} /\ s.cols = Adds(v + 1)
                <5>1. PICK k \in 1 .. 16 : k = v + 1
                    BY <1>1
                <5>. QED BY <3>1, <5>1, FirstStatements
            <4>2. RowAt(tx.row, v)
                BY <1>4, <3>1
            <4>3. WasGood
                BY DEF SchIInv
            <4>4. (v # 13 => RowAt(e, v + 1)) /\ (v = 13 => RowWithin(e))
                <5>. HIDE DEF s
                <5>. QED BY <3>1, <4>1, <4>2, <4>3, AddsStep DEF e
            <4>. HIDE DEF s
            <4>. QED BY <1>1, <1>3, <3>1, <4>4
        <3>2. CASE tx.at = 1 /\ v + 1 \in Rewrites
            <4>1. PICK col : /\ s = Schema!Rewrite(col, Schema!Legacy, Schema!Current)
                             /\ \/ v = 3 /\ col = "hz"
                                \/ v = 4 /\ col = "endpoint"
                                \/ v = 7 /\ col = "debounce"
                BY <1>1, <3>2, ConfigSteps DEF Rewrites
            <4>2. RowAt(tx.row, v)
                BY <1>4, <3>2
            <4>3. WasGood
                BY DEF SchIInv
            <4>4. RowAt(Schema!Executed(Schema!Rewrite(col, Schema!Legacy, Schema!Current), tx.row),
                        v + 1)
                BY <4>1, <4>2, <4>3, RewriteStep
            <4>5. RowAt(e, v + 1)
                BY <4>1, <4>4 DEF e
            <4>6. v # 13
                BY <4>1
            <4>. HIDE DEF s
            <4>. QED BY <1>3, <3>2, <4>5, <4>6
        <3>3. CASE tx.at = 2
            <4>1. v = 13 /\ RowWithin(tx.row)
                BY <1>4, <3>3
            <4>2. s = Schema!Invert
                BY <3>3, <4>1, SwipeSteps
            <4>3. was.version <= 13
                BY <1>0, <1>1, <4>1
            <4>. HIDE DEF s
            <4>. QED BY <1>3, <3>3, <4>1, <4>2, <4>3, InvertStep DEF SchIInv, e
        <3>. QED BY <1>4, <3>1, <3>2, <3>3
    <2>6. \/ tx'.at = 2 /\ file.version = 13 /\ RowWithin(tx.row)'
          \/ tx'.at = Len(M(file.version + 1)) + 1 /\ RowAt(tx.row, v + 1)'
        BY <1>1, <2>3, <2>4, <2>5
    <2>. QED BY <1>0, <1>1, <1>2, <1>5, <2>1, <2>2, <2>3, <2>6 DEF SchIInv
<1>. QED BY <1>6, <1>7

LEMMA SchemaStep == SchIInv /\ [Schema!SchemaNext]_svars => SchIInv'
<1>. SUFFICES ASSUME SchIInv, [Schema!SchemaNext]_svars PROVE SchIInv'
    OBVIOUS
<1>1. CASE UNCHANGED svars
    BY <1>1 DEF svars, SchIInv, WasGood, Old, RowAt, RowWithin, ValueAt
<1>2. CASE Schema!SchemaNext
    BY <1>2, OpensStep, BeginsStep, CommitsStep, StatementStep DEF Schema!SchemaNext
<1>. QED BY <1>1, <1>2

\* At the last version every column the daemon reads is there, with what it must hold
LEMMA SchemaHolds == SchIInv => Schema!OpenedIsWhole
<1>. SUFFICES ASSUME SchIInv, open = "opened" PROVE Schema!OpenedIsWhole
    BY DEF Schema!OpenedIsWhole
<1>1. /\ RowAt(file.row, 16) /\ WasGood /\ was.version \in 0 .. 16
      /\ DOMAIN was.row = Has(was.version)
    BY DEF SchIInv, WasGood
<1>2. Has(16) = Cols \ {"invert"}
    BY DEF Has, AddedBy, Cols
<1>3. Schema!Needed = Cols \ {"invert"}
    BY ColumnsAre DEF Schema!Needed
<1>4. DOMAIN file.row = Schema!Needed
    BY <1>1, <1>2, <1>3 DEF RowAt
<1>5. ASSUME NEW c \in DOMAIN was.row \cap Schema!Needed, c # "updown"
      PROVE  file.row[c] = Schema!Kept(c)
    <2>1. file.row[c] = ValueAt(c, 16) /\ c \in Has(was.version)
        BY <1>1, <1>2, <1>3 DEF RowAt
    <2>2. c = "endpoint" => Old(c) = IF was.version < 5 THEN Schema!Legacy ELSE Schema!Current
        BY <1>1, <2>1 DEF WasGood
    <2>. QED BY <1>1, <2>1, <2>2 DEF ValueAt, Schema!Kept, Old
<1>6. file.row["updown"] =
          IF "invert" \in DOMAIN was.row /\ was.row["invert"] = 1 THEN "swapped"
          ELSE IF "updown" \in DOMAIN was.row THEN was.row["updown"] ELSE "up"
    <2>1. file.row["updown"] = ValueAt("updown", 16)
        BY <1>1, <1>2 DEF RowAt, Cols
    <2>2. /\ "invert" \in Has(was.version) <=> was.version = 13
          /\ "updown" \in Has(was.version) <=> was.version >= 14
        BY <1>1 DEF Has, AddedBy, Cols
    <2>3. Schema!Default["updown"] = "up"
        BY DEF Schema!Default
    <2>. QED BY <1>1, <2>1, <2>2, <2>3 DEF ValueAt, Old
<1>. QED BY <1>4, <1>5, <1>6 DEF Schema!OpenedIsWhole

-----------------------------------------------------------------------------
(* The types of the parts: what their own invariants do not say *)

\* The history: what a save takes along, and the period a request is for
HistTyped ==
    /\ sql \in [n : Nat, days : Days] /\ ended \in Nat /\ snap.days \in Days
    /\ work # None => /\ work.st \in {"save", "refresh", "query", "publish"}
                      /\ work.n \in Nat /\ work.days \in Days \cup {None}
    /\ \A c \in calls : c.kind = "set" => c.days \in Days

LEMMA HistTypesBegin ==
    ASSUME Hist!HistoryInit
    PROVE  HistTyped
BY DEF Hist!HistoryInit, HistTyped

LEMMA LoopTypes ==
    ASSUME HistIInv, HistTyped,
           \/ Hist!Plays \/ Hist!HistoryTick \/ Hist!RefreshReads \/ Hist!RefreshQueries
           \/ Hist!RefreshPublishes \/ \E fails \in BOOLEAN : Hist!SaveTapStats(fails)
    PROVE  HistTyped'
<1>0. UNCHANGED calls
    BY DEF Hist!Plays, Hist!HistoryTick, Hist!RefreshReads, Hist!RefreshQueries,
           Hist!RefreshPublishes, Hist!SaveTapStats
<1>1. CASE Hist!Plays
    BY <1>0, <1>1 DEF Hist!Plays, HistTyped
<1>2. CASE Hist!HistoryTick
    <2> DEFINE st == IF ended > 0 \/ snap.unsaved THEN "save" ELSE "refresh"
               days == IF snap.unsaved THEN snap.days ELSE None
    <2>1. /\ work' = [st |-> st, n |-> ended, days |-> days, hist |-> None]
          /\ ended' = 0 /\ UNCHANGED sql
        BY <1>2 DEF Hist!HistoryTick
    <2>2. st \in {"save", "refresh"} /\ days \in Days \cup {None}
        BY DEF HistTyped
    <2>3. snap'.days = snap.days
        BY <1>2 DEF Hist!HistoryTick, HistIInv, HistoryShape
    <2>. HIDE DEF st, days
    <2>. QED BY <1>0, <2>1, <2>2, <2>3 DEF HistTyped
<1>3. ASSUME NEW fails \in BOOLEAN, Hist!SaveTapStats(fails) PROVE HistTyped'
    <2>1. work # None /\ work' = [work EXCEPT !.st = "refresh"]
        BY <1>3 DEF Hist!SaveTapStats
    <2>2. work' = [st |-> "refresh", n |-> work.n, days |-> work.days, hist |-> work.hist]
        BY <2>1 DEF HistIInv, HistoryShape
    <2>3. work.n \in Nat /\ work.days \in Days \cup {None} /\ ended \in Nat
          /\ sql \in [n : Nat, days : Days]
        BY <2>1 DEF HistTyped
    <2>4. ended' \in Nat
        BY <1>3, <2>3 DEF Hist!SaveTapStats
    <2>5. sql' \in [n : Nat, days : Days]
        <3> DEFINE n == sql.n + work.n
                   days == IF work.days = None THEN sql.days ELSE work.days
        <3>1. sql' = sql \/ sql' = [n |-> n, days |-> days]
            BY <1>3 DEF Hist!SaveTapStats
        <3>2. n \in Nat /\ days \in Days
            BY <2>3
        <3>. HIDE DEF n, days
        <3>. QED BY <2>3, <3>1, <3>2
    <2>6. snap'.days = snap.days
        <3>1. PICK u : snap' = [snap EXCEPT !.unsaved = u] \/ snap' = snap
            BY <1>3 DEF Hist!SaveTapStats
        <3>. QED BY <3>1 DEF HistIInv, HistoryShape
    <2>. QED BY <1>0, <2>2, <2>3, <2>4, <2>5, <2>6 DEF HistTyped
<1>4. CASE Hist!RefreshReads
    <2>1. /\ work # None /\ work' = [work EXCEPT !.st = "query", !.days = snap.days]
          /\ UNCHANGED <<snap, sql, ended>>
        BY <1>4 DEF Hist!RefreshReads
    <2>2. work' = [st |-> "query", n |-> work.n, days |-> snap.days, hist |-> work.hist]
        BY <2>1 DEF HistIInv, HistoryShape
    <2>. QED BY <1>0, <2>1, <2>2 DEF HistTyped
<1>5. CASE Hist!RefreshQueries
    <2> DEFINE h == Hist!History(work.days)
    <2>1. /\ work # None /\ work' = [work EXCEPT !.st = "publish", !.hist = h]
          /\ UNCHANGED <<snap, sql, ended>>
        BY <1>5 DEF Hist!RefreshQueries
    <2>. HIDE DEF h
    <2>2. work' = [st |-> "publish", n |-> work.n, days |-> work.days, hist |-> h]
        BY <2>1 DEF HistIInv, HistoryShape
    <2>. QED BY <1>0, <2>1, <2>2 DEF HistTyped
<1>6. CASE Hist!RefreshPublishes
    <2>1. work' = None /\ UNCHANGED <<sql, ended>> /\ \E h : snap' \in {snap, [snap EXCEPT !.hist = h]}
        BY <1>6 DEF Hist!RefreshPublishes
    <2>2. snap'.days = snap.days
        BY <2>1 DEF HistIInv, HistoryShape
    <2>. QED BY <1>0, <2>1, <2>2 DEF HistTyped
<1>. QED BY <1>1, <1>2, <1>3, <1>4, <1>5, <1>6

LEMMA RequestTypes ==
    ASSUME HistIInv, HistTyped, NEW c \in calls,
           Hist!PeriodQueries(c) \/ Hist!PeriodApplies(c) \/ Hist!GetTapStats(c)
    PROVE  HistTyped'
<1>0. UNCHANGED <<work, ended>> /\ (c.kind = "set" => c.days \in Days)
    BY DEF Hist!PeriodQueries, Hist!PeriodApplies, Hist!GetTapStats, HistTyped
<1>1. c = [kind |-> c.kind, days |-> c.days, st |-> c.st, hist |-> c.hist,
           saved |-> c.saved, got |-> c.got]
    BY DEF HistIInv, HistoryShape
<1>4. \A d \in calls' : d.kind = "set" => d.days \in Days
    <2>1. CASE Hist!PeriodQueries(c)
        <3>0. PICK s \in BOOLEAN : s = (~play)
            OBVIOUS
        <3>1. calls' = (calls \ {c}) \cup
                 {[c EXCEPT !.st = "read", !.hist = Hist!History(c.days), !.saved = s]}
            BY <2>1, <3>0 DEF Hist!PeriodQueries, Hist!Becomes
        <3> DEFINE h == Hist!History(c.days)
                   d == [kind |-> c.kind, days |-> c.days, st |-> "read", hist |-> h,
                         saved |-> s, got |-> c.got]
        <3>2. \A e, t : [c EXCEPT !.st = "read", !.hist = e, !.saved = t]
                       = [kind |-> c.kind, days |-> c.days, st |-> "read", hist |-> e,
                          saved |-> t, got |-> c.got]
            BY <1>1, CallMoves
        <3>3. d.kind = c.kind /\ d.days = c.days
            OBVIOUS
        <3>4. calls' = (calls \ {c}) \cup {d}
            BY <3>1, <3>2, Zenon
        <3>. HIDE DEF d
        <3>. QED BY <1>0, <3>3, <3>4 DEF HistTyped
    <2>2. CASE Hist!PeriodApplies(c) \/ Hist!GetTapStats(c)
        <3>1. PICK g : calls' = (calls \ {c}) \cup {[c EXCEPT !.st = "ok", !.got = g]}
            BY <2>2 DEF Hist!PeriodApplies, Hist!GetTapStats, Hist!Becomes
        <3> DEFINE d == [c EXCEPT !.st = "ok", !.got = g]
        <3>2. d = [kind |-> c.kind, days |-> c.days, st |-> "ok", hist |-> c.hist,
                   saved |-> c.saved, got |-> g]
            BY <1>1, CallMoves
        <3>3. d.kind = c.kind /\ d.days = c.days
            BY <3>2
        <3>. HIDE DEF d
        <3>. QED BY <1>0, <3>1, <3>3 DEF HistTyped, d
    <2>. QED BY <2>1, <2>2
<1>2. snap'.days \in Days
    BY <1>0 DEF Hist!PeriodQueries, Hist!PeriodApplies, Hist!GetTapStats, HistTyped
<1>3. sql' \in [n : Nat, days : Days]
    <2>1. sql' = sql \/ (c.kind = "set" /\ sql' = [sql EXCEPT !.days = c.days])
        BY DEF Hist!PeriodQueries, Hist!PeriodApplies, Hist!GetTapStats
    <2>. QED BY <1>0, <2>1 DEF HistTyped
<1>. QED BY <1>0, <1>2, <1>3, <1>4 DEF HistTyped

LEMMA PageTypes ==
    ASSUME HistTyped,
           \/ Hist!PollStats \/ Hist!BackoffOver \/ \E days \in Days : Hist!SetPeriod(days)
           \/ \E c \in calls : \E fails \in BOOLEAN :
                 Hist!Received(c, fails) \/ Hist!PeriodSet(c, fails)
    PROVE  HistTyped'
<1>1. UNCHANGED <<sql, ended, snap, work>>
    BY DEF Hist!PollStats, Hist!BackoffOver, Hist!SetPeriod, Hist!Received, Hist!PeriodSet
<1>2. \A d \in calls' : d \in calls \/ d = Hist!Call("poll", None)
                                        \/ \E days \in Days : d = Hist!Call("set", days)
    BY DEF Hist!PollStats, Hist!BackoffOver, Hist!SetPeriod, Hist!Received, Hist!PeriodSet
<1>3. /\ Hist!Call("poll", None).kind = "poll"
      /\ \A days \in Days : Hist!Call("set", days).days \in Days
    BY DEF Hist!Call
<1>4. \A d \in calls' : d.kind = "set" => d.days \in Days
    BY <1>2, <1>3 DEF HistTyped
<1>. QED BY <1>1, <1>4 DEF HistTyped

LEMMA HistTypesStay == HistIInv /\ HistTyped /\ [Hist!HistoryNext]_hvars => HistTyped'
<1>. SUFFICES ASSUME HistIInv, HistTyped, [Hist!HistoryNext]_hvars PROVE HistTyped'
    OBVIOUS
<1>1. CASE UNCHANGED hvars
    BY <1>1 DEF hvars, HistTyped
<1>2. CASE Hist!HistoryNext
    BY <1>2, LoopTypes, RequestTypes, PageTypes DEF Hist!HistoryNext, Hist!WorkStep
<1>. QED BY <1>1, <1>2

\* The schema: a transaction runs while the file is migrated
SchTyped ==
    /\ open \in {None, "migrating", "opened"}
    /\ tx # None => open = "migrating"

LEMMA SchTypesBegin ==
    ASSUME Schema!SchemaInit
    PROVE  SchTyped
BY DEF Schema!SchemaInit, SchTyped

LEMMA SchTypesStay == SchTyped /\ [Schema!SchemaNext]_svars => SchTyped'
<1>. SUFFICES ASSUME SchTyped, [Schema!SchemaNext]_svars PROVE SchTyped'
    OBVIOUS
<1>1. CASE Schema!Statement
    BY <1>1 DEF Schema!Statement, Schema!Fails, SchTyped
<1>. QED BY <1>1, SchemaAssumption
     DEF SchTyped, svars, Schema!SchemaNext, Schema!Opens, Schema!Begins, Schema!Commits,
         Schema!Dies, Schema!Fails, Schema!SchemaConstants

LEMMA SchTypesHold == SchIInv /\ SchTyped => Schema!SchemaTypeOK
<1>. SUFFICES ASSUME SchIInv, SchTyped PROVE Schema!SchemaTypeOK
    OBVIOUS
<1>1. was.version \in 0 .. 16 /\ file.version \in was.version .. 16
    BY DEF SchIInv, WasGood
<1>2. DOMAIN file.row \subseteq Schema!Columns
    BY ColumnsAre DEF SchIInv, RowAt, Has
<1>3. ASSUME tx # None PROVE file.version < 16 /\ tx.at \in 1 .. Len(Schema!Pending) + 1
    <2>1. file.version < 16
        BY <1>3 DEF SchIInv
    <2>2. PICK k \in 1 .. 16 : k = file.version + 1
        BY <1>1, <2>1
    <2>3. Schema!Pending = M(k) /\ Len(M(k)) = IF k = 14 THEN 2 ELSE 1
        BY <2>2, FirstStatements DEF Schema!Pending, M
    <2>4. tx.at \in {1, Len(M(k)) + 1} \/ (tx.at = 2 /\ k = 14)
        BY <1>1, <1>3, <2>2 DEF SchIInv
    <2>. QED BY <2>1, <2>3, <2>4
<1>. QED BY <1>1, <1>2, <1>3 DEF Schema!SchemaTypeOK, Schema!Last, SchTyped

-----------------------------------------------------------------------------
\* The forms: every configuration, wherever it is, is one
FormsTyped ==
    /\ dconf \in Forms!Configs /\ view.config \in Forms!Configs /\ form \in Nat
    /\ saves \subseteq Forms!Configs /\ \A c \in polls : c.conf \in Forms!Configs
    /\ mbounds \in [edits : Nat, saves : Nat, others : Nat, rejects : Nat, plugs : Nat]

KeysTyped ==
    /\ keys.edit \in {None} \cup (Nat \X Nat)
    /\ keys.edit = None => ~keys.dirty

PollsFew == IsFiniteSet(polls) /\ Cardinality(polls) <= MaxPolls

LEMMA FormsAre ==
    /\ MaxPolls \in Nat \ {0} /\ None \notin Nat \X Nat
    /\ Forms!Configs = [set : Nat, k1 : Nat, k2 : Nat]
    /\ \A S : Forms!Cardinality(S) = Cardinality(S)
BY FormsAssumption DEF Forms!FormsConstants, Forms!Configs, Forms!Cardinality, Cardinality

LEMMA FormsTypesBegin ==
    ASSUME Forms!FormsInit
    PROVE  FormsTyped /\ KeysTyped /\ PollsFew
<1>1. FormsTyped
    <2>1. Forms!Unset \in Forms!Configs
        BY FormsAre DEF Forms!Unset
    <2>2. dconf \in Forms!Configs
        BY FormsAre DEF Forms!FormsInit
    <2>3. view.config = Forms!Unset /\ form = 0 /\ saves = {} /\ polls = {Forms!Asked}
          /\ mbounds \in FormBudgets
        BY DEF Forms!FormsInit
    <2>4. Forms!Asked.conf = Forms!Unset
        BY DEF Forms!Asked
    <2>5. mbounds \in [edits : Nat, saves : Nat, others : Nat, rejects : Nat, plugs : Nat]
        BY <2>3, FormsAssumption DEF Forms!FormsConstants
    <2>. QED BY <2>1, <2>2, <2>3, <2>4, <2>5 DEF FormsTyped
<1>2. KeysTyped
    BY DEF Forms!FormsInit, KeysTyped
<1>3. PollsFew
    <2>1. polls = {Forms!Asked}
        BY DEF Forms!FormsInit
    <2>2. IsFiniteSet(polls) /\ Cardinality(polls) = 1
        BY <2>1, FS_Singleton
    <2>. QED BY <2>2, FormsAre DEF PollsFew
<1>. QED BY <1>1, <1>2, <1>3

LEMMA BudgetFalls ==
    ASSUME FormsTyped, NEW what \in {"edits", "saves", "others", "rejects", "plugs"},
           Forms!Uses(what)
    PROVE  mbounds' \in [edits : Nat, saves : Nat, others : Nat, rejects : Nat, plugs : Nat]
<1>1. mbounds[what] \in Nat /\ mbounds[what] > 0
    BY DEF FormsTyped, Forms!Uses
<1> DEFINE n == mbounds[what] - 1
<1>2. n \in Nat /\ mbounds' = [mbounds EXCEPT ![what] = n]
    BY <1>1 DEF Forms!Uses
<1>. HIDE DEF n
<1>. QED BY <1>2 DEF FormsTyped

\* The daemon stores and answers, the window asks and follows
LEMMA StatusTypes ==
    ASSUME FormsTyped,
           \/ Forms!Poll
           \/ \E call \in polls : Forms!Serve(call) \/ Forms!Status(call)
    PROVE  FormsTyped'
<1>0. UNCHANGED <<dconf, saves, mbounds>>
    BY DEF Forms!Poll, Forms!Serve, Forms!Status
<1>1. CASE Forms!Poll
    <2>1. Forms!Asked.conf \in Forms!Configs
        BY FormsAre DEF Forms!Asked, Forms!Unset
    <2>. QED BY <1>0, <1>1, <2>1 DEF Forms!Poll, FormsTyped
<1>2. ASSUME NEW call \in polls, Forms!Serve(call) PROVE FormsTyped'
    BY <1>0, <1>2 DEF Forms!Serve, FormsTyped
<1>3. ASSUME NEW call \in polls, Forms!Status(call) PROVE FormsTyped'
    <2>1. call.conf \in Forms!Configs /\ call.conf.set \in Nat
        BY FormsAre DEF FormsTyped
    <2>2. form' \in {form, call.conf.set} /\ view'.config = call.conf /\ polls' \subseteq polls
        BY <1>3 DEF Forms!Status
    <2>. QED BY <1>0, <2>1, <2>2 DEF FormsTyped
<1>. QED BY <1>1, <1>2, <1>3

LEMMA OthersTypes ==
    ASSUME FormsTyped,
           \/ Forms!PadPlugged \/ Forms!OtherClient
           \/ \E conf \in saves : Forms!Stored(conf)
    PROVE  FormsTyped'
<1>0. UNCHANGED <<view, form>>
    BY DEF Forms!PadPlugged, Forms!OtherClient, Forms!Stored
<1>1. CASE Forms!PadPlugged
    BY <1>0, <1>1, BudgetFalls DEF Forms!PadPlugged, FormsTyped
<1>2. CASE Forms!OtherClient
    <2>1. dconf' = [dconf EXCEPT !.set = 7, !.k2 = 7] /\ UNCHANGED <<saves, polls>>
        BY <1>2 DEF Forms!OtherClient
    <2>2. dconf' \in Forms!Configs
        BY <2>1, FormsAre DEF FormsTyped
    <2>3. mbounds' \in [edits : Nat, saves : Nat, others : Nat, rejects : Nat, plugs : Nat]
        BY <1>2, BudgetFalls DEF Forms!OtherClient
    <2>. QED BY <1>0, <2>1, <2>2, <2>3 DEF FormsTyped
<1>3. ASSUME NEW conf \in saves, Forms!Stored(conf) PROVE FormsTyped'
    <2>1. dconf' \in {dconf, conf} /\ saves' \subseteq saves
        BY <1>3 DEF Forms!Stored
    <2>2. polls' \subseteq polls \cup {Forms!Asked} /\ Forms!Asked.conf \in Forms!Configs
        BY <1>3, FormsAre DEF Forms!Stored, Forms!Asked, Forms!Unset
    <2>3. mbounds' \in [edits : Nat, saves : Nat, others : Nat, rejects : Nat, plugs : Nat]
        BY <1>3, BudgetFalls DEF Forms!Stored, FormsTyped
    <2>. QED BY <1>0, <2>1, <2>2, <2>3 DEF FormsTyped
<1>. QED BY <1>1, <1>2, <1>3

LEMMA EditsAre ==
    ASSUME FormsTyped, KeysTyped
    PROVE  Forms!Edits \in Nat \X Nat /\ Forms!Fresh \in Nat
<1>1. Forms!KeysOf(view.config) \in Nat \X Nat
    BY FormsAre DEF FormsTyped, Forms!KeysOf
<1>2. Forms!Fresh \in Nat
    BY DEF FormsTyped, Forms!Fresh
<1>. QED BY <1>1, <1>2 DEF KeysTyped, Forms!Edits

LEMMA UserTypes ==
    ASSUME FormsTyped, KeysTyped,
           \/ Forms!ChangeSetting \/ Forms!SaveConfig \/ Forms!KeysSave \/ Forms!Revert
           \/ \E i \in 1 .. 2 : Forms!SetKey(i)
           \/ \E on \in BOOLEAN : Forms!Separate(on)
    PROVE  FormsTyped'
<1>0. UNCHANGED <<dconf, view, polls>>
    BY DEF Forms!ChangeSetting, Forms!SaveConfig, Forms!KeysSave, Forms!Revert, Forms!SetKey,
           Forms!Separate
<1>1. mbounds' \in [edits : Nat, saves : Nat, others : Nat, rejects : Nat, plugs : Nat]
    BY BudgetFalls DEF Forms!ChangeSetting, Forms!SaveConfig, Forms!KeysSave, Forms!Revert,
                       Forms!SetKey, Forms!Separate, FormsTyped
<1>2. form' \in Nat
    BY EditsAre DEF Forms!ChangeSetting, Forms!SaveConfig, Forms!KeysSave, Forms!Revert,
                    Forms!SetKey, Forms!Separate, FormsTyped
<1>3. saves' \subseteq Forms!Configs
    <2>1. CASE Forms!SaveConfig
        <3>1. [view.config EXCEPT !.set = form] \in Forms!Configs
            BY FormsAre DEF FormsTyped
        <3>. QED BY <2>1, <3>1 DEF Forms!SaveConfig, FormsTyped
    <2>2. CASE Forms!KeysSave
        <3>1. PICK a \in Nat, b \in Nat : Forms!Edits[1] = a /\ Forms!Edits[2] = b
            BY EditsAre
        <3>2. [view.config EXCEPT !.k1 = a, !.k2 = b] \in Forms!Configs
            BY FormsAre DEF FormsTyped
        <3>. QED BY <2>2, <3>1, <3>2 DEF Forms!KeysSave, FormsTyped
    <2>3. CASE UNCHANGED saves
        BY <2>3 DEF FormsTyped
    <2>. QED BY <2>1, <2>2, <2>3
         DEF Forms!ChangeSetting, Forms!Revert, Forms!SetKey, Forms!Separate
<1>. QED BY <1>0, <1>1, <1>2, <1>3 DEF FormsTyped

\* What is typed is a pair of keys, and so is what an answer brings
LEMMA KeysTypes ==
    ASSUME FormsIInv, FormsTyped, KeysTyped, Forms!FormsNext
    PROVE  KeysTyped'
<1>0. /\ keys = [edit |-> keys.edit, dirty |-> keys.dirty, separate |-> keys.separate]
      /\ Forms!Edits \in Nat \X Nat /\ Forms!Fresh \in Nat /\ None \notin Nat \X Nat
    BY EditsAre, FormsAre DEF FormsIInv, FormsShape
<1>1. ASSUME NEW i \in 1 .. 2, Forms!SetKey(i) PROVE KeysTyped'
    <2> DEFINE e == IF keys.separate THEN [Forms!Edits EXCEPT ![i] = Forms!Fresh]
                                     ELSE <<Forms!Fresh, Forms!Fresh>>
    <2>1. keys' = [keys EXCEPT !.dirty = TRUE, !.edit = e]
        BY <1>1 DEF Forms!SetKey, Forms!Typing
    <2>2. e \in Nat \X Nat
        BY <1>0
    <2>. HIDE DEF e
    <2>3. keys'.edit = e
        BY <1>0, <2>1
    <2>. QED BY <1>0, <2>2, <2>3 DEF KeysTyped
<1>2. ASSUME NEW on \in BOOLEAN, Forms!Separate(on) PROVE KeysTyped'
    <2> DEFINE link == ~on /\ Forms!Edits[1] # Forms!Edits[2]
               e == IF link THEN <<Forms!Edits[1], Forms!Edits[1]>> ELSE Forms!Edits
               d == keys.dirty \/ link
    <2>1. keys' = [edit |-> e, dirty |-> d, separate |-> on]
        BY <1>2 DEF Forms!Separate, Forms!Typing
    <2>2. e \in Nat \X Nat
        BY <1>0
    <2>. HIDE DEF e, d
    <2>. QED BY <1>0, <2>1, <2>2 DEF KeysTyped
<1>3. CASE Forms!Revert
    <2>1. keys'.edit = Forms!KeysOf(view.config)
        BY <1>3 DEF Forms!Revert, Forms!Typing
    <2>2. Forms!KeysOf(view.config) \in Nat \X Nat
        BY FormsAre DEF FormsTyped, Forms!KeysOf
    <2>. QED BY <1>0, <2>1, <2>2 DEF KeysTyped
<1>4. CASE Forms!KeysSave
    <2>1. keys' = [edit |-> keys.edit, dirty |-> FALSE, separate |-> keys.separate]
        BY <1>0, <1>4 DEF Forms!KeysSave
    <2>. QED BY <2>1 DEF KeysTyped
<1>5. ASSUME NEW call \in polls, Forms!Status(call) PROVE KeysTyped'
    <2>1. keys' \in {keys, Forms!Adopted(call.conf)}
        BY <1>5 DEF Forms!Status
    <2>2. CASE keys' = keys
        BY <2>2 DEF KeysTyped
    <2>3. CASE keys' # keys
        <3> DEFINE sep == IF keys.edit = None THEN call.conf.k1 # call.conf.k2
                                              ELSE keys.separate
                   e == Forms!KeysOf(call.conf)
        <3>1. keys' = [keys EXCEPT !.edit = e, !.separate = sep]
            BY <2>1, <2>3 DEF Forms!Adopted
        <3>2. e \in Nat \X Nat
            BY FormsAre DEF FormsTyped, Forms!KeysOf
        <3>. HIDE DEF e, sep
        <3>3. keys' = [edit |-> e, dirty |-> keys.dirty, separate |-> sep]
            BY <1>0, <3>1
        <3>. QED BY <1>0, <3>2, <3>3 DEF KeysTyped
    <2>. QED BY <2>2, <2>3
<1>6. CASE UNCHANGED keys
    BY <1>6 DEF KeysTyped
<1>. QED BY <1>1, <1>2, <1>3, <1>4, <1>5, <1>6
     DEF Forms!FormsNext, Forms!PadPlugged, Forms!OtherClient, Forms!Poll, Forms!Serve,
         Forms!Stored, Forms!ChangeSetting, Forms!SaveConfig

\* A finite set that gains a member, or has one replaced
LEMMA OneMore ==
    ASSUME NEW S, IsFiniteSet(S), NEW x
    PROVE  IsFiniteSet(S \cup {x}) /\ Cardinality(S \cup {x}) <= Cardinality(S) + 1
           /\ Cardinality(S) \in Nat
BY FS_AddElement, FS_CardinalityType

LEMMA OneFor ==
    ASSUME NEW S, IsFiniteSet(S), NEW x \in S, NEW y
    PROVE  IsFiniteSet((S \ {x}) \cup {y}) /\ Cardinality((S \ {x}) \cup {y}) <= Cardinality(S)
<1>1. IsFiniteSet(S \ {x}) /\ Cardinality(S \ {x}) = Cardinality(S) - 1
    BY FS_RemoveElement
<1>2. Cardinality(S) \in Nat /\ Cardinality(S \ {x}) \in Nat
    BY <1>1, FS_CardinalityType
<1> DEFINE T == S \ {x}
<1>. HIDE DEF T
<1>3. IsFiniteSet(T) /\ Cardinality(T) = Cardinality(S) - 1
    BY <1>1 DEF T
<1>4. IsFiniteSet(T \cup {y}) /\ Cardinality(T \cup {y}) <= Cardinality(T) + 1
    BY <1>3, OneMore
<1>5. Cardinality(T \cup {y}) \in Nat
    BY <1>4, FS_CardinalityType
<1>6. Cardinality(T \cup {y}) <= Cardinality(S)
    BY <1>2, <1>3, <1>4, <1>5
<1>. QED BY <1>4, <1>6 DEF T

LEMMA PollsTypes ==
    ASSUME PollsFew, Forms!FormsNext
    PROVE  PollsFew'
<1>0. IsFiniteSet(polls) /\ Cardinality(polls) \in Nat /\ Cardinality(polls) <= MaxPolls
      /\ MaxPolls \in Nat
    BY FormsAre, FS_CardinalityType DEF PollsFew
<1>1. ASSUME NEW call \in polls, NEW y, polls' = (polls \ {call}) \cup {y} PROVE PollsFew'
    <2> DEFINE S == (polls \ {call}) \cup {y}
    <2>1. IsFiniteSet(S) /\ Cardinality(S) <= Cardinality(polls)
        BY <1>0, OneFor
    <2>2. Cardinality(S) \in Nat
        BY <2>1, FS_CardinalityType
    <2>3. polls' = S
        BY <1>1
    <2>. HIDE DEF S
    <2>. QED BY <1>0, <2>1, <2>2, <2>3 DEF PollsFew
<1>2. ASSUME NEW y, polls' = polls \cup {y}, Cardinality(polls) < MaxPolls PROVE PollsFew'
    <2> DEFINE S == polls \cup {y}
    <2>1. IsFiniteSet(S) /\ Cardinality(S) <= Cardinality(polls) + 1
        BY <1>0, OneMore
    <2>2. Cardinality(S) \in Nat
        BY <2>1, FS_CardinalityType
    <2>3. polls' = S
        BY <1>2
    <2>. HIDE DEF S
    <2>. QED BY <1>0, <1>2, <2>1, <2>2, <2>3 DEF PollsFew
<1>3. ASSUME polls' \subseteq polls PROVE PollsFew'
    <2>1. IsFiniteSet(polls') /\ Cardinality(polls') <= Cardinality(polls)
        BY <1>0, <1>3, FS_Subset
    <2>2. Cardinality(polls') \in Nat
        BY <2>1, FS_CardinalityType
    <2>. QED BY <1>0, <2>1, <2>2 DEF PollsFew
<1>4. ASSUME NEW call \in polls, Forms!Serve(call) PROVE PollsFew'
    BY <1>1, <1>4 DEF Forms!Serve
<1>5. ASSUME NEW conf \in saves, Forms!Stored(conf) PROVE PollsFew'
    BY <1>2, <1>3, <1>5, FormsAre DEF Forms!Stored
<1>6. CASE Forms!Poll
    BY <1>2, <1>6, FormsAre DEF Forms!Poll
<1>7. ASSUME NEW call \in polls, Forms!Status(call) PROVE PollsFew'
    BY <1>3, <1>7 DEF Forms!Status
<1>8. CASE UNCHANGED polls
    BY <1>3, <1>8
<1>. QED BY <1>4, <1>5, <1>6, <1>7, <1>8
     DEF Forms!FormsNext, Forms!PadPlugged, Forms!OtherClient, Forms!ChangeSetting,
         Forms!SaveConfig, Forms!SetKey, Forms!Separate, Forms!KeysSave, Forms!Revert

LEMMA FormsTypesStay ==
    ASSUME FormsIInv, FormsTyped, KeysTyped, PollsFew, [Forms!FormsNext]_mvars
    PROVE  FormsTyped' /\ KeysTyped' /\ PollsFew'
<1>1. CASE UNCHANGED mvars
    BY <1>1 DEF mvars, FormsTyped, KeysTyped, PollsFew
<1>2. CASE Forms!FormsNext
    <2>1. FormsTyped'
        BY <1>2, StatusTypes, OthersTypes, UserTypes DEF Forms!FormsNext
    <2>. QED BY <1>2, <2>1, KeysTypes, PollsTypes
<1>. QED BY <1>1, <1>2

LEMMA FormsTypesHold ==
    ASSUME FormsTyped, KeysTyped, PollsFew
    PROVE  Forms!FormsTypeOK
BY FormsAre DEF FormsTyped, KeysTyped, PollsFew, Forms!FormsTypeOK

-----------------------------------------------------------------------------
\* The log: what the window has is numbered, and polls under way are few
LogFew ==
    /\ lbounds \in [entries : Nat, restarts : Nat, polls : Nat]
    /\ IsFiniteSet(fetches) /\ Cardinality(fetches) <= lbounds.polls

LogRuns ==
    /\ hub.run \in Nat /\ logs \subseteq [run : Nat, n : Nat]
    /\ \A f \in fetches : f.run \in Nat

LEMMA LogTypesBegin ==
    ASSUME Logs!LogsInit
    PROVE  LogFew /\ LogRuns
<1>1. hub = [run |-> 1, next |-> 1] /\ logs = {} /\ fetches = {} /\ lbounds \in LogBudgets
    BY DEF Logs!LogsInit
<1>2. lbounds \in [entries : Nat, restarts : Nat, polls : Nat]
    BY <1>1, LogAssumption DEF Logs!LogConstants
<1>. QED BY <1>1, <1>2, FS_EmptySet DEF LogFew, LogRuns

LEMMA FewerFetches ==
    ASSUME LogFew, NEW S, IsFiniteSet(S), Cardinality(S) <= Cardinality(fetches), fetches' = S,
           lbounds' \in [entries : Nat, restarts : Nat, polls : Nat], lbounds'.polls = lbounds.polls
    PROVE  LogFew'
<1>1. Cardinality(S) \in Nat /\ Cardinality(fetches) \in Nat
    BY FS_CardinalityType DEF LogFew
<1>. QED BY <1>1 DEF LogFew

LEMMA LogFewStays ==
    ASSUME LogFew, Logs!LogsNext
    PROVE  LogFew'
<1>0. /\ IsFiniteSet(fetches) /\ Cardinality(fetches) \in Nat
      /\ Cardinality(fetches) <= lbounds.polls /\ lbounds.polls \in Nat
    BY FS_CardinalityType DEF LogFew
<1>1. ASSUME NEW what \in {"entries", "restarts"}, Logs!TakesOne(what)
      PROVE  /\ lbounds' \in [entries : Nat, restarts : Nat, polls : Nat]
             /\ lbounds'.polls = lbounds.polls
    <2>1. lbounds[what] \in Nat /\ lbounds[what] > 0
        BY <1>1 DEF Logs!TakesOne, LogFew
    <2> DEFINE n == lbounds[what] - 1
    <2>2. n \in Nat /\ lbounds' = [lbounds EXCEPT ![what] = n]
        BY <1>1, <2>1 DEF Logs!TakesOne
    <2>. HIDE DEF n
    <2>. QED BY <2>2 DEF LogFew
<1>2. CASE Logs!Logged
    BY <1>0, <1>1, <1>2, FewerFetches DEF Logs!Logged
<1>3. CASE Logs!DaemonRestarts
    <2>1. fetches' \subseteq fetches
        BY <1>3 DEF Logs!DaemonRestarts
    <2>2. IsFiniteSet(fetches') /\ Cardinality(fetches') <= Cardinality(fetches)
        BY <1>0, <2>1, FS_Subset
    <2>. QED BY <1>1, <1>3, <2>2, FewerFetches DEF Logs!DaemonRestarts
<1>4. CASE Logs!PollLogs
    <2>1. /\ \E f : fetches' = fetches \cup {f}
          /\ Logs!Cardinality(fetches) < lbounds.polls /\ UNCHANGED lbounds
        BY <1>4 DEF Logs!PollLogs
    <2>2. Cardinality(fetches) < lbounds.polls
        BY <2>1, SameCount
    <2>3. IsFiniteSet(fetches') /\ Cardinality(fetches') <= Cardinality(fetches) + 1
        BY <1>0, <2>1, OneMore
    <2>4. Cardinality(fetches') \in Nat
        BY <2>3, FS_CardinalityType
    <2>. QED BY <1>0, <2>1, <2>2, <2>3, <2>4 DEF LogFew
<1>5. ASSUME NEW f \in fetches, Logs!Serves(f) PROVE LogFew'
    <2>1. (\E g : fetches' = (fetches \ {f}) \cup {g}) /\ UNCHANGED lbounds
        BY <1>5 DEF Logs!Serves
    <2>2. IsFiniteSet(fetches') /\ Cardinality(fetches') <= Cardinality(fetches)
        BY <1>0, <2>1, OneFor
    <2>. QED BY <2>1, <2>2, FewerFetches DEF LogFew
<1>6. ASSUME NEW f \in fetches, Logs!Received(f) PROVE LogFew'
    <2>1. fetches' \subseteq fetches /\ UNCHANGED lbounds
        BY <1>6 DEF Logs!Received
    <2>2. IsFiniteSet(fetches') /\ Cardinality(fetches') <= Cardinality(fetches)
        BY <1>0, <2>1, FS_Subset
    <2>. QED BY <2>1, <2>2, FewerFetches DEF LogFew
<1>. QED BY <1>2, <1>3, <1>4, <1>5, <1>6 DEF Logs!LogsNext

LEMMA LogRunsStay ==
    ASSUME LogIInv, LogRuns, Logs!LogsNext
    PROVE  LogRuns'
<1>1. CASE Logs!Logged
    <2>1. hub' = [hub EXCEPT !.next = @ + 1] /\ UNCHANGED <<logs, fetches>>
        BY <1>1 DEF Logs!Logged
    <2>2. hub'.run = hub.run
        BY <2>1 DEF LogIInv, LogTyped
    <2>. QED BY <2>1, <2>2 DEF LogRuns
<1>2. CASE Logs!DaemonRestarts
    <2>1. hub'.run = hub.run + 1 /\ UNCHANGED logs /\ fetches' \subseteq fetches
        BY <1>2 DEF Logs!DaemonRestarts
    <2>. QED BY <2>1 DEF LogRuns
<1>3. CASE Logs!PollLogs
    <2>1. UNCHANGED <<hub, logs>> /\ \A f \in fetches' : f \in fetches \/ f.run = 0
        BY <1>3 DEF Logs!PollLogs
    <2>. QED BY <2>1 DEF LogRuns
<1>4. ASSUME NEW f \in fetches, Logs!Serves(f) PROVE LogRuns'
    <2>1. PICK got :
              /\ fetches' = (fetches \ {f}) \cup {[f EXCEPT !.st = "ok", !.run = hub.run,
                                                  !.latest = Logs!Newest, !.got = got]}
              /\ UNCHANGED <<hub, logs>>
        BY <1>4 DEF Logs!Serves
    <2> DEFINE g == [f EXCEPT !.st = "ok", !.run = hub.run, !.latest = Logs!Newest, !.got = got]
    <2>2. f \in [st : {f.st}, since : {f.since}, run : {f.run}, latest : {f.latest}, got : {f.got}]
        BY DEF LogIInv, LogTyped
    <2>3. g.run = hub.run
        BY <2>2
    <2>4. fetches' = (fetches \ {f}) \cup {g}
        BY <2>1
    <2>. HIDE DEF g
    <2>. QED BY <2>1, <2>3, <2>4 DEF LogRuns
<1>5. ASSUME NEW f \in fetches, Logs!Received(f) PROVE LogRuns'
    <2>1. f.run \in Nat /\ \A n \in f.got : n \in Nat
        BY DEF LogIInv, LogTyped, LogRuns
    <2>2. /\ logs' \subseteq logs \cup {[run |-> f.run, n |-> n] : n \in f.got}
          /\ fetches' \subseteq fetches /\ UNCHANGED hub
        BY <1>5 DEF Logs!Received
    <2>. QED BY <2>1, <2>2 DEF LogRuns
<1>. QED BY <1>1, <1>2, <1>3, <1>4, <1>5 DEF Logs!LogsNext

LEMMA LogTypesStay ==
    ASSUME LogIInv, LogFew, LogRuns, [Logs!LogsNext]_lvars
    PROVE  LogFew' /\ LogRuns'
<1>1. CASE UNCHANGED lvars
    BY <1>1 DEF lvars, LogFew, LogRuns
<1>. QED BY <1>1, LogFewStays, LogRunsStay

LEMMA LogTypesHold ==
    ASSUME LogIInv, LogFew, LogRuns
    PROVE  Logs!LogsTypeOK
BY SameCount DEF LogIInv, LogTyped, LogFew, LogRuns, Logs!LogsTypeOK

-----------------------------------------------------------------------------
\* The port: the names asked and the boards that came are some there are
PortSets ==
    /\ probes \subseteq Names /\ came \subseteq Ports!Boards /\ plugs \in 0 .. MaxPlugs

LEMMA PlugsAre == MaxPlugs \in Nat
BY PortAssumption DEF Ports!PortConstants

LEMMA PortSetsBegin ==
    ASSUME Ports!PortsInit
    PROVE  PortSets
BY PlugsAre DEF Ports!PortsInit, PortSets

LEMMA PortSetsStay ==
    ASSUME PortIInv, PortSets, [Ports!PortsNext]_pvars
    PROVE  PortSets'
<1>1. ASSUME NEW b \in Ports!Boards, (\E mode \in {"app", "rom"} : Ports!Plug(b, mode)) \/ Ports!Unplug(b)
      PROVE  PortSets'
    <2>1. plugs > 0 /\ plugs' = plugs - 1 /\ UNCHANGED probes /\ came' \subseteq came \cup {b}
        BY <1>1 DEF Ports!Plug, Ports!Unplug
    <2>. QED BY <2>1, PlugsAre DEF PortSets
<1>2. CASE Ports!Enumerates
    <2>1. UNCHANGED <<probes, plugs>> /\ came' \subseteq came \cup {Pad}
        BY <1>2 DEF Ports!Enumerates
    <2>. QED BY <2>1, PortBoardsAre DEF PortSets
<1>3. CASE Ports!Discover
    <2>1. Ports!Candidates \subseteq Names
        BY DEF Ports!Candidates, Ports!Named, PortIInv, PortTypes, PortBoards
    <2>2. probes' \subseteq probes \cup Ports!Candidates /\ UNCHANGED <<came, plugs>>
        BY <1>3 DEF Ports!Discover
    <2>. QED BY <2>1, <2>2 DEF PortSets
<1>4. CASE \E n \in Names : Ports!DueAgain(n)
    BY <1>4 DEF Ports!DueAgain, PortSets
<1>5. CASE Ports!Ask \/ Ports!Locate
    BY <1>5 DEF Ports!Ask, Ports!Locate, PortSets
<1>6. CASE UNCHANGED <<probes, came, plugs>>
    BY <1>6 DEF PortSets
<1>7. ASSUME Ports!Boots \/ Ports!Lost \/ Ports!Trigger \/ Ports!Look \/ Ports!LookOver \/ Ports!GivesUp
             \/ Ports!FlashOver
      PROVE  PortSets'
    BY <1>6, <1>7 DEF Ports!Boots, Ports!Lost, Ports!Trigger, Ports!Look, Ports!LookOver,
                      Ports!GivesUp, Ports!FlashOver
<1>. QED BY <1>1, <1>2, <1>3, <1>4, <1>5, <1>6, <1>7 DEF pvars, Ports!PortsNext, Ports!FlashSteps

LEMMA PortTypesHold ==
    ASSUME PortIInv, PortSets
    PROVE  Ports!PortsTypeOK
<1>1. dev \in [Ports!Boards -> [socket : Sockets \cup {None}, name : Names \cup {None},
                                mode : {"app", "rom", "to rom", "to app", None}, ready : BOOLEAN]]
    BY DEF PortIInv, PortTypes, PortBoards, PortModes
<1>2. held \in Names \cup {None}
      /\ flash.at \in {None, "asked", "trigger", "look", "took", "given", "failed"}
    BY DEF PortIInv, PortTypes, PortFlashes
<1>. QED BY <1>1, <1>2 DEF PortSets, Ports!PortsTypeOK

-----------------------------------------------------------------------------
\* Releases: the policy speaks of tags, and a track runs one or none
FeedTags ==
    /\ policy \in [yanked : SUBSET Tags, partial : SUBSET Tags]
    /\ inst.has \in [Feed!Tracks -> Tags \cup {None}]

LEMMA FeedTagsBegin ==
    ASSUME Feed!FeedInit
    PROVE  FeedTags
<1>1. policy = [yanked |-> {}, partial |-> {}] /\ inst.has = [x \in Feed!Tracks |-> None]
    BY DEF Feed!FeedInit
<1>. QED BY <1>1 DEF FeedTags

LEMMA FeedTagsStay ==
    ASSUME FeedIInv, FeedTags, [Feed!FeedNext]_zvars
    PROVE  FeedTags'
<1>0. policy = [yanked |-> policy.yanked, partial |-> policy.partial]
    BY DEF FeedTags
<1>1. ASSUME NEW t \in Tags, Feed!Yank(t) \/ Feed!Narrow(t) \/ Feed!Widen(t) PROVE FeedTags'
    <2>1. UNCHANGED inst
        BY <1>1 DEF Feed!Yank, Feed!Narrow, Feed!Widen
    <2>2. CASE Feed!Yank(t)
        <3>1. policy' = [yanked |-> policy.yanked \cup {t}, partial |-> policy.partial]
            BY <1>0, <2>2 DEF Feed!Yank
        <3>. QED BY <2>1, <3>1 DEF FeedTags
    <2>3. CASE Feed!Narrow(t)
        <3>1. policy' = [yanked |-> policy.yanked, partial |-> policy.partial \cup {t}]
            BY <1>0, <2>3 DEF Feed!Narrow
        <3>. QED BY <2>1, <3>1 DEF FeedTags
    <2>4. CASE Feed!Widen(t)
        <3>1. policy' = [yanked |-> policy.yanked, partial |-> policy.partial \ {t}]
            BY <1>0, <2>4 DEF Feed!Widen
        <3>. QED BY <2>1, <3>1 DEF FeedTags
    <2>. QED BY <1>1, <2>2, <2>3, <2>4
<1>2. ASSUME UNCHANGED policy, inst'.has \in [Feed!Tracks -> Tags \cup {None}]
      PROVE  FeedTags'
    BY <1>2 DEF FeedTags
<1>3. CASE UNCHANGED <<policy, inst>>
    BY <1>2, <1>3 DEF FeedTags
<1>4. CASE Feed!CheckStale \/ Feed!Switch
    <2>1. UNCHANGED policy /\ inst'.has = inst.has
        BY <1>4 DEF Feed!CheckStale, Feed!Check, Feed!Switch, FeedIInv, InstallHolds
    <2>. QED BY <1>2, <2>1 DEF FeedTags
<1>5. CASE Feed!Install
    <2>1. PICK t \in Feed!Updates : inst' = [inst EXCEPT !.has[InfoOf[t].track] = t]
        BY <1>5 DEF Feed!Install
    <2>2. inst'.has = [inst.has EXCEPT ![InfoOf[t].track] = t]
        BY <2>1 DEF FeedIInv, InstallHolds
    <2>3. t \in Tags
        BY <1>5 DEF Feed!Install, Feed!Updates, Feed!Offered, FeedIInv, InstallHolds, GoodFeed
    <2>4. UNCHANGED policy
        BY <1>5 DEF Feed!Install
    <2>. QED BY <1>2, <2>2, <2>3, <2>4 DEF FeedTags
<1>. QED BY <1>1, <1>3, <1>4, <1>5
     DEF zvars, Feed!FeedNext, Feed!DraftOf, Feed!Publish, Feed!WeekPasses, Feed!Build,
         Feed!Deploy

LEMMA FeedTypesHold ==
    ASSUME FeedIInv, FeedTags
    PROVE  Feed!FeedTypeOK
BY DEF FeedIInv, HubTyped, InstallHolds, FeedTags, Feed!FeedTypeOK

-----------------------------------------------------------------------------
\* The panel: what the window itself keeps
PanelFlags ==
    /\ inmap \in BOOLEAN /\ busy \in BOOLEAN /\ shown \in BOOLEAN
    /\ age \in {"forced", "fresh", "busy", "slow"}

LEMMA PanelFlagsBegin ==
    ASSUME Panel!PanelInit
    PROVE  PanelFlags
BY DEF Panel!PanelInit, PanelFlags

LEMMA PanelFlagsStay ==
    ASSUME PanelFlags, [Panel!PanelNext]_wvars
    PROVE  PanelFlags'
<1>1. inmap' \in BOOLEAN
    <2>1. CASE UNCHANGED inmap
        BY <2>1 DEF PanelFlags
    <2>2. CASE Panel!ModeChanges
        BY <2>2 DEF Panel!ModeChanges
    <2>. QED BY <2>1, <2>2
         DEF wvars, Panel!PanelNext, Panel!GetUpdateStatus, Panel!SetUpdateEnabled,
             Panel!SetUpdateChannel, Panel!ChannelSaved, Panel!Commands, Panel!WorkerTicks,
             Panel!TakesCheck, Panel!TakesChannel, Panel!TakesInstall, Panel!CheckReads,
             Panel!CheckEnds, Panel!InstallEnds, Panel!Ages, Panel!PollTick,
             Panel!OpensSettings, Panel!Window, Panel!UpdateStatus, Panel!ActionDone,
             Panel!ToggleUpdater, Panel!CheckForUpdates, Panel!InstallUpdate,
             Panel!PicksChannel, Panel!Clicks, Panel!dvars
<1>2. busy' \in BOOLEAN
    <2>1. busy' = busy \/ busy' = TRUE \/ busy' = FALSE
        BY DEF wvars, Panel!PanelNext, Panel!GetUpdateStatus, Panel!SetUpdateEnabled,
             Panel!SetUpdateChannel, Panel!ChannelSaved, Panel!Commands, Panel!WorkerTicks,
             Panel!TakesCheck, Panel!TakesChannel, Panel!TakesInstall, Panel!CheckReads,
             Panel!CheckEnds, Panel!InstallEnds, Panel!Ages, Panel!PollTick, Panel!ModeChanges,
             Panel!OpensSettings, Panel!Window, Panel!UpdateStatus, Panel!ActionDone,
             Panel!ToggleUpdater, Panel!CheckForUpdates, Panel!InstallUpdate,
             Panel!PicksChannel, Panel!gvars
    <2>. QED BY <2>1, Zenon DEF PanelFlags
<1>3. shown' \in BOOLEAN
    <2>1. CASE UNCHANGED shown
        BY <2>1 DEF PanelFlags
    <2>2. CASE Panel!Window
        BY <2>2 DEF Panel!Window
    <2>. QED BY <2>1, <2>2
         DEF wvars, Panel!PanelNext, Panel!GetUpdateStatus, Panel!SetUpdateEnabled,
             Panel!SetUpdateChannel, Panel!ChannelSaved, Panel!Commands, Panel!WorkerTicks,
             Panel!TakesCheck, Panel!TakesChannel, Panel!TakesInstall, Panel!CheckReads,
             Panel!CheckEnds, Panel!InstallEnds, Panel!Ages, Panel!PollTick, Panel!ModeChanges,
             Panel!OpensSettings, Panel!UpdateStatus, Panel!ActionDone,
             Panel!ToggleUpdater, Panel!CheckForUpdates, Panel!InstallUpdate,
             Panel!PicksChannel, Panel!Clicks, Panel!gvars
<1>4. age' \in {"forced", "fresh", "busy", "slow"}
    <2>1. CASE UNCHANGED age
        BY <2>1 DEF PanelFlags
    <2>2. CASE Panel!Ages \/ Panel!PollTick \/ Panel!OpensSettings \/ Panel!Window
               \/ \E c \in asked : Panel!ActionDone(c)
        BY <2>2 DEF Panel!Ages, Panel!PollTick, Panel!OpensSettings, Panel!Window,
                    Panel!ActionDone, Panel!Polls, PanelFlags
    <2>. QED BY <2>1, <2>2
         DEF wvars, Panel!PanelNext, Panel!GetUpdateStatus, Panel!SetUpdateEnabled,
             Panel!SetUpdateChannel, Panel!ChannelSaved, Panel!Commands, Panel!WorkerTicks,
             Panel!TakesCheck, Panel!TakesChannel, Panel!TakesInstall, Panel!CheckReads,
             Panel!CheckEnds, Panel!InstallEnds, Panel!ModeChanges, Panel!UpdateStatus,
             Panel!ToggleUpdater, Panel!CheckForUpdates, Panel!InstallUpdate,
             Panel!PicksChannel, Panel!Clicks, Panel!gvars
<1>. QED BY <1>1, <1>2, <1>3, <1>4 DEF PanelFlags

LEMMA PanelTypesHold ==
    ASSUME PanelIInv, PanelFlags
    PROVE  Panel!PanelTypeOK
<1>1. Panel!Statuses = PanelStates
    BY DEF Panel!Statuses, PanelStates
<1>2. /\ stored \in [channel : Panel!Channels, on : BOOLEAN]
      /\ worker \in PanelStates /\ panel \in {None} \cup PanelStates
      /\ feed \in Panel!Channels \cup {None} /\ task.st \in {"idle", "check", "install"}
    BY DEF PanelIInv, PanelTyped
<1>3. \A c \in asked : /\ c.kind \in {"poll", "toggle", "channel", "check", "install"}
                       /\ c.kind = "poll" /\ c.st = "back" => c.arg \in PanelStates
    BY DEF PanelIInv, PanelTyped, PanelCalls
<1>. QED BY <1>1, <1>2, <1>3 DEF PanelFlags, Panel!PanelTypeOK

-----------------------------------------------------------------------------
(* The parts *)

SettleInv ==
    /\ part = "history"  => HistIInv
    /\ part = "schema"   => SchIInv
    /\ part = "forms"    => FormsIInv
    /\ part = "logs"     => LogIInv
    /\ part = "ports"    => PortIInv
    /\ part = "releases" => FeedIInv
    /\ part = "panel"    => PanelIInv

\* The part that moves keeps its invariant, the others stand still.
LEMMA SettleInductive == Spec => []SettleInv
<1>1. Init => SettleInv
    BY HistoryInitial, SchemaInitial, FormsInitial, LogInitial, PortInitial, FeedInitial,
       PanelInitial
    DEF Init, SettleInv
<1>2. SettleInv /\ [Next]_vars => SettleInv'
    <2>. SUFFICES ASSUME SettleInv, [Next]_vars PROVE SettleInv'
        OBVIOUS
    <2>0. part' = part
        BY DEF Next, vars
    <2>1. ASSUME part = "history" PROVE HistIInv'
        <3>1. HistIInv /\ [Hist!HistoryNext]_hvars
            BY <2>1 DEF SettleInv, Next, vars
        <3>. QED BY <3>1, HistoryStep
    <2>2. ASSUME part = "schema" PROVE SchIInv'
        <3>1. SchIInv /\ [Schema!SchemaNext]_svars
            BY <2>2 DEF SettleInv, Next, vars
        <3>. QED BY <3>1, SchemaStep
    <2>3. ASSUME part = "forms" PROVE FormsIInv'
        <3>1. FormsIInv /\ [Forms!FormsNext]_mvars
            BY <2>3 DEF SettleInv, Next, vars
        <3>. QED BY <3>1, FormsStep
    <2>4. ASSUME part = "logs" PROVE LogIInv'
        <3>1. LogIInv /\ [Logs!LogsNext]_lvars
            BY <2>4 DEF SettleInv, Next, vars
        <3>. QED BY <3>1, LogStep
    <2>5. ASSUME part = "ports" PROVE PortIInv'
        <3>1. PortIInv /\ [Ports!PortsNext]_pvars
            BY <2>5 DEF SettleInv, Next, vars
        <3>. QED BY <3>1, PortStep
    <2>6. ASSUME part = "releases" PROVE FeedIInv'
        <3>1. FeedIInv /\ [Feed!FeedNext]_zvars
            BY <2>6 DEF SettleInv, Next, vars
        <3>. QED BY <3>1, FeedStep
    <2>7. ASSUME part = "panel" PROVE PanelIInv'
        <3>1. PanelIInv /\ [Panel!PanelNext]_wvars
            BY <2>7 DEF SettleInv, Next, vars
        <3>. QED BY <3>1, PanelStep
    <2>. QED BY <2>0, <2>1, <2>2, <2>3, <2>4, <2>5, <2>6, <2>7 DEF SettleInv
<1>. QED BY <1>1, <1>2, PTL DEF Spec

\* The flasher takes no stranger's bootloader that it could tell from the pad's,
\* whatever is plugged, unplugged and renumbered.
THEOREM StrangersStayOut == Spec => NeverAStranger
<1>1. SettleInv /\ [Next]_vars => [part = "ports" => Ports!NeverAStranger]_vars
    <2>. SUFFICES ASSUME SettleInv, [Next]_vars, part = "ports" PROVE Ports!NeverAStranger
        OBVIOUS
    <2>1. PortIInv /\ [Ports!PortsNext]_pvars
        BY DEF SettleInv, Next, vars
    <2>. QED BY <2>1, StrangerStep
<1>. QED BY <1>1, SettleInductive, PTL DEF Spec, NeverAStranger

\* An install takes only what is published and newer than what it runs, on stable
\* no pre-release, and nothing pulled before the newest feed it has read of its
\* channel was built, however old the deployments are that the site serves.
THEOREM InstallsStay == Spec => InstallsStayGood
<1>1. SettleInv /\ [Next]_vars => [part = "releases" => Feed!InstallsAreGood]_vars
    <2>. SUFFICES ASSUME SettleInv, [Next]_vars, part = "releases" PROVE Feed!InstallsAreGood
        OBVIOUS
    <2>1. FeedIInv /\ [Feed!FeedNext]_zvars
        BY DEF SettleInv, Next, vars
    <2>. QED BY <2>1, GoodStep
<1>. QED BY <1>1, SettleInductive, PTL DEF Spec, InstallsStayGood

\* However late answers come, unsaved key edits stay as the user left them, the
\* worker follows the channel saved last once every switch has reached it, and the
\* log page of a daemon that goes on running has every entry up to its cursor that
\* the ring still held.
THEOREM EditsAreKept == Spec => []EditsStay
<1>1. SettleInv => EditsStay
    BY LogHolds DEF SettleInv, FormsIInv, PanelIInv, EditsStay
<1>. QED BY <1>1, SettleInductive, PTL

\* Wherever earlier openings were cut, a database that opened has every column the
\* daemon reads and what the player had set in it, and the tap history the daemon
\* holds is of the period it says.
THEOREM StoredStays == Spec => []StoredWhole
<1>1. HistIInv => Hist!HistoryIsOfThePeriod
    BY DEF HistIInv, OfItsPeriod, Hist!HistoryIsOfThePeriod
<1>2. SettleInv => StoredWhole
    BY <1>1, SchemaHolds DEF SettleInv, StoredWhole
<1>. QED BY <1>2, SettleInductive, PTL

SettleTyped ==
    /\ part = "history"  => HistTyped
    /\ part = "schema"   => SchTyped
    /\ part = "forms"    => FormsTyped /\ KeysTyped /\ PollsFew
    /\ part = "logs"     => LogFew /\ LogRuns
    /\ part = "ports"    => PortSets
    /\ part = "releases" => FeedTags
    /\ part = "panel"    => PanelFlags

\* What is typed stays so, beside the part's invariant.
LEMMA SettleTypesStay == Spec => []SettleTyped
<1>1. Init => SettleTyped
    BY HistTypesBegin, SchTypesBegin, FormsTypesBegin, LogTypesBegin, PortSetsBegin,
       FeedTagsBegin, PanelFlagsBegin
    DEF Init, SettleTyped
<1>2. SettleInv /\ SettleTyped /\ [Next]_vars => SettleTyped'
    <2>. SUFFICES ASSUME SettleInv, SettleTyped, [Next]_vars PROVE SettleTyped'
        OBVIOUS
    <2>0. part' = part
        BY DEF Next, vars
    <2>1. ASSUME part = "history" PROVE HistTyped'
        <3>1. HistIInv /\ HistTyped /\ [Hist!HistoryNext]_hvars
            BY <2>1 DEF SettleInv, SettleTyped, Next, vars
        <3>. QED BY <3>1, HistTypesStay
    <2>2. ASSUME part = "schema" PROVE SchTyped'
        <3>1. SchTyped /\ [Schema!SchemaNext]_svars
            BY <2>2 DEF SettleTyped, Next, vars
        <3>. QED BY <3>1, SchTypesStay
    <2>3. ASSUME part = "forms" PROVE FormsTyped' /\ KeysTyped' /\ PollsFew'
        <3>1. /\ FormsIInv /\ FormsTyped /\ KeysTyped /\ PollsFew
              /\ [Forms!FormsNext]_mvars
            BY <2>3 DEF SettleInv, SettleTyped, Next, vars
        <3>. QED BY <3>1, FormsTypesStay
    <2>4. ASSUME part = "logs" PROVE LogFew' /\ LogRuns'
        <3>1. LogIInv /\ LogFew /\ LogRuns /\ [Logs!LogsNext]_lvars
            BY <2>4 DEF SettleInv, SettleTyped, Next, vars
        <3>. QED BY <3>1, LogTypesStay
    <2>5. ASSUME part = "ports" PROVE PortSets'
        <3>1. PortIInv /\ PortSets /\ [Ports!PortsNext]_pvars
            BY <2>5 DEF SettleInv, SettleTyped, Next, vars
        <3>. QED BY <3>1, PortSetsStay
    <2>6. ASSUME part = "releases" PROVE FeedTags'
        <3>1. FeedIInv /\ FeedTags /\ [Feed!FeedNext]_zvars
            BY <2>6 DEF SettleInv, SettleTyped, Next, vars
        <3>. QED BY <3>1, FeedTagsStay
    <2>7. ASSUME part = "panel" PROVE PanelFlags'
        <3>1. PanelFlags /\ [Panel!PanelNext]_wvars
            BY <2>7 DEF SettleTyped, Next, vars
        <3>. QED BY <3>1, PanelFlagsStay
    <2>. QED BY <2>0, <2>1, <2>2, <2>3, <2>4, <2>5, <2>6, <2>7 DEF SettleTyped
<1>. QED BY <1>1, <1>2, SettleInductive, PTL DEF Spec

\* Every part stays within its types: a transaction within the migration it is of,
\* the polls under way within their number, the configurations, calls, queues and
\* log cursors within what the code can hold.
THEOREM TypeCorrect == Spec => []SettleTypeOK
<1>1. HistTyped => Hist!HistoryTypeOK
    BY DEF HistTyped, Hist!HistoryTypeOK
<1>2. SettleInv /\ SettleTyped /\ ChecksInv => SettleTypeOK
    <2>. SUFFICES ASSUME SettleInv, SettleTyped, ChecksInv PROVE SettleTypeOK
        OBVIOUS
    <2>1. /\ part = "history"  => Hist!HistoryTypeOK
          /\ part = "schema"   => Schema!SchemaTypeOK
          /\ part = "forms"    => Forms!FormsTypeOK
          /\ part = "logs"     => Logs!LogsTypeOK
        BY <1>1, SchTypesHold, FormsTypesHold, LogTypesHold DEF SettleInv, SettleTyped
    <2>2. /\ part = "ports"    => Ports!PortsTypeOK
          /\ part = "releases" => Feed!FeedTypeOK
          /\ part = "panel"    => Panel!PanelTypeOK
        BY PortTypesHold, FeedTypesHold, PanelTypesHold DEF SettleInv, SettleTyped
    <2>3. /\ part = "calibration" => Cal!CalTypeOK
          /\ part = "checks"      => Checks!ChecksTypeOK
          /\ part = "switches"    => Tester!TesterTypeOK
          /\ part = "monitor"     => Monitor!MonitorTypeOK
        BY CalHolds, ChecksHold, TesterHolds, MonitorHolds DEF ChecksInv
    <2>. QED BY <2>1, <2>2, <2>3 DEF SettleTypeOK
<1>. QED BY <1>2, SettleInductive, SettleTypesStay, ChecksInductive, PTL
=============================================================================
