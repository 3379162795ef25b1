------------------------------ MODULE CableProofs -------------------------------
(***************************************************************************)
(* The invariants of the four parts over the cable, for every number of    *)
(* flashes, cuts, maps and lost frames: the configuration is kept, the     *)
(* stream outlives its lease, a flash that is cut leaves a keyboard, and   *)
(* its verdict is true of the pad it is given of.                          *)
(*                                                                         *)
(* Each part has an inductive invariant of its own; CableInv holds the one *)
(* of the part the behaviour is of.  PadConfig has a specification of its  *)
(* own, and its theorems (TypeCorrect, Kept) are of that one.              *)
(***************************************************************************)
EXTENDS MCCable, SequenceTheorems, TLAPS

-----------------------------------------------------------------------------
(* The configuration: what the PC believes in is what the pad uses *)

Frames == [what : {"cfg", "layout", "play", "stop"}, v : Nat]
Pairs  == [cfg : Nat, layout : Nat]

HostOK == /\ cmode \in {"idle", "map", "sync"} /\ linked \in BOOLEAN
          /\ cfg \in Nat /\ layout \in Nat /\ cdb \in Pairs
          /\ later \in [cfg : Values, layout : Values]
WireOK == wire \in Seq(Frames) /\ (linked \/ wire = <<>>)
PadOK  == /\ pst \in {"idle", "map"} /\ ram \in Pairs /\ flash \in Pairs
          /\ dirty \in [cfg : BOOLEAN, layout : Values]
          /\ proto \in Values /\ flusher \in Values
RestOK == /\ cbounds \in [sets : Nat, maps : Nat, cuts : Nat, fails : Nat]
          /\ raced \in BOOLEAN /\ failed \in BOOLEAN

Types == HostOK /\ WireOK /\ PadOK /\ RestOK

\* Whatever is being written, or waits to be, is what the pad uses
Writing ==
    /\ proto # None => proto = ram.cfg
    /\ ~raced /\ flusher # None => flusher = ram.cfg
    /\ dirty.layout # None => dirty.layout = ram.layout

\* The last configuration on its way, or without one the pad's, is c
Ends(w, r, c) ==
    /\ \A i \in 1..Len(w) :
           /\ w[i].what = "cfg"
           /\ \A j \in 1..Len(w) : j > i => w[j].what # "cfg"
           => w[i].v = c
    /\ (\A i \in 1..Len(w) : w[i].what # "cfg") => r = c

\* A connected pad will use the configuration in memory
Arrives == linked => Ends(wire, ram.cfg, cfg)

\* The database has it too, unless a map postponed it
Stored == later.cfg = None => cfg = cdb.cfg

IInv == Types /\ Writing /\ FlashFollowsRam /\ Arrives /\ Stored

-----------------------------------------------------------------------------
(* The last configuration on the wire *)

\* Frames sent one after another are frames.
LEMMA FrameIs ==
    ASSUME NEW what \in {"cfg", "layout", "play", "stop"}, NEW v \in Nat
    PROVE  /\ Frame(what, v) \in Seq(Frames) /\ Len(Frame(what, v)) = 1
           /\ Frame(what, v)[1] \in Frames
           /\ Frame(what, v)[1].what = what /\ Frame(what, v)[1].v = v
<1>1. [what |-> what, v |-> v] \in Frames
    BY DEF Frames
<1>. QED BY <1>1 DEF Frame

\* With nothing on its way the pad has its last configuration.
LEMMA EndsEmpty == ASSUME NEW r PROVE Ends(<<>>, r, r) /\ <<>> \in Seq(Frames)
BY DEF Ends

\* A frame sent joins the end of the wire.
LEMMA Joins ==
    ASSUME NEW w \in Seq(Frames), NEW f \in Seq(Frames), Len(f) = 1
    PROVE  /\ w \o f \in Seq(Frames) /\ Len(w) \in Nat /\ Len(w \o f) = Len(w) + 1
           /\ \A i \in 1..Len(w) : (w \o f)[i] = w[i]
           /\ (w \o f)[Len(w) + 1] = f[1]
<1>0. /\ w \o f \in Seq(Frames) /\ Len(w \o f) = Len(w) + Len(f)
      /\ \A i \in 1..(Len(w) + Len(f)) :
            (w \o f)[i] = IF i <= Len(w) THEN w[i] ELSE f[i - Len(w)]
    BY ConcatProperties, Zenon
<1>1. /\ w \o f \in Seq(Frames) /\ Len(w) \in Nat /\ Len(w \o f) = Len(w) + 1
    BY <1>0
<1>2. \A i \in 1..(Len(w) + 1) : (w \o f)[i] = IF i <= Len(w) THEN w[i] ELSE f[i - Len(w)]
    BY <1>0
<1>3. /\ \A i \in 1..Len(w) : i \in 1..(Len(w) + 1) /\ i <= Len(w)
      /\ Len(w) + 1 \in 1..(Len(w) + 1) /\ ~(Len(w) + 1 <= Len(w))
      /\ (Len(w) + 1) - Len(w) = 1
    BY <1>1
<1>. QED BY <1>1, <1>2, <1>3

\* A configuration sent is the last.
LEMMA EndsWithConfig ==
    ASSUME NEW w \in Seq(Frames), NEW v \in Nat, NEW r
    PROVE  Ends(w \o Frame("cfg", v), r, v)
<1>. DEFINE f == Frame("cfg", v)
            q == w \o f
            n == Len(w)
<1>0. f \in Seq(Frames) /\ Len(f) = 1 /\ f[1].what = "cfg" /\ f[1].v = v
    BY FrameIs
<1>. HIDE DEF f
<1>1. /\ n \in Nat /\ Len(q) = n + 1 /\ q[n + 1].what = "cfg" /\ q[n + 1].v = v
    BY <1>0, Joins
<1>. HIDE DEF q
<1>2. n + 1 \in 1..Len(q) /\ \A i \in 1..Len(q) : i = n + 1 \/ n + 1 > i
    BY <1>1
<1>3. ASSUME NEW i \in 1..Len(q), \A j \in 1..Len(q) : j > i => q[j].what # "cfg"
      PROVE  q[i].v = v
    BY <1>1, <1>2, <1>3
<1>. QED BY <1>1, <1>2, <1>3 DEF Ends, q, f

\* Other frames sent do not change it.
LEMMA EndsWithOther ==
    ASSUME NEW w \in Seq(Frames), NEW what \in {"layout", "play", "stop"}, NEW v \in Nat,
           NEW r, NEW c, Ends(w, r, c)
    PROVE  Ends(w \o Frame(what, v), r, c)
<1>. DEFINE f == Frame(what, v)
            q == w \o f
            n == Len(w)
<1>0. f \in Seq(Frames) /\ Len(f) = 1 /\ f[1].what # "cfg"
    BY FrameIs
<1>. HIDE DEF f
<1>1. /\ n \in Nat /\ Len(q) = n + 1 /\ q[n + 1].what # "cfg"
      /\ \A i \in 1..n : q[i] = w[i]
    BY <1>0, Joins
<1>. HIDE DEF q
<1>2. ASSUME NEW i \in 1..(n + 1), q[i].what = "cfg",
             \A j \in 1..(n + 1) : j > i => q[j].what # "cfg"
      PROVE  q[i].v = c
    <2>1. i \in 1..n
        BY <1>1, <1>2
    <2>2. \A j \in 1..n : j > i => w[j].what # "cfg"
        BY <1>1, <1>2
    <2>. QED BY <1>1, <1>2, <2>1, <2>2 DEF Ends
<1>3. ASSUME \A i \in 1..(n + 1) : q[i].what # "cfg" PROVE r = c
    <2>1. \A i \in 1..n : w[i].what # "cfg"
        BY <1>1, <1>3
    <2>. QED BY <2>1 DEF Ends
<1>. HIDE DEF n
<1>. QED BY <1>1, <1>2, <1>3 DEF Ends, q, f

\* A frame that is read: the pad uses it, or it is not a configuration.
LEMMA EndsTail ==
    ASSUME NEW w \in Seq(Frames), w # <<>>, NEW r, NEW c, Ends(w, r, c)
    PROVE  /\ Tail(w) \in Seq(Frames) /\ Head(w) \in Frames
           /\ Ends(Tail(w), IF Head(w).what = "cfg" THEN Head(w).v ELSE r, c)
<1>. DEFINE n == Len(Tail(w))
            r2 == IF Head(w).what = "cfg" THEN Head(w).v ELSE r
<1>1. /\ Tail(w) \in Seq(Frames) /\ n \in Nat /\ Len(w) = n + 1 /\ w[1] = Head(w)
      /\ \A i \in 1..n : Tail(w)[i] = w[i + 1]
      /\ Head(w) \in Frames
    OBVIOUS
<1>2. ASSUME NEW i \in 1..n, Tail(w)[i].what = "cfg",
             \A j \in 1..n : j > i => Tail(w)[j].what # "cfg"
      PROVE  Tail(w)[i].v = c
    <2>1. i + 1 \in 1..(n + 1) /\ w[i + 1] = Tail(w)[i]
        BY <1>1
    <2>2. ASSUME NEW j \in 1..(n + 1), j > i + 1 PROVE w[j].what # "cfg"
        <3>1. j - 1 \in 1..n /\ j - 1 > i /\ (j - 1) + 1 = j
            BY <1>1, <2>2
        <3>2. w[j] = Tail(w)[j - 1]
            BY <1>1, <3>1
        <3>. QED BY <1>2, <3>1, <3>2
    <2>. QED BY <1>1, <1>2, <2>1, <2>2 DEF Ends
<1>3. ASSUME \A i \in 1..n : Tail(w)[i].what # "cfg" PROVE r2 = c
    <2>1. ASSUME NEW j \in 1..(n + 1), j > 1 PROVE w[j].what # "cfg"
        <3>1. j - 1 \in 1..n /\ (j - 1) + 1 = j
            BY <1>1, <2>1
        <3>. QED BY <1>1, <1>3, <3>1
    <2>2. CASE w[1].what = "cfg"
        <3>1. 1 \in 1..(n + 1)
            BY <1>1
        <3>2. w[1].v = c
            BY <1>1, <2>1, <2>2, <3>1 DEF Ends
        <3>. QED BY <1>1, <2>2, <3>2
    <2>3. CASE w[1].what # "cfg"
        <3>1. \A j \in 1..(n + 1) : w[j].what # "cfg"
            BY <1>1, <2>1, <2>3
        <3>. QED BY <1>1, <2>3, <3>1 DEF Ends
    <2>. QED BY <2>2, <2>3
<1>. HIDE DEF n, r2
<1>4. Ends(Tail(w), r2, c)
    BY <1>2, <1>3 DEF Ends, n
<1>. QED BY <1>1, <1>4 DEF r2

-----------------------------------------------------------------------------
(* Each step *)

\* What waits, is used or is written is a number of a change, or none.
LEMMA Typed == Types => ConfigTypeOK
BY DEF Types, HostOK, WireOK, PadOK, ConfigTypeOK, Pairs, Values

\* The frames a step sends are frames, and only to a connected pad.
LEMMA Sends ==
    ASSUME WireOK, linked \in BOOLEAN, UNCHANGED linked,
           NEW what \in {"cfg", "layout", "play", "stop"}, NEW v \in Nat,
           Send(Frame(what, v))
    PROVE  WireOK'
<1>1. wire \in Seq(Frames) /\ Frame(what, v) \in Seq(Frames) /\ Len(Frame(what, v)) = 1
    BY FrameIs DEF WireOK
<1>2. wire \o Frame(what, v) \in Seq(Frames)
    BY <1>1, Joins
<1>. QED BY <1>1, <1>2 DEF Send, WireOK

\* So is what the pad leaves of the wire when it reads a frame of the kind.
LEMMA Reads ==
    ASSUME WireOK, NEW what, Receives(what), UNCHANGED linked
    PROVE  /\ WireOK' /\ Head(wire) \in Frames /\ Head(wire).v \in Nat
           /\ wire # <<>> /\ wire' = Tail(wire) /\ Head(wire).what = what /\ linked
<1>1. Tail(wire) \in Seq(Frames) /\ Head(wire) \in Frames
    BY DEF WireOK, Receives
<1>. QED BY <1>1 DEF WireOK, Receives, Frames

\* Budgets only go down.
LEMMA CountsDown ==
    ASSUME RestOK, NEW what \in {"sets", "maps", "cuts", "fails"}, CountCfg(what)
    PROVE  cbounds' \in [sets : Nat, maps : Nat, cuts : Nat, fails : Nat]
BY DEF RestOK, CountCfg

LEMMA NvsCounts ==
    ASSUME RestOK, NEW ok \in BOOLEAN, Nvs(ok), UNCHANGED raced
    PROVE  RestOK'
BY CountsDown DEF Nvs, RestOK

\* A step is one of an operation's, the failing writes among them, or none.
LEMMA Steps ==
    ASSUME [ConfigNext]_cvars
    PROVE  \/ UNCHANGED cvars
           \/ (\E wiped \in BOOLEAN : LinkUp(wiped)) \/ LinkDown \/ MapStart \/ MapOver
           \/ (\E keys \in BOOLEAN : UpdateConfig(keys)) \/ SetLayout
           \/ SyncDrains \/ SyncSkips \/ PadState \/ RecvConfig
           \/ (\E ok \in BOOLEAN : ProtoWrites(ok)) \/ (\E ok \in BOOLEAN : RecvLayout(ok))
           \/ FlushStart
           \/ (\E ok \in BOOLEAN : FlushWrites(ok)) \/ (\E ok \in BOOLEAN : FlushLayout(ok))
           \/ PadTimeout \/ PowerCut
BY DEF ConfigNext, Receive, Flush

\* The frames of two sends are frames.
LEMMA SendsBoth ==
    ASSUME NEW v \in Seq(Frames), NEW w \in Seq(Frames)
    PROVE  v \o w \in Seq(Frames)
BY ConcatProperties, Zenon

\* Every step keeps the types.
LEMMA TypeStep ==
    ASSUME ConfigConstants, Types, [ConfigNext]_cvars
    PROVE  Types'
<1>0. HostOK /\ WireOK /\ PadOK /\ RestOK /\ New \in Nat
    BY DEF Types, RestOK, New
<1>1. CASE UNCHANGED cvars
    BY <1>0, <1>1 DEF cvars, host, padv, Types, HostOK, WireOK, PadOK, RestOK
<1>2. ASSUME NEW wiped \in BOOLEAN, LinkUp(wiped) PROVE Types'
    <2>. DEFINE a == IF wiped THEN Frame("cfg", cfg) ELSE <<>>
                b == Frame(IF cmode = "map" THEN "play" ELSE "stop", 0)
                d == Frame("layout", layout)
    <2>1. HostOK'
        BY <1>0, <1>2 DEF LinkUp, Adopts, HostOK, PadOK, Pairs
    <2>2. a \in Seq(Frames) /\ b \in Seq(Frames) /\ d \in Seq(Frames)
        BY <1>0, FrameIs, EndsEmpty DEF HostOK
    <2>3. (a \o b) \o d \in Seq(Frames)
        BY <2>2, SendsBoth
    <2>4. wire' = (a \o b) \o d /\ linked'
        BY <1>2 DEF LinkUp
    <2>5. WireOK'
        BY <2>3, <2>4 DEF WireOK
    <2>6. PadOK' /\ RestOK'
        BY <1>0, <1>2 DEF LinkUp, padv, PadOK, RestOK
    <2>. QED BY <2>1, <2>5, <2>6 DEF Types
<1>3. CASE LinkDown
    <2>1. RestOK'
        BY <1>0, <1>3, CountsDown DEF LinkDown, RestOK
    <2>. QED BY <1>0, <1>3, <2>1, EndsEmpty DEF LinkDown, padv, Types, HostOK, WireOK, PadOK
<1>4. CASE MapStart
    <2>1. RestOK'
        BY <1>0, <1>4, CountsDown DEF MapStart, RestOK
    <2>2. WireOK'
        BY <1>0, <1>4, Sends DEF MapStart, HostOK
    <2>. QED BY <1>0, <1>4, <2>1, <2>2 DEF MapStart, padv, Types, HostOK, PadOK
<1>5. CASE MapOver
    <2>1. WireOK'
        BY <1>0, <1>5, Sends DEF MapOver, HostOK
    <2>. QED BY <1>0, <1>5, <2>1 DEF MapOver, padv, Types, HostOK, PadOK, RestOK
<1>6. ASSUME NEW keys \in BOOLEAN, UpdateConfig(keys) PROVE Types'
    <2>1. RestOK'
        BY <1>0, <1>6, CountsDown DEF UpdateConfig, RestOK
    <2>2. UNCHANGED linked /\ (Send(Frame("cfg", New)) \/ UNCHANGED wire)
        BY <1>6 DEF UpdateConfig
    <2>3. WireOK'
        BY <1>0, <2>2, Sends DEF HostOK, WireOK
    <2>4. HostOK'
        BY <1>0, <1>6 DEF UpdateConfig, HostOK, Pairs, Values
    <2>. QED BY <1>0, <1>6, <2>1, <2>3, <2>4 DEF UpdateConfig, padv, Types, PadOK
<1>7. CASE SetLayout
    <2>1. RestOK'
        BY <1>0, <1>7, CountsDown DEF SetLayout, RestOK
    <2>2. WireOK'
        BY <1>0, <1>7, Sends DEF SetLayout, HostOK
    <2>3. HostOK'
        BY <1>0, <1>7 DEF SetLayout, HostOK, Pairs, Values
    <2>. QED BY <1>0, <1>7, <2>1, <2>2, <2>3 DEF SetLayout, padv, Types, PadOK
<1>8. CASE SyncDrains
    <2>. DEFINE a == IF later.cfg = None THEN <<>> ELSE Frame("cfg", later.cfg)
                b == IF later.layout = None THEN <<>> ELSE Frame("layout", later.layout)
    <2>1. /\ later.cfg = None \/ later.cfg \in Nat
          /\ later.layout = None \/ later.layout \in Nat
        BY <1>0 DEF HostOK, Values
    <2>2. a \in Seq(Frames) /\ b \in Seq(Frames)
        BY <2>1, FrameIs, EndsEmpty
    <2>3. a \o b \in Seq(Frames)
        BY <2>2, SendsBoth
    <2>4. wire' = a \o b /\ linked'
        BY <1>8 DEF SyncDrains
    <2>5. WireOK'
        BY <2>3, <2>4 DEF WireOK
    <2>6. HostOK'
        BY <1>0, <1>8, <2>1 DEF SyncDrains, DrainsCfg, HostOK, Pairs, Values, Nothing
    <2>. QED BY <1>0, <1>8, <2>5, <2>6 DEF SyncDrains, padv, Types, PadOK, RestOK
<1>9. CASE SyncSkips
    BY <1>0, <1>9 DEF SyncSkips, padv, Types, HostOK, WireOK, PadOK, RestOK
<1>10. CASE PadState
    <2>1. WireOK'
        BY <1>0, <1>10, Reads DEF PadState, host
    <2>. QED BY <1>0, <1>10, <2>1 DEF PadState, host, Types, HostOK, PadOK, RestOK
<1>11. CASE RecvConfig
    <2>1. WireOK' /\ Head(wire).v \in Nat
        BY <1>0, <1>11, Reads DEF RecvConfig, host
    <2>2. PadOK'
        BY <1>0, <1>11, <2>1 DEF RecvConfig, PadOK, Pairs, Values
    <2>3. HostOK' /\ RestOK'
        BY <1>0, <1>11 DEF RecvConfig, host, HostOK, RestOK
    <2>. QED BY <2>1, <2>2, <2>3 DEF Types
<1>12. ASSUME NEW ok \in BOOLEAN, ProtoWrites(ok) PROVE Types'
    <2>1. RestOK'
        BY <1>0, <1>12, NvsCounts DEF ProtoWrites, Writes
    <2>2. PadOK'
        BY <1>0, <1>12 DEF ProtoWrites, Writes, PadOK, Pairs, Values
    <2>. QED BY <1>0, <1>12, <2>1, <2>2 DEF ProtoWrites, host, Types, HostOK, WireOK
<1>13. ASSUME NEW ok \in BOOLEAN, RecvLayout(ok) PROVE Types'
    <2>1. WireOK' /\ Head(wire).v \in Nat
        BY <1>0, <1>13, Reads DEF RecvLayout, host
    <2>2. RestOK'
        BY <1>0, <1>13, NvsCounts DEF RecvLayout, RestOK
    <2>3. PadOK'
        BY <1>0, <1>13, <2>1 DEF RecvLayout, Supersedes, PadOK, Pairs, Values
    <2>. QED BY <1>0, <1>13, <2>1, <2>2, <2>3 DEF RecvLayout, host, Types, HostOK
<1>14. CASE FlushStart
    BY <1>0, <1>14 DEF FlushStart, host, Types, HostOK, WireOK, PadOK, RestOK, Pairs, Values
<1>15. ASSUME NEW ok \in BOOLEAN, FlushWrites(ok) PROVE Types'
    <2>1. RestOK'
        BY <1>0, <1>15, NvsCounts DEF FlushWrites, Writes
    <2>2. PadOK'
        BY <1>0, <1>15 DEF FlushWrites, Writes, PadOK, Pairs, Values
    <2>. QED BY <1>0, <1>15, <2>1, <2>2 DEF FlushWrites, host, Types, HostOK, WireOK
<1>16. ASSUME NEW ok \in BOOLEAN, FlushLayout(ok) PROVE Types'
    <2>1. RestOK'
        BY <1>0, <1>16, NvsCounts DEF FlushLayout
    <2>2. PadOK'
        BY <1>0, <1>16 DEF FlushLayout, Forgets, PadOK, Pairs, Values
    <2>. QED BY <1>0, <1>16, <2>1, <2>2 DEF FlushLayout, host, Types, HostOK, WireOK
<1>17. CASE PadTimeout
    BY <1>0, <1>17 DEF PadTimeout, host, Types, HostOK, WireOK, PadOK, RestOK
<1>18. CASE PowerCut
    <2>1. RestOK'
        BY <1>0, <1>18, CountsDown DEF PowerCut, RestOK
    <2>2. PadOK'
        BY <1>0, <1>18 DEF PowerCut, PadOK, Values
    <2>. QED BY <1>0, <1>18, <2>1, <2>2, EndsEmpty DEF PowerCut, Types, HostOK, WireOK
<1>. QED BY <1>1, <1>2, <1>3, <1>4, <1>5, <1>6, <1>7, <1>8, <1>9, <1>10, <1>11, <1>12, <1>13,
            <1>14, <1>15, <1>16, <1>17, <1>18, Steps

\* What is written, or waits to be, stays what the pad uses, and what has no
\* mark is in flash.
LEMMA PadStep ==
    ASSUME ConfigConstants, Types, Writing, FlashFollowsRam, [ConfigNext]_cvars
    PROVE  Writing' /\ FlashFollowsRam'
<1>0. PadOK /\ RestOK /\ WireOK /\ None \notin Nat
    BY DEF Types, ConfigConstants
<1>1. ASSUME UNCHANGED <<padv, raced, failed>> PROVE Writing' /\ FlashFollowsRam'
    BY <1>1 DEF padv, Writing, FlashFollowsRam
<1>2. ASSUME \/ UNCHANGED cvars
             \/ (\E wiped \in BOOLEAN : LinkUp(wiped)) \/ LinkDown \/ MapStart \/ MapOver
             \/ (\E keys \in BOOLEAN : UpdateConfig(keys)) \/ SetLayout
             \/ SyncDrains \/ SyncSkips
      PROVE  UNCHANGED <<padv, raced, failed>>
    BY <1>2 DEF cvars, LinkUp, LinkDown, MapStart, MapOver, UpdateConfig, SetLayout,
                SyncDrains, SyncSkips
<1>3. CASE PadState
    BY <1>3 DEF PadState, Writing, FlashFollowsRam
<1>4. CASE RecvConfig
    <2>1. proto = None /\ Head(wire).v \in Nat /\ Head(wire).v # None
        BY <1>0, <1>4, Reads DEF RecvConfig, Receives, host
    <2>2. /\ ram'.cfg = Head(wire).v /\ ram'.layout = ram.layout
          /\ flash' = flash /\ flusher' = flusher /\ dirty'.layout = dirty.layout
          /\ raced' = (raced \/ flusher # None) /\ failed' = failed
        BY <1>0, <1>4 DEF RecvConfig, PadOK, Pairs
    <2>3. \/ proto' = Head(wire).v /\ dirty' = dirty
          \/ dirty'.cfg /\ proto' = None
        BY <1>0, <1>4, <2>1 DEF RecvConfig, PadOK
    <2>. QED BY <2>1, <2>2, <2>3 DEF Writing, FlashFollowsRam
<1>5. ASSUME NEW ok \in BOOLEAN, ProtoWrites(ok) PROVE Writing' /\ FlashFollowsRam'
    <2>1. /\ proto = ram.cfg /\ proto' = None /\ ram' = ram /\ flusher' = flusher
          /\ raced' = raced /\ failed' = (failed \/ ~ok)
        BY <1>5 DEF ProtoWrites, Writes, Nvs, Writing
    <2>2. \/ ok /\ flash'.cfg = proto /\ flash'.layout = flash.layout
             /\ ~dirty'.cfg /\ dirty'.layout = dirty.layout
          \/ ~ok /\ UNCHANGED <<flash, dirty>>
        BY <1>0, <1>5 DEF ProtoWrites, Writes, PadOK, Pairs
    <2>. QED BY <2>1, <2>2 DEF Writing, FlashFollowsRam
<1>6. ASSUME NEW ok \in BOOLEAN, RecvLayout(ok) PROVE Writing' /\ FlashFollowsRam'
    <2>1. Head(wire).v \in Nat /\ Head(wire).v # None
        BY <1>0, <1>6, Reads DEF RecvLayout, host
    <2>2. /\ ram'.cfg = ram.cfg /\ ram'.layout = Head(wire).v
          /\ proto' = proto /\ flusher' = flusher /\ raced' = raced
        BY <1>0, <1>6 DEF RecvLayout, PadOK, Pairs
    <2>3. /\ dirty'.cfg = dirty.cfg /\ flash'.cfg = flash.cfg
          /\ \/ dirty'.layout = Head(wire).v /\ failed' = failed
             \/ dirty'.layout = None /\ ok /\ flash'.layout = Head(wire).v /\ failed' = failed
             \/ dirty'.layout = None /\ failed'
        BY <1>0, <1>6 DEF RecvLayout, Supersedes, Nvs, PadOK, Pairs, RestOK
    <2>. QED BY <1>0, <2>1, <2>2, <2>3 DEF Writing, FlashFollowsRam, RestOK
<1>7. CASE FlushStart
    BY <1>7 DEF FlushStart, Writing, FlashFollowsRam
<1>8. ASSUME NEW ok \in BOOLEAN, FlushWrites(ok) PROVE Writing' /\ FlashFollowsRam'
    <2>1. /\ (raced \/ flusher = ram.cfg) /\ flusher' = None /\ ram' = ram /\ proto' = proto
          /\ raced' = raced /\ failed' = (failed \/ ~ok)
        BY <1>8 DEF FlushWrites, Writes, Nvs, Writing
    <2>2. \/ ok /\ flash'.cfg = flusher /\ flash'.layout = flash.layout
             /\ ~dirty'.cfg /\ dirty'.layout = dirty.layout
          \/ ~ok /\ UNCHANGED <<flash, dirty>>
        BY <1>0, <1>8 DEF FlushWrites, Writes, PadOK, Pairs
    <2>. QED BY <2>1, <2>2 DEF Writing, FlashFollowsRam
<1>9. ASSUME NEW ok \in BOOLEAN, FlushLayout(ok) PROVE Writing' /\ FlashFollowsRam'
    <2>1. /\ dirty.layout = ram.layout /\ ram' = ram /\ proto' = proto
          /\ flusher' = flusher /\ raced' = raced /\ failed' = (failed \/ ~ok)
        BY <1>9 DEF FlushLayout, Nvs, Writing
    <2>2. \/ ok /\ flash'.layout = dirty.layout /\ flash'.cfg = flash.cfg
             /\ dirty'.layout = None /\ dirty'.cfg = dirty.cfg
          \/ ~ok /\ UNCHANGED <<flash, dirty>>
        BY <1>0, <1>9 DEF FlushLayout, Forgets, PadOK, Pairs
    <2>. QED BY <2>1, <2>2 DEF Writing, FlashFollowsRam
<1>10. CASE PadTimeout
    BY <1>10 DEF PadTimeout, Writing, FlashFollowsRam
<1>11. CASE PowerCut
    BY <1>11 DEF PowerCut, Writing, FlashFollowsRam
<1>. QED BY <1>1, <1>2, <1>3, <1>4, <1>5, <1>6, <1>7, <1>8, <1>9, <1>10, <1>11, Steps

\* Every step leaves the last configuration on its way the one in memory.
LEMMA ArrivesStep ==
    ASSUME ConfigConstants, Types, Arrives, [ConfigNext]_cvars
    PROVE  Arrives'
<1>0. /\ HostOK /\ PadOK /\ RestOK /\ WireOK /\ wire \in Seq(Frames)
      /\ New \in Nat /\ cfg \in Nat /\ layout \in Nat
    BY DEF Types, HostOK, WireOK, RestOK, New
<1>1. ASSUME UNCHANGED <<linked, wire, ram, cfg>> PROVE Arrives'
    BY <1>1 DEF Arrives
<1>2. ASSUME UNCHANGED <<linked, ram>>, NEW v \in Nat, Send(Frame("cfg", v)), cfg' = v
      PROVE  Arrives'
    <2>. SUFFICES ASSUME linked PROVE Arrives'
        BY <1>2 DEF Arrives
    <2>1. Ends(wire \o Frame("cfg", v), ram.cfg, v)
        BY <1>0, EndsWithConfig
    <2>. QED BY <1>2, <2>1 DEF Arrives, Send
<1>3. ASSUME UNCHANGED <<linked, ram, cfg>>, NEW what \in {"layout", "play", "stop"},
             NEW v \in Nat, Send(Frame(what, v))
      PROVE  Arrives'
    <2>. SUFFICES ASSUME linked PROVE Arrives'
        BY <1>3 DEF Arrives
    <2>1. Ends(wire, ram.cfg, cfg)
        BY DEF Arrives
    <2>2. Ends(wire \o Frame(what, v), ram.cfg, cfg)
        BY <1>0, <2>1, EndsWithOther
    <2>. QED BY <1>3, <2>2 DEF Arrives, Send
<1>4. ASSUME NEW what, Receives(what), UNCHANGED <<linked, cfg>>,
             ram'.cfg = IF what = "cfg" THEN Head(wire).v ELSE ram.cfg
      PROVE  Arrives'
    <2>1. wire # <<>> /\ wire' = Tail(wire) /\ Head(wire).what = what /\ linked
        BY <1>0, <1>4, Reads
    <2>2. Ends(wire, ram.cfg, cfg)
        BY <2>1 DEF Arrives
    <2>3. Ends(Tail(wire), IF Head(wire).what = "cfg" THEN Head(wire).v ELSE ram.cfg, cfg)
        BY <1>0, <2>1, <2>2, EndsTail
    <2>. QED BY <1>4, <2>1, <2>3 DEF Arrives
<1>5. ASSUME NEW wiped \in BOOLEAN, LinkUp(wiped) PROVE Arrives'
    <2>. DEFINE a == IF wiped THEN Frame("cfg", cfg) ELSE <<>>
                kind == IF cmode = "map" THEN "play" ELSE "stop"
                b == Frame(kind, 0)
                d == Frame("layout", layout)
    <2>1. wire' = (a \o b) \o d /\ ram' = ram /\ layout' = layout
        BY <1>5 DEF LinkUp, padv
    <2>2. a \in Seq(Frames) /\ b \in Seq(Frames) /\ kind \in {"layout", "play", "stop"}
        BY <1>0, FrameIs, EndsEmpty
    <2>3. Ends(a, ram.cfg, cfg')
        <3>1. CASE wiped
            <4>1. cfg' = cfg /\ a = Frame("cfg", cfg)
                BY <1>5, <3>1 DEF LinkUp
            <4>2. Frame("cfg", cfg) \in Seq(Frames) /\ <<>> \in Seq(Frames)
                BY <1>0, FrameIs, EndsEmpty
            <4>3. <<>> \o Frame("cfg", cfg) = Frame("cfg", cfg)
                BY <4>2, ConcatEmptySeq, Zenon
            <4>4. Ends(<<>> \o Frame("cfg", cfg), ram.cfg, cfg)
                BY <1>0, <4>2, EndsWithConfig
            <4>. QED BY <4>1, <4>3, <4>4
        <3>2. CASE ~wiped
            <4>1. cfg' = ram.cfg /\ a = <<>>
                BY <1>5, <3>2 DEF LinkUp, Adopts
            <4>. QED BY <4>1, EndsEmpty
        <3>. QED BY <3>1, <3>2
    <2>. HIDE DEF a, kind
    <2>4. a \o b \in Seq(Frames)
        BY <2>2, SendsBoth
    <2>5. cfg' \in Nat
        BY <1>0, <1>5 DEF LinkUp, Adopts, PadOK, Pairs
    <2>6. Ends(a \o b, ram.cfg, cfg')
        BY <2>2, <2>3, <2>5, EndsWithOther
    <2>. HIDE DEF b
    <2>7. Ends((a \o b) \o d, ram.cfg, cfg')
        BY <1>0, <2>4, <2>6, EndsWithOther
    <2>. QED BY <2>1, <2>7 DEF Arrives
<1>6. CASE SyncDrains
    <2>. DEFINE a == IF later.cfg = None THEN <<>> ELSE Frame("cfg", later.cfg)
                b == IF later.layout = None THEN <<>> ELSE Frame("layout", later.layout)
    <2>1. /\ later.cfg = None \/ later.cfg \in Nat
          /\ later.layout = None \/ later.layout \in Nat
        BY <1>0 DEF HostOK, Values
    <2>2. wire' = a \o b /\ linked /\ wire = <<>> /\ ram' = ram
        BY <1>6 DEF SyncDrains, padv
    <2>3. a \in Seq(Frames) /\ <<>> \in Seq(Frames)
        BY <2>1, FrameIs, EndsEmpty
    <2>4. Ends(a, ram.cfg, cfg')
        <3>1. CASE later.cfg = None
            <4>1. ram.cfg = cfg /\ cfg' = cfg
                BY <1>6, <2>2, <3>1 DEF Arrives, Ends, SyncDrains, DrainsCfg
            <4>. QED BY <3>1, <4>1, EndsEmpty
        <3>2. CASE later.cfg \in Nat
            <4>1. cfg' = later.cfg /\ later.cfg # None
                BY <1>6, <3>2 DEF SyncDrains, DrainsCfg, ConfigConstants
            <4>2. Frame("cfg", later.cfg) \in Seq(Frames)
                BY <3>2, FrameIs
            <4>3. <<>> \o Frame("cfg", later.cfg) = Frame("cfg", later.cfg)
                BY <4>2, ConcatEmptySeq, Zenon
            <4>4. Ends(<<>> \o Frame("cfg", later.cfg), ram.cfg, later.cfg)
                BY <2>3, <3>2, EndsWithConfig
            <4>. QED BY <4>1, <4>3, <4>4
        <3>. QED BY <2>1, <3>1, <3>2
    <2>. HIDE DEF a
    <2>5. Ends(a \o b, ram.cfg, cfg')
        <3>1. CASE later.layout = None
            <4>1. a \o b = a
                BY <2>3, <3>1, ConcatEmptySeq, Zenon
            <4>. QED BY <2>4, <4>1
        <3>2. CASE later.layout # None
            <4>1. b = Frame("layout", later.layout) /\ later.layout \in Nat
                BY <2>1, <3>2
            <4>. QED BY <2>3, <2>4, <4>1, EndsWithOther
        <3>. QED BY <3>1, <3>2
    <2>. QED BY <2>2, <2>5 DEF Arrives
<1>7. ASSUME NEW keys \in BOOLEAN, UpdateConfig(keys) PROVE Arrives'
    <2>1. UNCHANGED <<linked, ram>>
        BY <1>7 DEF UpdateConfig, padv
    <2>2. UNCHANGED <<cfg, wire>> \/ (cfg' = New /\ Send(Frame("cfg", New)))
        BY <1>7 DEF UpdateConfig
    <2>. QED BY <1>0, <1>1, <1>2, <2>1, <2>2
<1>8. CASE LinkDown \/ PowerCut
    BY <1>8 DEF LinkDown, PowerCut, Arrives
<1>9. CASE MapStart \/ MapOver \/ SetLayout
    <2>1. UNCHANGED <<linked, ram, cfg>>
        BY <1>9 DEF MapStart, MapOver, SetLayout, padv
    <2>2. Send(Frame("play", 0)) \/ Send(Frame("stop", 0)) \/ Send(Frame("layout", New))
        BY <1>9 DEF MapStart, MapOver, SetLayout
    <2>. QED BY <1>0, <1>3, <2>1, <2>2
<1>10. CASE PadState \/ RecvConfig \/ \E ok \in BOOLEAN : RecvLayout(ok)
    <2>1. UNCHANGED <<linked, cfg>>
        BY <1>10 DEF PadState, RecvConfig, RecvLayout, host
    <2>2. PICK what : Receives(what) /\ ram'.cfg = IF what = "cfg" THEN Head(wire).v ELSE ram.cfg
        BY <1>0, <1>10 DEF PadState, RecvConfig, RecvLayout, PadOK, Pairs
    <2>. QED BY <1>4, <2>1, <2>2
<1>11. ASSUME \/ UNCHANGED cvars
              \/ SyncSkips \/ FlushStart \/ PadTimeout
              \/ (\E ok \in BOOLEAN : ProtoWrites(ok))
              \/ (\E ok \in BOOLEAN : FlushWrites(ok))
              \/ (\E ok \in BOOLEAN : FlushLayout(ok))
       PROVE  Arrives'
    BY <1>1, <1>11 DEF cvars, host, padv, SyncSkips, FlushStart, PadTimeout, ProtoWrites,
                       FlushWrites, FlushLayout
<1>. QED BY <1>5, <1>6, <1>7, <1>8, <1>9, <1>10, <1>11, Steps

\* What no map postponed is in the database.
LEMMA StoredStep ==
    ASSUME ConfigConstants, Types, Stored, [ConfigNext]_cvars
    PROVE  Stored'
<1>0. /\ cdb \in Pairs /\ later \in [cfg : Values, layout : Values]
      /\ New \in Nat /\ New # None
    BY DEF Types, HostOK, RestOK, New, ConfigConstants
<1>1. ASSUME UNCHANGED <<cfg, cdb, later>> PROVE Stored'
    BY <1>1 DEF Stored
<1>2. ASSUME NEW wiped \in BOOLEAN, LinkUp(wiped) PROVE Stored'
    BY <1>0, <1>2 DEF LinkUp, Adopts, Stored, Pairs
<1>3. ASSUME NEW keys \in BOOLEAN, UpdateConfig(keys) PROVE Stored'
    BY <1>0, <1>3 DEF UpdateConfig, Stored, Pairs
<1>4. CASE SetLayout
    BY <1>0, <1>4 DEF SetLayout, Stored, Pairs
<1>5. CASE SyncDrains
    BY <1>5 DEF SyncDrains, DrainsCfg, Stored
<1>6. ASSUME \/ UNCHANGED cvars \/ LinkDown \/ MapStart \/ MapOver \/ SyncSkips
             \/ PadState \/ RecvConfig \/ FlushStart \/ PadTimeout \/ PowerCut
             \/ (\E ok \in BOOLEAN : ProtoWrites(ok)) \/ (\E ok \in BOOLEAN : RecvLayout(ok))
             \/ (\E ok \in BOOLEAN : FlushWrites(ok)) \/ (\E ok \in BOOLEAN : FlushLayout(ok))
      PROVE  UNCHANGED <<cfg, cdb, later>>
    BY <1>6 DEF cvars, host, LinkDown, MapStart, MapOver, SyncSkips, PadState, RecvConfig,
                FlushStart, PadTimeout, PowerCut, ProtoWrites, RecvLayout, FlushWrites,
                FlushLayout
<1>. QED BY <1>1, <1>2, <1>3, <1>4, <1>5, <1>6, Steps

-----------------------------------------------------------------------------
(* The theorems *)

\* A daemon that starts, and the pad it will meet.
LEMMA InitIInv == ASSUME ConfigConstants, ConfigInit PROVE IInv
<1>1. Types
    BY EndsEmpty DEF ConfigConstants, ConfigInit, Stock, Nothing, Types, HostOK, WireOK, PadOK,
                     RestOK, Pairs, Values
<1>2. Writing /\ FlashFollowsRam /\ Arrives /\ Stored
    BY DEF ConfigInit, Stock, Writing, FlashFollowsRam, Arrives, Stored
<1>. QED BY <1>1, <1>2 DEF IInv

\* The invariant is inductive.
LEMMA Inductive == ConfigConstants => (ConfigSpec => []IInv)
<1>. SUFFICES ASSUME ConfigConstants PROVE ConfigSpec => []IInv
    OBVIOUS
<1>1. ConfigInit => IInv
    BY InitIInv
<1>2. IInv /\ [ConfigNext]_cvars => IInv'
    BY TypeStep, PadStep, ArrivesStep, StoredStep DEF IInv
<1>. QED BY <1>1, <1>2, PTL DEF ConfigSpec

\* Every variable stays in its range: None is never stored, flashed or sent
\* (config_storage.rs, device_config.c).
THEOREM TypeCorrect == ConfigConstants => (ConfigSpec => []ConfigTypeOK)
<1>. SUFFICES ASSUME ConfigConstants PROVE ConfigSpec => []ConfigTypeOK
    OBVIOUS
<1>1. IInv => ConfigTypeOK
    BY Typed DEF IInv
<1>. QED BY <1>1, Inductive, PTL

\* Between maps the daemon's memory, its database and the pad have the same
\* configuration; what the pad uses and has no mark for is in its flash.
THEOREM Kept == ConfigConstants => (ConfigSpec => []ConfigKept)
<1>. SUFFICES ASSUME ConfigConstants PROVE ConfigSpec => []ConfigKept
    OBVIOUS
<1>1. IInv => ConfigKept
    BY DEF IInv, Arrives, Stored, Ends, Rests, Nothing, ConfigAgrees, ConfigKept
<1>. QED BY <1>1, Inductive, PTL

-----------------------------------------------------------------------------
(* The live view: the lease that keeps the stream going *)

\* The flags and the ages.
LiveFlags ==
    /\ open \in BOOLEAN /\ polling \in BOOLEAN /\ carried \in BOOLEAN /\ asking \in BOOLEAN
    /\ inmap \in BOOLEAN /\ polled \in BOOLEAN /\ kept \in BOOLEAN
LiveRanges ==
    /\ view \in {"sample", None} /\ latest \in Live!Ages /\ requested \in Live!Ages
    /\ lease \in 0 .. Lease

\* The age of a request that has reached the pad is what the lease has lost
Leased ==
    /\ asking => requested = 0 /\ carried
    /\ kept => /\ open /\ carried /\ requested \in 0 .. KeepAlive
               /\ lease + (IF asking THEN KeepAlive ELSE requested) >= Lease
               /\ polled /\ ~polling => requested < KeepAlive

LiveIInv == LiveFlags /\ LiveRanges /\ Leased

\* Nobody looks yet.
LEMMA LiveInitial == ASSUME Live!LiveInit PROVE LiveIInv
<1>. USE LiveAssumption DEF LiveAssumption, Live!LiveConstants, Live!LiveInit
<1>1. LiveFlags
    BY DEF LiveFlags
<1>2. LiveRanges
    BY DEF LiveRanges, Live!Ages
<1>3. Leased
    BY DEF Leased
<1>. QED BY <1>1, <1>2, <1>3 DEF LiveIInv

\* Whatever the page, the daemon, the pad and time do.
LEMMA LiveStep == LiveIInv /\ [Live!LiveNext]_nvars => LiveIInv'
<1>. SUFFICES ASSUME LiveIInv, [Live!LiveNext]_nvars PROVE LiveIInv'
    OBVIOUS
<1>0. /\ KeepAlive \in Nat \ {0} /\ Lease \in Nat /\ KeepAlive < Lease
      /\ None \notin Nat
    BY LiveAssumption DEF LiveAssumption, Live!LiveConstants
<1>. USE DEF LiveIInv
<1>1. CASE Live!Opens
    <2>1. LiveFlags'
        BY <1>1 DEF Live!Opens, LiveFlags
    <2>2. LiveRanges'
        BY <1>0, <1>1 DEF Live!Opens, LiveRanges, Live!Ages
    <2>3. Leased'
        BY <1>0, <1>1 DEF Live!Opens, LiveFlags, LiveRanges, Live!Ages, Leased
    <2>. QED BY <2>1, <2>2, <2>3
<1>2. CASE Live!Leaves
    <2>1. LiveFlags'
        BY <1>2 DEF Live!Leaves, LiveFlags
    <2>2. LiveRanges'
        BY <1>0, <1>2 DEF Live!Leaves, LiveRanges, Live!Ages
    <2>3. Leased'
        BY <1>0, <1>2 DEF Live!Leaves, LiveFlags, LiveRanges, Live!Ages, Leased
    <2>. QED BY <2>1, <2>2, <2>3
<1>3. CASE Live!PollLive
    <2>1. LiveFlags'
        BY <1>3 DEF Live!PollLive, LiveFlags
    <2>2. LiveRanges'
        BY <1>0, <1>3 DEF Live!PollLive, LiveRanges, Live!Ages
    <2>3. Leased'
        BY <1>0, <1>3 DEF Live!PollLive, LiveFlags, LiveRanges, Live!Ages, Leased
    <2>. QED BY <2>1, <2>2, <2>3
<1>4. CASE Live!Serves
    <2>1. LiveFlags'
        BY <1>4 DEF Live!Serves, Live!HeLive, Live!TakeSample, Live!Current, Live!Asks, Live!Due, LiveFlags
    <2>2. LiveRanges'
        BY <1>0, <1>4 DEF Live!Serves, Live!HeLive, Live!TakeSample, Live!Current, Live!Asks, Live!Due, LiveRanges, Live!Ages
    <2>3. Leased'
        BY <1>0, <1>4 DEF Live!Serves, Live!HeLive, Live!TakeSample, Live!Current, Live!Asks, Live!Due, LiveFlags, LiveRanges, Live!Ages, Leased
    <2>. QED BY <2>1, <2>2, <2>3
<1>5. CASE Live!Renews
    <2>1. LiveFlags'
        BY <1>5 DEF Live!Renews, LiveFlags
    <2>2. LiveRanges'
        BY <1>0, <1>5 DEF Live!Renews, LiveRanges, Live!Ages
    <2>3. Leased'
        BY <1>0, <1>5 DEF Live!Renews, LiveFlags, LiveRanges, Live!Ages, Leased
    <2>. QED BY <2>1, <2>2, <2>3
<1>6. CASE Live!Streams
    <2>1. LiveFlags'
        BY <1>6 DEF Live!Streams, LiveFlags
    <2>2. LiveRanges'
        BY <1>0, <1>6 DEF Live!Streams, LiveRanges, Live!Ages
    <2>3. Leased'
        BY <1>0, <1>6 DEF Live!Streams, LiveFlags, LiveRanges, Live!Ages, Leased
    <2>. QED BY <2>1, <2>2, <2>3
<1>7. CASE Live!MapStarts
    <2>1. LiveFlags'
        BY <1>7 DEF Live!MapStarts, LiveFlags
    <2>2. LiveRanges'
        BY <1>0, <1>7 DEF Live!MapStarts, LiveRanges, Live!Ages
    <2>3. Leased'
        BY <1>0, <1>7 DEF Live!MapStarts, LiveFlags, LiveRanges, Live!Ages, Leased
    <2>. QED BY <2>1, <2>2, <2>3
<1>8. CASE Live!MapOver
    <2>1. LiveFlags'
        BY <1>8 DEF Live!MapOver, LiveFlags
    <2>2. LiveRanges'
        BY <1>0, <1>8 DEF Live!MapOver, LiveRanges, Live!Ages
    <2>3. Leased'
        BY <1>0, <1>8 DEF Live!MapOver, LiveFlags, LiveRanges, Live!Ages, Leased
    <2>. QED BY <2>1, <2>2, <2>3
<1>9. CASE Live!Drops
    <2>1. LiveFlags'
        BY <1>9 DEF Live!Drops, LiveFlags
    <2>2. LiveRanges'
        BY <1>0, <1>9 DEF Live!Drops, LiveRanges, Live!Ages
    <2>3. Leased'
        BY <1>0, <1>9 DEF Live!Drops, LiveFlags, LiveRanges, Live!Ages, Leased
    <2>. QED BY <2>1, <2>2, <2>3
<1>10. CASE Live!Noticed
    <2>1. LiveFlags'
        BY <1>10 DEF Live!Noticed, LiveFlags
    <2>2. LiveRanges'
        BY <1>0, <1>10 DEF Live!Noticed, LiveRanges, Live!Ages
    <2>3. Leased'
        BY <1>0, <1>10 DEF Live!Noticed, LiveFlags, LiveRanges, Live!Ages, Leased
    <2>. QED BY <2>1, <2>2, <2>3
<1>11. CASE Live!Returns
    <2>1. LiveFlags'
        BY <1>11 DEF Live!Returns, LiveFlags
    <2>2. LiveRanges'
        BY <1>0, <1>11 DEF Live!Returns, LiveRanges, Live!Ages
    <2>3. Leased'
        BY <1>0, <1>11 DEF Live!Returns, LiveFlags, LiveRanges, Live!Ages, Leased
    <2>. QED BY <2>1, <2>2, <2>3
<1>12. CASE Live!HalfSecond
    <2>1. LiveFlags'
        BY <1>12 DEF Live!HalfSecond, Live!Older, LiveFlags
    <2>2. LiveRanges'
        BY <1>0, <1>12 DEF Live!HalfSecond, Live!Older, LiveRanges, Live!Ages
    <2>3. Leased'
        BY <1>0, <1>12 DEF Live!HalfSecond, Live!Older, LiveFlags, LiveRanges, Live!Ages, Leased
    <2>. QED BY <2>1, <2>2, <2>3
<1>13. CASE UNCHANGED nvars
    BY <1>13 DEF nvars, LiveFlags, LiveRanges, Leased
<1>. QED
    BY <1>1, <1>2, <1>3, <1>4, <1>5, <1>6, <1>7, <1>8, <1>9, <1>10, <1>11, <1>12, <1>13
    DEF Live!LiveNext

-----------------------------------------------------------------------------
(* Firmware: the invariant *)

\* The records a flash is made of.  A pad that was never flashed with --full has
\* a confirmed entry in the first sector, and whatever the last flash wrote in
\* the second.
Kinds == {"update", "cli", "bare", "full", "recover"}
Image == [v : Nat, kind : Fw!ImageKinds \cup {"partial"}]
First == [seq : 1..2, st : {"valid"}]
Second == [seq : 2..3, st : Fw!States]
Data == {d \in [1..2 -> {None} \cup First \cup Second] :
             d[1] \in {None} \cup First /\ d[2] \in {None} \cup Second}
FwWrites == [what : {"app"}, slot : Fw!Slots, image : Image]
     \cup [what : {"entry"}, n : {1}, entry : {None} \cup First]
     \cup [what : {"entry"}, n : {2}, entry : {None} \cup Second]
Jobs == [at : {"enter", "write", "back"}, kind : Kinds, image : Image, was : Nat,
         plan : [target : {None} \cup Fw!Slots, writes : Seq(FwWrites)]]

\* The second sector's entry is on trial, or will be
Trial(d) == d[2] # None /\ d[2].st \in {"new", "pending"}

\* It is the one to boot
Later(d) == d[2] # None /\ d[2].st # "aborted"

\* Slot r is booted and no other is tried
Steady(d, r) == ~Trial(d) /\ Fw!BootSlot(d) = r

Old == 1 - job.plan.target
OldEntry == [seq |-> Old + 1, st |-> "valid"]
NewEntry(st) == [seq |-> Fw!NewSeq(Old, job.plan.target), st |-> st]
Script == Fw!PlanAppUpdate(job.image, Old).writes
Written == 6 - Len(job.plan.writes)

(* FwTypes are the ranges.  Safe is what AlwaysAKeyboard says, in the terms of *)
(* the two sectors, and Behind and RunsIt what the boots make of them.  Safe   *)
(* is kept because the plan is followed in its order (Follows, Entering,       *)
(* Recording): the slot that ran is not written, its entry is written first,   *)
(* and the new one last.  Returned and Distinct are what a verdict is given on. *)
FwTypes ==
    /\ slots \in [Fw!Slots -> Image] /\ otadata \in Data
    /\ fwPad \in [at : {"off", "rom", "app"}, slot : Fw!Slots]
    /\ usb \in BOOLEAN /\ sacrificed \in BOOLEAN
    /\ fbounds \in [flashes : Nat, cuts : Nat, kinds : SUBSET Kinds]

JobOK ==
    \/ job = Fw!NoFlash
    \/ job \in [at : {"staged"}, kind : {"update"}, image : Image]
    \/ job \in Jobs

\* The entry behind one on trial is the other slot's
Behind == Trial(otadata) => otadata[1] = None \/ otadata[1].seq = otadata[2].seq - 1

RunsIt ==
    /\ fwPad.at = "app" =>
           fwPad.slot = Fw!BootSlot(otadata) /\ (otadata[2] # None => otadata[2].st # "new")
    /\ usb =>
           fwPad.at = "app" /\ slots[fwPad.slot].kind \in Fw!Works /\ ~Trial(otadata)

\* An image that works is booted, or waits behind the one on trial
Safe ==
    ~sacrificed =>
        IF Trial(otadata)
        THEN otadata[1] # None /\ slots[Fw!SlotOf(otadata[1])].kind \in Fw!Works
        ELSE slots[Fw!BootSlot(otadata)].kind \in Fw!Works

\* Each flash has an image of its own
Distinct ==
    /\ \A s \in Fw!Slots : slots[s].v <= 1 \/ slots[s].v >= 3 + fbounds.flashes
    /\ job.at \in {"staged", "enter", "write"} => job.image.v >= 3 + fbounds.flashes
    /\ job.at \in {"staged", "enter"} => \A s \in Fw!Slots : slots[s].v # job.image.v
    /\ job.at \in {"write", "back"} /\ job.plan.target # None =>
           slots[Old].v # job.image.v

\* What is left to write is the end of the plan
Follows ==
    /\ job.at \in {"enter", "write"} =>
           \A i \in 1..Len(job.plan.writes) :
               IF job.plan.writes[i].what = "app"
               THEN job.plan.writes[i].image \in {Fw!Partial, job.image}
               ELSE job.plan.target = None => job.plan.writes[i].entry = None
    /\ job.at \in {"enter", "write"} /\ job.plan.target # None =>
           /\ Len(job.plan.writes) <= 6
           /\ \A i \in 1..Len(job.plan.writes) : job.plan.writes[i] = Script[Written + i]
           /\ slots[Old].kind \in Fw!Works

Entering ==
    job.at = "enter" /\ job.plan.target # None =>
        /\ fwPad.at # "rom" /\ Written = 0 /\ Steady(otadata, Old)

Recording ==
    /\ job.at = "write" /\ job.plan.target = None => sacrificed
    /\ job.at = "write" /\ job.plan.target # None /\ fwPad.at = "rom" =>
        /\ Written >= 2 => slots[job.plan.target] = job.image
        /\ Written \in 0..4 => ~Trial(otadata) /\ (Later(otadata) => Fw!SlotOf(otadata[2]) = Old)
        /\ Written \in 0..2 => Fw!BootSlot(otadata) = Old
        /\ Written \in 0..3 /\ ~sacrificed => Later(otadata) \/ Old = 0
        /\ Written = 3 => otadata[1] = None
        /\ Written \in 4..6 => otadata[1] = OldEntry
        /\ Written = 5 => otadata[2] = None
        /\ Written = 6 => otadata[2] = NewEntry("new")

Returned ==
    job.at = "back" =>
        /\ fwPad.at # "rom"
        /\ job.plan.target # None =>
               /\ otadata[1] = OldEntry
               /\ otadata[2] \in {NewEntry(st) : st \in {"pending", "valid", "aborted"}}
               /\ slots[job.plan.target] = job.image /\ job.image \in tried

FwIInv == /\ FwTypes /\ JobOK /\ Behind /\ RunsIt /\ Safe /\ Distinct
          /\ Follows /\ Entering /\ Recording /\ Returned

-----------------------------------------------------------------------------
(* The boot selection *)

\* No entry is None, and the sector tells which slot a sequence number selects.
LEMMA EntryIs ==
    ASSUME NEW d \in Data
    PROVE  /\ None \notin First \cup Second
           /\ d[1] # None => /\ d[1] \in First /\ d[1].seq \in 1..2 /\ d[1].st = "valid"
                             /\ Fw!SlotOf(d[1]) = d[1].seq - 1
           /\ d[2] # None => /\ d[2] \in Second /\ d[2].seq \in 2..3 /\ d[2].st \in Fw!States
                             /\ Fw!SlotOf(d[2]) = 3 - d[2].seq
<1>1. None \notin First \cup Second
    BY FwAssumption DEF FwAssumption, Fw!FwConstants, First, Second, Fw!States
<1>2. ASSUME d[1] # None
      PROVE  /\ d[1] \in First /\ d[1].seq \in 1..2 /\ d[1].st = "valid"
             /\ Fw!SlotOf(d[1]) = d[1].seq - 1
    <2>1. d[1] \in First
        BY <1>2 DEF Data
    <2>2. d[1].seq \in 1..2 /\ d[1].st = "valid"
        BY <2>1 DEF First
    <2>3. Fw!SlotOf(d[1]) = (d[1].seq + 1) % 2
        BY DEF Fw!SlotOf
    <2>. QED BY <2>1, <2>2, <2>3
<1>3. ASSUME d[2] # None
      PROVE  /\ d[2] \in Second /\ d[2].seq \in 2..3 /\ d[2].st \in Fw!States
             /\ Fw!SlotOf(d[2]) = 3 - d[2].seq
    <2>1. d[2] \in Second
        BY <1>3 DEF Data
    <2>2. d[2].seq \in 2..3 /\ d[2].st \in Fw!States
        BY <2>1 DEF Second
    <2>3. Fw!SlotOf(d[2]) = (d[2].seq + 1) % 2
        BY DEF Fw!SlotOf
    <2>. QED BY <2>1, <2>2, <2>3
<1>. QED BY <1>1, <1>2, <1>3

\* The second sector decides unless its entry was given up.
LEMMA BootIs ==
    ASSUME NEW d \in Data
    PROVE  /\ Fw!BootSlot(d) = IF Later(d) THEN Fw!SlotOf(d[2])
                            ELSE IF d[1] # None THEN Fw!SlotOf(d[1]) ELSE 0
           /\ Fw!BootSlot(d) \in Fw!Slots
           /\ Later(d) /\ (d[1] = None \/ d[1].seq < d[2].seq) =>
                  2 \in Fw!Selectable(d) /\ Fw!Chosen(d) = 2
           /\ ~Later(d) => 2 \notin Fw!Selectable(d)
           /\ 1 \in Fw!Selectable(d) => d[1].st = "valid"
           /\ \A n \in Fw!Selectable(d) : n \in 1..2
<1>1. /\ 2 \in Fw!Selectable(d) <=> Later(d)
      /\ 1 \in Fw!Selectable(d) <=> d[1] # None
      /\ \A n \in Fw!Selectable(d) : n = 1 \/ n = 2
    BY EntryIs DEF Fw!Selectable, Later
<1>. DEFINE Top(n) == \A m \in Fw!Selectable(d) : d[m].seq <= d[n].seq
<1>2. ASSUME NEW n \in Fw!Selectable(d), Top(n)
      PROVE  Fw!Chosen(d) \in Fw!Selectable(d) /\ Top(Fw!Chosen(d))
    BY <1>2 DEF Fw!Chosen
<1>. HIDE DEF Top
<1>3. CASE Later(d)
    <2>1. /\ d[2] # None /\ d[2].seq \in 2..3 /\ 2 \in Fw!Selectable(d)
          /\ Fw!SlotOf(d[2]) = 3 - d[2].seq
        BY <1>1, <1>3, EntryIs DEF Later
    <2>2. d[1] # None => d[1].seq \in 1..2 /\ Fw!SlotOf(d[1]) = d[1].seq - 1
        BY EntryIs
    <2>3. Top(2)
        BY <1>1, <2>1, <2>2 DEF Top
    <2>4. Fw!Chosen(d) \in Fw!Selectable(d) /\ d[2].seq <= d[Fw!Chosen(d)].seq
        BY <1>2, <2>1, <2>3 DEF Top
    <2>5. CASE Fw!Chosen(d) = 2
        BY <1>1, <1>3, <2>1, <2>5, EntryIs DEF Fw!BootSlot, Fw!Slots
    <2>6. CASE Fw!Chosen(d) = 1
        <3>1. d[1] # None /\ d[1].seq = 2 /\ d[2].seq = 2
            BY <1>1, <2>1, <2>2, <2>4, <2>6
        <3>. QED BY <1>1, <1>3, <2>1, <2>2, <2>6, <3>1, EntryIs DEF Fw!BootSlot, Fw!Slots
    <2>. QED BY <1>1, <2>4, <2>5, <2>6
<1>4. CASE ~Later(d) /\ d[1] # None
    <2>1. d[1].seq \in 1..2 /\ Fw!SlotOf(d[1]) = d[1].seq - 1 /\ d[1].st = "valid"
        BY <1>4, EntryIs
    <2>2. Top(1)
        BY <1>1, <1>4, <2>1 DEF Top
    <2>3. Fw!Chosen(d) = 1
        BY <1>1, <1>2, <1>4, <2>2
    <2>. QED BY <1>1, <1>4, <2>1, <2>3 DEF Fw!BootSlot, Fw!Slots
<1>5. CASE ~Later(d) /\ d[1] = None
    BY <1>1, <1>5 DEF Fw!BootSlot, Fw!Slots
<1>. QED BY <1>3, <1>4, <1>5

\* A boot gives the entry up that the last boot tried.
LEMMA JudgedIs ==
    ASSUME NEW d \in Data
    PROVE  /\ Fw!Judged(d) \in Data /\ Fw!Judged(d)[1] = d[1]
           /\ d[2] # None /\ d[2].st = "pending" =>
                  Fw!Judged(d)[2] = [seq |-> d[2].seq, st |-> "aborted"]
           /\ d[2] = None \/ d[2].st # "pending" => Fw!Judged(d)[2] = d[2]
<1>1. d[1] # None => d[1].st = "valid"
    BY EntryIs
<1>2. Fw!Judged(d)[1] = d[1]
    BY <1>1 DEF Fw!Judged
<1>3. d[2] = None \/ d[2].st # "pending" => Fw!Judged(d)[2] = d[2]
    BY DEF Fw!Judged
<1>4. ASSUME d[2] # None /\ d[2].st = "pending"
      PROVE  Fw!Judged(d)[2] = [seq |-> d[2].seq, st |-> "aborted"] /\ Fw!Judged(d)[2] \in Second
    <2>1. d[2] \in Second
        BY <1>4, EntryIs
    <2>2. Fw!Judged(d)[2] = [d[2] EXCEPT !.st = "aborted"]
        BY <1>4 DEF Fw!Judged
    <2>. QED BY <2>1, <2>2 DEF Second, Fw!States
<1>5. Fw!Judged(d)[2] \in {None} \cup Second
    BY <1>3, <1>4 DEF Data
<1>6. Fw!Judged(d)[1] \in {None} \cup First
    BY <1>2 DEF Data
<1>7. Fw!Judged(d) \in [1..2 -> {None} \cup First \cup Second]
    <2>1. \A n \in 1..2 : Fw!Judged(d)[n] \in {None} \cup First \cup Second
        BY <1>5, <1>6
    <2>2. Fw!Judged(d) = [n \in 1..2 |-> Fw!Judged(d)[n]]
        BY DEF Fw!Judged
    <2>. QED BY <2>1, <2>2
<1>. QED BY <1>2, <1>3, <1>4, <1>5, <1>6, <1>7 DEF Data

\* What a boot does: it tries a new entry, gives one up that was tried before,
\* and runs the slot the entries then select.
LEMMA BootsIs ==
    ASSUME otadata \in Data, Behind, Fw!Boots
    PROVE  /\ otadata' \in Data /\ otadata'[1] = otadata[1]
           /\ otadata[2] = None => otadata'[2] = None
           /\ otadata[2] # None =>
                  otadata'[2] = [seq |-> otadata[2].seq, st |->
                                    IF otadata[2].st = "new" THEN "pending"
                                    ELSE IF otadata[2].st = "pending" THEN "aborted"
                                    ELSE otadata[2].st]
           /\ fwPad' = [at |-> "app", slot |-> Fw!BootSlot(otadata')]
           /\ Fw!BootSlot(otadata') \in Fw!Slots /\ usb' = FALSE
           /\ tried' = tried \cup {slots[Fw!BootSlot(otadata')]}
<1>. DEFINE d == Fw!Judged(otadata)
<1>1. /\ otadata' = [n \in 1..2 |-> IF n \in Fw!Selectable(d) /\ n = Fw!Chosen(d) /\ d[n].st = "new"
                                    THEN [d[n] EXCEPT !.st = "pending"] ELSE d[n]]
      /\ fwPad' = [at |-> "app", slot |-> Fw!BootSlot(d)] /\ usb' = FALSE
      /\ tried' = tried \cup {slots[Fw!BootSlot(d)]}
    BY DEF Fw!Boots
<1>2. /\ d \in Data /\ d[1] = otadata[1]
      /\ otadata[2] # None /\ otadata[2].st = "pending" =>
             d[2] = [seq |-> otadata[2].seq, st |-> "aborted"]
      /\ otadata[2] = None \/ otadata[2].st # "pending" => d[2] = otadata[2]
    BY JudgedIs
<1>. HIDE DEF d
<1>3. otadata'[1] = d[1]
    BY <1>1, <1>2, BootIs
<1>4. ASSUME d[2] # None, d[2].st = "new"
      PROVE  /\ otadata[2] # None /\ otadata[2].st = "new" /\ d[2] = otadata[2]
             /\ otadata'[2] = [seq |-> d[2].seq, st |-> "pending"]
    <2>1. otadata[2] # None /\ otadata[2].st = "new" /\ d[2] = otadata[2]
        BY <1>2, <1>4
    <2>2. d[1] = None \/ d[1].seq = d[2].seq - 1
        BY <1>2, <2>1 DEF Behind, Trial
    <2>3. d[2].seq \in 2..3 /\ d[2] \in Second
        BY <1>2, <1>4, EntryIs
    <2>4. 2 \in Fw!Selectable(d) /\ Fw!Chosen(d) = 2
        <3>1. d[1] = None \/ d[1].seq < d[2].seq
            BY <2>2, <2>3
        <3>. QED BY <1>2, <1>4, <3>1, BootIs DEF Later
    <2>5. otadata'[2] = [d[2] EXCEPT !.st = "pending"]
        BY <1>1, <1>4, <2>4
    <2>6. otadata'[2] = [seq |-> d[2].seq, st |-> "pending"] /\ otadata'[2] \in Second
        BY <2>3, <2>5 DEF Second, Fw!States
    <2>. QED BY <2>1, <2>6
<1>5. ASSUME ~(d[2] # None /\ d[2].st = "new") PROVE otadata'[2] = d[2]
    BY <1>1, <1>2, <1>5, BootIs DEF Later
<1>6. /\ otadata[2] = None => otadata'[2] = None
      /\ otadata[2] # None =>
             otadata'[2] = [seq |-> otadata[2].seq, st |->
                                IF otadata[2].st = "new" THEN "pending"
                                ELSE IF otadata[2].st = "pending" THEN "aborted"
                                ELSE otadata[2].st]
    <2>1. otadata[2] = None \/ otadata[2] \in Second
        BY EntryIs
    <2>2. CASE otadata[2] # None /\ otadata[2].st = "pending"
        BY <1>2, <1>4, <1>5, <2>2
    <2>3. CASE otadata[2] # None /\ otadata[2].st = "new"
        BY <1>2, <1>4, <1>5, <2>3
    <2>4. CASE otadata[2] # None /\ otadata[2].st \notin {"new", "pending"}
        BY <1>2, <1>4, <1>5, <2>1, <2>4 DEF Second
    <2>5. CASE otadata[2] = None
        BY <1>2, <1>4, <1>5, <2>5
    <2>. QED BY <2>2, <2>3, <2>4, <2>5
<1>7. otadata' \in Data
    <2>1. otadata'[1] \in {None} \cup First
        BY <1>2, <1>3 DEF Data
    <2>2. otadata'[2] \in {None} \cup Second
        <3>1. CASE otadata[2] # None
            BY <1>6, <3>1, EntryIs DEF Second, Fw!States
        <3>2. CASE otadata[2] = None
            BY <1>6, <3>2
        <3>. QED BY <3>1, <3>2
    <2>3. otadata' \in [1..2 -> {None} \cup First \cup Second]
        <3>1. \A n \in 1..2 : otadata'[n] \in {None} \cup First \cup Second
            BY <2>1, <2>2
        <3>2. otadata' = [n \in 1..2 |-> otadata'[n]]
            BY <1>1
        <3>. QED BY <3>1, <3>2
    <2>. QED BY <2>1, <2>2, <2>3 DEF Data
<1>8. Fw!BootSlot(otadata') = Fw!BootSlot(d)
    <2>1. CASE d[2] # None /\ d[2].st = "new"
        <3>1. otadata'[2] # None /\ otadata'[2].st = "pending" /\ otadata'[2].seq = d[2].seq
            <4>1. otadata'[2] = [seq |-> d[2].seq, st |-> "pending"] /\ d[2].seq \in 2..3
                BY <1>2, <1>4, <2>1, EntryIs
            <4>2. otadata'[2] \in Second
                BY <4>1 DEF Second, Fw!States
            <4>. QED BY <4>1, <4>2, <1>2, EntryIs
        <3>2. Fw!BootSlot(d) = Fw!SlotOf(d[2])
            BY <1>2, <2>1, BootIs DEF Later
        <3>3. Fw!BootSlot(otadata') = Fw!SlotOf(otadata'[2])
            BY <1>7, <3>1, BootIs DEF Later
        <3>. QED BY <3>1, <3>2, <3>3 DEF Fw!SlotOf
    <2>2. CASE ~(d[2] # None /\ d[2].st = "new")
        <3>1. otadata'[1] = d[1] /\ otadata'[2] = d[2]
            BY <1>3, <1>5, <2>2
        <3>. QED BY <1>2, <1>7, <3>1, BootIs DEF Later
    <2>. QED BY <2>1, <2>2
<1>. QED BY <1>1, <1>2, <1>3, <1>6, <1>7, <1>8, BootIs


-----------------------------------------------------------------------------
(* What is written *)

\* Two writes are a sequence of two.
LEMMA PairIs ==
    ASSUME NEW S, NEW a \in S, NEW b \in S
    PROVE  <<a, b>> \in Seq(S) /\ Len(<<a, b>>) = 2 /\ <<a, b>>[1] = a /\ <<a, b>>[2] = b
OBVIOUS

\* What follows two writes.
LEMMA AfterTwo ==
    ASSUME NEW S, NEW a \in Seq(S), NEW b \in Seq(S), Len(a) = 2
    PROVE  /\ a \o b \in Seq(S) /\ Len(a \o b) = Len(b) + 2
           /\ (a \o b)[1] = a[1] /\ (a \o b)[2] = a[2]
           /\ \A i \in 3..(Len(b) + 2) : (a \o b)[i] = b[i - 2]
<1>0. /\ a \o b \in Seq(S) /\ Len(a \o b) = Len(a) + Len(b)
      /\ \A i \in 1..(Len(a) + Len(b)) :
            (a \o b)[i] = IF i <= Len(a) THEN a[i] ELSE b[i - Len(a)]
    BY ConcatProperties, Zenon
<1>1. \A i \in 1..(2 + Len(b)) : (a \o b)[i] = IF i <= 2 THEN a[i] ELSE b[i - 2]
    BY <1>0
<1>2. Len(b) \in Nat
    OBVIOUS
<1>3. /\ 1 \in 1..(2 + Len(b)) /\ 2 \in 1..(2 + Len(b))
      /\ \A i \in 3..(Len(b) + 2) : i \in 1..(2 + Len(b)) /\ ~(i <= 2)
    BY <1>2
<1>. QED BY <1>0, <1>1, <1>2, <1>3

\* Three pairs in a row, as App, Sector and Sector are.
LEMMA SixIs ==
    ASSUME NEW S, NEW a \in Seq(S), NEW b \in Seq(S), NEW c \in Seq(S),
           Len(a) = 2, Len(b) = 2, Len(c) = 2
    PROVE  /\ a \o (b \o c) \in Seq(S) /\ Len(a \o (b \o c)) = 6
           /\ (a \o (b \o c))[1] = a[1] /\ (a \o (b \o c))[2] = a[2]
           /\ (a \o (b \o c))[3] = b[1] /\ (a \o (b \o c))[4] = b[2]
           /\ (a \o (b \o c))[5] = c[1] /\ (a \o (b \o c))[6] = c[2]
<1>1. b \o c \in Seq(S) /\ Len(b \o c) = 4
    BY AfterTwo
<1>. QED BY <1>1, AfterTwo

\* The plan of an update beside the running slot, write by write.
LEMMA ScriptIs ==
    ASSUME NEW r \in Fw!Slots, NEW image \in Image
    PROVE  /\ Fw!PlanAppUpdate(image, r).target = 1 - r
           /\ Fw!PlanAppUpdate(image, r).writes \in Seq(FwWrites)
           /\ Len(Fw!PlanAppUpdate(image, r).writes) = 6
           /\ Fw!PlanAppUpdate(image, r).writes[1] = [what |-> "app", slot |-> 1 - r, image |-> Fw!Partial]
           /\ Fw!PlanAppUpdate(image, r).writes[2] = [what |-> "app", slot |-> 1 - r, image |-> image]
           /\ Fw!PlanAppUpdate(image, r).writes[3] = [what |-> "entry", n |-> 1, entry |-> None]
           /\ Fw!PlanAppUpdate(image, r).writes[4] =
                  [what |-> "entry", n |-> 1, entry |-> [seq |-> r + 1, st |-> "valid"]]
           /\ Fw!PlanAppUpdate(image, r).writes[5] = [what |-> "entry", n |-> 2, entry |-> None]
           /\ Fw!PlanAppUpdate(image, r).writes[6] =
                  [what |-> "entry", n |-> 2, entry |-> [seq |-> Fw!NewSeq(r, 1 - r), st |-> "new"]]
           /\ Fw!NewSeq(r, 1 - r) = r + 2 /\ r + 1 \in 1..2 /\ 1 - r \in Fw!Slots
<1>1. r # None /\ r \in 0..1 /\ 1 - r \in Fw!Slots
    BY FwAssumption DEF FwAssumption, Fw!FwConstants, Fw!Slots
<1>2. Fw!NewSeq(r, 1 - r) = r + 2
    BY <1>1 DEF Fw!NewSeq
<1>3. Fw!Partial \in Image
    BY DEF Fw!Partial, Image
<1>. DEFINE a == Fw!App(1 - r, image)
            o == Fw!Sector(1, r + 1, "valid")
            n == Fw!Sector(2, Fw!NewSeq(r, 1 - r), "new")
            w == Fw!PlanAppUpdate(image, r).writes
<1>4. /\ a \in Seq(FwWrites) /\ Len(a) = 2
      /\ a[1] = [what |-> "app", slot |-> 1 - r, image |-> Fw!Partial]
      /\ a[2] = [what |-> "app", slot |-> 1 - r, image |-> image]
    <2>1. /\ [what |-> "app", slot |-> 1 - r, image |-> Fw!Partial] \in FwWrites
          /\ [what |-> "app", slot |-> 1 - r, image |-> image] \in FwWrites
        BY <1>1, <1>3 DEF FwWrites
    <2>. QED BY <2>1, PairIs DEF Fw!App
<1>5. /\ o \in Seq(FwWrites) /\ Len(o) = 2
      /\ o[1] = [what |-> "entry", n |-> 1, entry |-> None]
      /\ o[2] = [what |-> "entry", n |-> 1, entry |-> [seq |-> r + 1, st |-> "valid"]]
    <2>1. [seq |-> r + 1, st |-> "valid"] \in First
        BY <1>1 DEF First
    <2>2. /\ [what |-> "entry", n |-> 1, entry |-> None] \in FwWrites
          /\ [what |-> "entry", n |-> 1, entry |-> [seq |-> r + 1, st |-> "valid"]] \in FwWrites
        BY <2>1 DEF FwWrites
    <2>. QED BY <2>2, PairIs DEF Fw!Sector, Fw!Erase, Fw!Entry
<1>6. /\ n \in Seq(FwWrites) /\ Len(n) = 2
      /\ n[1] = [what |-> "entry", n |-> 2, entry |-> None]
      /\ n[2] = [what |-> "entry", n |-> 2, entry |-> [seq |-> Fw!NewSeq(r, 1 - r), st |-> "new"]]
    <2>1. [seq |-> Fw!NewSeq(r, 1 - r), st |-> "new"] \in Second
        BY <1>1, <1>2 DEF Second, Fw!States
    <2>2. /\ [what |-> "entry", n |-> 2, entry |-> None] \in FwWrites
          /\ [what |-> "entry", n |-> 2,
              entry |-> [seq |-> Fw!NewSeq(r, 1 - r), st |-> "new"]] \in FwWrites
        BY <2>1 DEF FwWrites
    <2>. QED BY <2>2, PairIs DEF Fw!Sector, Fw!Erase, Fw!Entry
<1>7. Fw!PlanAppUpdate(image, r).target = 1 - r /\ w = a \o (o \o n)
    BY <1>1 DEF Fw!PlanAppUpdate, Fw!OtadataImage
<1>. HIDE DEF a, o, n, w
<1>9. /\ w \in Seq(FwWrites) /\ Len(w) = 6
      /\ w[1] = a[1] /\ w[2] = a[2]
      /\ w[3] = o[1] /\ w[4] = o[2] /\ w[5] = n[1] /\ w[6] = n[2]
    BY <1>4, <1>5, <1>6, <1>7, SixIs
<1>. QED BY <1>1, <1>2, <1>4, <1>5, <1>6, <1>7, <1>9 DEF w

\* Without a running slot the app goes to ota_0, and otadata is erased at most.
LEMMA BareIs ==
    ASSUME NEW image \in Image, NEW p \in {Fw!PlanAppUpdate(image, None), Fw!FullSet(image)}
    PROVE  /\ p.target = None /\ p.writes \in Seq(FwWrites)
           /\ \A i \in 1..Len(p.writes) :
                  IF p.writes[i].what = "app" THEN p.writes[i].image \in {Fw!Partial, image}
                  ELSE p.writes[i].entry = None
<1>. DEFINE a == Fw!App(0, image)
            e == <<Fw!Erase(1), Fw!Erase(2)>>
<1>1. Fw!Partial \in Image
    BY DEF Fw!Partial, Image
<1>2. /\ a \in Seq(FwWrites) /\ Len(a) = 2
      /\ a[1] = [what |-> "app", slot |-> 0, image |-> Fw!Partial]
      /\ a[2] = [what |-> "app", slot |-> 0, image |-> image]
    <2>1. /\ [what |-> "app", slot |-> 0, image |-> Fw!Partial] \in FwWrites
          /\ [what |-> "app", slot |-> 0, image |-> image] \in FwWrites
        BY <1>1 DEF FwWrites, Fw!Slots
    <2>. QED BY <2>1, PairIs DEF Fw!App
<1>3. /\ e \in Seq(FwWrites) /\ Len(e) = 2
      /\ e[1] = [what |-> "entry", n |-> 1, entry |-> None]
      /\ e[2] = [what |-> "entry", n |-> 2, entry |-> None]
    <2>1. Fw!Erase(1) \in FwWrites /\ Fw!Erase(2) \in FwWrites
        BY DEF Fw!Erase, FwWrites
    <2>. QED BY <2>1, PairIs DEF Fw!Erase
<1>4. /\ Fw!PlanAppUpdate(image, None).target = None /\ Fw!PlanAppUpdate(image, None).writes = a
      /\ Fw!FullSet(image).target = None /\ Fw!FullSet(image).writes = e \o a
    BY DEF Fw!PlanAppUpdate, Fw!FullSet
<1>. HIDE DEF a, e
<1>5. /\ e \o a \in Seq(FwWrites) /\ Len(e \o a) = 4
      /\ (e \o a)[1] = e[1] /\ (e \o a)[2] = e[2]
      /\ (e \o a)[3] = a[1] /\ (e \o a)[4] = a[2]
    <2>1. (e \o a)[3] = a[1] /\ (e \o a)[4] = a[2]
        BY <1>2, <1>3, AfterTwo
    <2>. QED BY <1>2, <1>3, <2>1, AfterTwo
<1>6. \A i \in 1..2 : a[i].what = "app" /\ a[i].image \in {Fw!Partial, image}
    <2>1. \A i \in 1..2 : i = 1 \/ i = 2
        OBVIOUS
    <2>. QED BY <1>2, <2>1
<1>7. ASSUME NEW i \in 1..4
      PROVE  IF (e \o a)[i].what = "app" THEN (e \o a)[i].image \in {Fw!Partial, image}
             ELSE (e \o a)[i].entry = None
    <2>1. i = 1 \/ i = 2 \/ i = 3 \/ i = 4
        OBVIOUS
    <2>2. /\ e[1].what = "entry" /\ e[1].entry = None /\ e[2].what = "entry" /\ e[2].entry = None
          /\ a[1].what = "app" /\ a[1].image = Fw!Partial /\ a[2].what = "app" /\ a[2].image = image
        BY <1>2, <1>3
    <2>3. /\ (e \o a)[1].what = "entry" /\ (e \o a)[1].entry = None
          /\ (e \o a)[2].what = "entry" /\ (e \o a)[2].entry = None
          /\ (e \o a)[3].what = "app" /\ (e \o a)[3].image = Fw!Partial
          /\ (e \o a)[4].what = "app" /\ (e \o a)[4].image = image
        BY <1>5, <2>2
    <2>. QED BY <2>1, <2>3
<1>8. CASE p = Fw!PlanAppUpdate(image, None)
    <2>1. p.target = None /\ p.writes = a
        BY <1>4, <1>8
    <2>2. \A i \in 1..Len(a) : a[i].what = "app" /\ a[i].image \in {Fw!Partial, image}
        BY <1>2, <1>6
    <2>. QED BY <1>2, <2>1, <2>2
<1>9. CASE p = Fw!FullSet(image)
    <2>1. p.target = None /\ p.writes = e \o a
        BY <1>4, <1>9
    <2>. QED BY <1>5, <1>7, <2>1
<1>. QED BY <1>8, <1>9


-----------------------------------------------------------------------------
(* The flash under way *)

\* What a flash is at.
LEMMA JobIs ==
    ASSUME JobOK
    PROVE  /\ job.at \in {"none", "staged", "enter", "write", "back"}
           /\ job.at \in {"enter", "write", "back"} => job \in Jobs
           /\ job.at = "staged" => job \in [at : {"staged"}, kind : {"update"}, image : Image]
BY DEF JobOK, Fw!NoFlash, Jobs

\* Where a flash is, is all that changes.
LEMMA JobAt ==
    ASSUME NEW j \in Jobs, NEW a \in {"enter", "write", "back"}, NEW k, k = [j EXCEPT !.at = a]
    PROVE  /\ k \in Jobs /\ k.at = a /\ k.kind = j.kind /\ k.image = j.image /\ k.plan = j.plan
BY DEF Jobs

\* What is left to write, is all that changes.
LEMMA JobWrites ==
    ASSUME job \in Jobs, NEW w \in Seq(FwWrites), job' = [job EXCEPT !.plan.writes = w]
    PROVE  /\ job' \in Jobs /\ job'.at = job.at /\ job'.image = job.image
           /\ job'.plan.target = job.plan.target /\ job'.plan.writes = w
BY DEF Jobs

\* The plan of a flash that leaves an image to go back to.
LEMMA OldIs ==
    ASSUME job \in Jobs, job.plan.target # None
    PROVE  /\ job.plan.target \in Fw!Slots /\ Old \in Fw!Slots /\ 1 - Old = job.plan.target
           /\ Old # job.plan.target /\ job.image \in Image /\ job.plan.writes \in Seq(FwWrites)
           /\ Len(job.plan.writes) \in Nat
           /\ OldEntry \in First /\ OldEntry.seq = Old + 1 /\ OldEntry.st = "valid"
           /\ OldEntry # None
           /\ \A st \in Fw!States : NewEntry(st) \in Second /\ NewEntry(st).seq = Old + 2
                                 /\ NewEntry(st).st = st /\ NewEntry(st) # None
<1>1. job.plan.target \in Fw!Slots /\ job.image \in Image /\ job.plan.writes \in Seq(FwWrites)
    BY DEF Jobs
<1>2. Old \in Fw!Slots /\ 1 - Old = job.plan.target /\ Old # job.plan.target
    BY <1>1 DEF Old, Fw!Slots
<1>3. Fw!NewSeq(Old, job.plan.target) = Old + 2 /\ Old + 1 \in 1..2
    BY <1>1, <1>2, ScriptIs
<1>4. OldEntry \in First /\ OldEntry.seq = Old + 1 /\ OldEntry.st = "valid"
    BY <1>3 DEF OldEntry, First
<1>5. ASSUME NEW st \in Fw!States
      PROVE  NewEntry(st) \in Second /\ NewEntry(st).seq = Old + 2 /\ NewEntry(st).st = st
    <2>1. Old + 2 \in 2..3
        BY <1>2 DEF Fw!Slots
    <2>. QED BY <1>3, <2>1 DEF NewEntry, Second
<1>6. None \notin First \cup Second
    BY FwAssumption DEF FwAssumption, Fw!FwConstants, First, Second, Fw!States
<1>. QED BY <1>1, <1>2, <1>4, <1>5, <1>6

-----------------------------------------------------------------------------
(* The steps *)

\* The user is told, and the flash is over.
LEMMA EndsStep ==
    ASSUME FwIInv, job' = Fw!NoFlash, UNCHANGED <<slots, otadata, fwPad, usb, fbounds, sacrificed>>
    PROVE  FwIInv'
<1>1. job'.at = "none"
    BY DEF Fw!NoFlash
<1>2. FwTypes' /\ JobOK' /\ Behind' /\ RunsIt' /\ Safe'
    BY DEF FwIInv, FwTypes, JobOK, Behind, RunsIt, Safe
<1>3. Distinct'
    BY <1>1 DEF FwIInv, Distinct
<1>4. Follows' /\ Entering' /\ Recording' /\ Returned'
    BY <1>1 DEF Follows, Entering, Recording, Returned
<1>. QED BY <1>2, <1>3, <1>4 DEF FwIInv

\* The cable is pulled.
LEMMA UnpluggedStep == ASSUME FwIInv, Fw!Unplugged PROVE FwIInv'
<1>0. /\ fwPad' = Fw!Off /\ usb' = FALSE /\ fbounds' = [fbounds EXCEPT !["cuts"] = @ - 1]
      /\ fbounds.cuts > 0 /\ UNCHANGED <<slots, otadata, job, tried, sacrificed>>
    BY DEF Fw!Unplugged, Fw!CountFw
<1>1. fwPad'.at = "off" /\ fwPad' \in [at : {"off", "rom", "app"}, slot : Fw!Slots]
    BY <1>0 DEF Fw!Off, Fw!Slots
<1>2. fbounds' \in [flashes : Nat, cuts : Nat, kinds : SUBSET Kinds]
      /\ fbounds'.flashes = fbounds.flashes
    BY <1>0 DEF FwIInv, FwTypes
<1>3. FwTypes'
    BY <1>0, <1>1, <1>2 DEF FwIInv, FwTypes
<1>4. JobOK' /\ Behind' /\ Safe' /\ RunsIt'
    BY <1>0, <1>1 DEF FwIInv, JobOK, Behind, Safe, RunsIt, Trial
<1>5. Distinct' /\ Follows'
    BY <1>0, <1>2 DEF FwIInv, Distinct, Follows, Old, Script, Written
<1>6. Entering' /\ Recording' /\ Returned'
    BY <1>0, <1>1 DEF FwIInv, Entering, Recording, Returned, Old, OldEntry, NewEntry, Written
<1>. QED BY <1>3, <1>4, <1>5, <1>6 DEF FwIInv

\* A running image that the host configures is confirmed.
LEMMA UsbUpStep == ASSUME FwIInv, Fw!UsbUp PROVE FwIInv'
<1>0. /\ fwPad.at = "app" /\ ~usb /\ slots[fwPad.slot].kind \in Fw!Works /\ usb' = TRUE
      /\ otadata' = [n \in 1..2 |-> IF otadata[n] # None /\ otadata[n].st = "pending"
                                    THEN [otadata[n] EXCEPT !.st = "valid"] ELSE otadata[n]]
      /\ UNCHANGED <<slots, fwPad, job, told, fbounds, tried, sacrificed>>
    BY DEF Fw!UsbUp, Fw!Running
<1>1. otadata \in Data /\ (otadata[2] # None => otadata[2].st # "new")
    BY <1>0 DEF FwIInv, FwTypes, RunsIt
<1>2. otadata'[1] = otadata[1]
    BY <1>0, <1>1, EntryIs
<1>3. ASSUME Trial(otadata)
      PROVE  otadata'[2] = [seq |-> otadata[2].seq, st |-> "valid"] /\ otadata'[2] \in Second
    <2>1. otadata[2] \in Second /\ otadata[2] # None /\ otadata[2].st = "pending"
        BY <1>1, <1>3, EntryIs DEF Trial
    <2>2. otadata'[2] = [otadata[2] EXCEPT !.st = "valid"]
        BY <1>0, <2>1
    <2>. QED BY <2>1, <2>2 DEF Second, Fw!States
<1>4. ~Trial(otadata) => otadata'[2] = otadata[2]
    BY <1>0 DEF Trial
<1>5. otadata' \in Data
    <2>1. otadata'[1] \in {None} \cup First /\ otadata'[2] \in {None} \cup Second
        BY <1>1, <1>2, <1>3, <1>4 DEF Data
    <2>2. \A n \in 1..2 : otadata'[n] \in {None} \cup First \cup Second
        BY <2>1
    <2>3. otadata' = [n \in 1..2 |-> otadata'[n]]
        BY <1>0
    <2>4. otadata' \in [1..2 -> {None} \cup First \cup Second]
        BY <2>2, <2>3
    <2>. QED BY <2>1, <2>4 DEF Data
<1>6. ~Trial(otadata') /\ Fw!BootSlot(otadata') = Fw!BootSlot(otadata)
    <2>1. CASE Trial(otadata)
        <3>1. otadata'[2] # None /\ otadata'[2].st = "valid" /\ otadata'[2].seq = otadata[2].seq
            BY <1>3, <1>5, <2>1, EntryIs
        <3>2. Fw!BootSlot(otadata') = Fw!SlotOf(otadata'[2])
            BY <1>5, <3>1, BootIs DEF Later
        <3>3. Fw!BootSlot(otadata) = Fw!SlotOf(otadata[2])
            BY <1>1, <2>1, BootIs DEF Later, Trial
        <3>. QED BY <3>1, <3>2, <3>3 DEF Fw!SlotOf, Trial
    <2>2. CASE ~Trial(otadata)
        BY <1>1, <1>2, <1>4, <1>5, <2>2, BootIs DEF Later, Trial
    <2>. QED BY <2>1, <2>2
<1>7. fwPad.slot = Fw!BootSlot(otadata)
    BY <1>0 DEF FwIInv, RunsIt
<1>8. FwTypes' /\ JobOK'
    BY <1>0, <1>5 DEF FwIInv, FwTypes, JobOK
<1>9. Behind' /\ RunsIt' /\ Safe'
    BY <1>0, <1>6, <1>7 DEF Behind, RunsIt, Safe, Trial
<1>10. Distinct' /\ Follows'
    BY <1>0 DEF FwIInv, Distinct, Follows, Old, Script, Written
<1>11. Entering' /\ Recording'
    BY <1>0, <1>6 DEF FwIInv, Entering, Recording, Steady, Old, Written
<1>12. Returned'
    <2>. SUFFICES ASSUME job.at = "back", job.plan.target # None
         PROVE  otadata'[2] \in {NewEntry(st) : st \in {"pending", "valid", "aborted"}}
        BY <1>0, <1>2 DEF FwIInv, Returned, Old, OldEntry, NewEntry
    <2>1. PICK st \in {"pending", "valid", "aborted"} : otadata[2] = NewEntry(st)
        BY DEF FwIInv, Returned
    <2>2. job \in Jobs /\ otadata[2].seq = Old + 2
        BY <2>1, JobIs, OldIs DEF FwIInv, Fw!States
    <2>3. CASE Trial(otadata)
        BY <1>3, <2>1, <2>3 DEF NewEntry
    <2>4. CASE ~Trial(otadata)
        BY <1>4, <2>1, <2>4
    <2>. QED BY <2>3, <2>4
<1>. QED BY <1>8, <1>9, <1>10, <1>11, <1>12 DEF FwIInv


\* However the pad boots, it runs what the entries select, and what was safe is.
LEMMA BootStep ==
    ASSUME FwIInv, Fw!Boots, UNCHANGED <<slots, fbounds, sacrificed>>
    PROVE  FwTypes' /\ Behind' /\ RunsIt' /\ Safe' /\ fwPad'.at = "app"
<1>0. /\ otadata \in Data /\ Behind
      /\ slots \in [Fw!Slots -> Image] /\ sacrificed \in BOOLEAN
      /\ fbounds \in [flashes : Nat, cuts : Nat, kinds : SUBSET Kinds]
    BY DEF FwIInv, FwTypes
<1>1. /\ otadata' \in Data /\ otadata'[1] = otadata[1]
      /\ fwPad' = [at |-> "app", slot |-> Fw!BootSlot(otadata')]
      /\ Fw!BootSlot(otadata') \in Fw!Slots /\ usb' = FALSE
    BY <1>0, BootsIs
<1>2. FwTypes' /\ fwPad'.at = "app"
    BY <1>0, <1>1 DEF FwTypes
<1>3. CASE otadata[2] = None
    <2>1. otadata'[2] = None
        BY <1>0, <1>3, BootsIs
    <2>2. Fw!BootSlot(otadata') = Fw!BootSlot(otadata)
        BY <1>0, <1>1, <1>3, <2>1, BootIs DEF Later
    <2>3. Behind' /\ RunsIt'
        BY <1>1, <2>1 DEF Behind, RunsIt, Trial
    <2>4. Safe'
        BY <1>1, <1>3, <2>1, <2>2 DEF FwIInv, Safe, Trial
    <2>. QED BY <1>2, <2>3, <2>4
<1>4. CASE otadata[2] # None
    <2>1. /\ otadata[2].seq \in 2..3 /\ otadata[2].st \in Fw!States
          /\ otadata'[2] = [seq |-> otadata[2].seq, st |->
                                IF otadata[2].st = "new" THEN "pending"
                                ELSE IF otadata[2].st = "pending" THEN "aborted"
                                ELSE otadata[2].st]
        BY <1>0, <1>4, BootsIs, EntryIs
    <2>2. otadata'[2] \in Second /\ otadata'[2] # None
        <3>1. otadata'[2] \in Second
            BY <2>1 DEF Second, Fw!States
        <3>. QED BY <1>1, <3>1, EntryIs
    <2>3. otadata'[2].st # "new" /\ otadata'[2].seq = otadata[2].seq
        BY <2>1
    <2>4. Behind'
        BY <1>0, <1>1, <1>4, <2>1, <2>3 DEF Behind, Trial
    <2>5. RunsIt'
        BY <1>1, <2>3 DEF RunsIt
    <2>6. Safe'
        <3>. SUFFICES ASSUME ~sacrificed
             PROVE  IF Trial(otadata')
                    THEN otadata'[1] # None /\ slots[Fw!SlotOf(otadata'[1])].kind \in Fw!Works
                    ELSE slots[Fw!BootSlot(otadata')].kind \in Fw!Works
            BY DEF Safe
        <3>1. CASE otadata[2].st = "new"
            <4>1. Trial(otadata) /\ Trial(otadata')
                BY <1>4, <2>1, <2>2, <3>1 DEF Trial
            <4>. QED BY <1>1, <4>1 DEF FwIInv, Safe
        <3>2. CASE otadata[2].st = "pending"
            <4>1. Trial(otadata) /\ ~Trial(otadata') /\ ~Later(otadata')
                BY <1>4, <2>1, <2>2, <3>2 DEF Trial, Later
            <4>2. otadata[1] # None /\ slots[Fw!SlotOf(otadata[1])].kind \in Fw!Works
                BY <4>1 DEF FwIInv, Safe
            <4>3. Fw!BootSlot(otadata') = Fw!SlotOf(otadata[1])
                BY <1>1, <4>1, <4>2, BootIs
            <4>. QED BY <4>1, <4>2, <4>3
        <3>3. CASE otadata[2].st \notin {"new", "pending"}
            <4>1. otadata'[2].st = otadata[2].st
                BY <2>1, <3>3
            <4>2. ~Trial(otadata) /\ ~Trial(otadata') /\ (Later(otadata) <=> Later(otadata'))
                BY <1>4, <2>2, <3>3, <4>1 DEF Trial, Later
            <4>3. Fw!BootSlot(otadata') = Fw!BootSlot(otadata)
                BY <1>0, <1>1, <2>3, <4>2, BootIs DEF Fw!SlotOf
            <4>. QED BY <4>2, <4>3 DEF FwIInv, Safe
        <3>. QED BY <3>1, <3>2, <3>3
    <2>. QED BY <1>2, <2>4, <2>5, <2>6
<1>. QED BY <1>3, <1>4

\* A pad that boots while a flash waits for it, or looks at the outcome.
LEMMA RebootStep ==
    ASSUME FwIInv, Fw!Boots, UNCHANGED <<slots, job, told, fbounds, sacrificed>>, fwPad.at # "rom"
    PROVE  FwIInv'
<1>0. otadata \in Data /\ Behind
    BY DEF FwIInv, FwTypes
<1>1. FwTypes' /\ Behind' /\ RunsIt' /\ Safe' /\ fwPad'.at = "app"
    BY BootStep
<1>2. JobOK' /\ Distinct' /\ Follows'
    BY DEF FwIInv, JobOK, Distinct, Follows, Old, Script, Written
<1>3. Entering'
    <2>. SUFFICES ASSUME job.at = "enter", job.plan.target # None
         PROVE  Steady(otadata', Old)
        BY <1>1 DEF FwIInv, Entering, Old, Written
    <2>1. ~Trial(otadata) /\ Fw!BootSlot(otadata) = Old
        BY DEF FwIInv, Entering, Steady
    <2>2. otadata'[1] = otadata[1] /\ otadata' \in Data
        BY <1>0, BootsIs
    <2>3. CASE otadata[2] = None
        <3>1. otadata'[2] = None
            BY <1>0, <2>3, BootsIs
        <3>. QED BY <1>0, <2>1, <2>2, <2>3, <3>1, BootIs DEF Steady, Trial, Later
    <2>4. CASE otadata[2] # None
        <3>1. otadata[2] \in Second /\ otadata[2].st \notin {"new", "pending"}
            BY <1>0, <2>1, <2>4, EntryIs DEF Trial
        <3>2. otadata'[2] = [seq |-> otadata[2].seq, st |-> otadata[2].st]
            BY <1>0, <2>4, <3>1, BootsIs
        <3>3. otadata'[2] = otadata[2]
            BY <3>1, <3>2 DEF Second
        <3>. QED BY <1>0, <2>1, <2>2, <3>3, BootIs DEF Steady, Trial, Later
    <2>. QED BY <2>3, <2>4
<1>4. Recording'
    BY <1>1 DEF FwIInv, Recording
<1>5. Returned'
    <2>. SUFFICES ASSUME job.at = "back", job.plan.target # None
         PROVE  /\ otadata'[1] = OldEntry
                /\ otadata'[2] \in {NewEntry(st) : st \in {"pending", "valid", "aborted"}}
                /\ job.image \in tried'
        BY <1>1 DEF FwIInv, Returned, Old, OldEntry, NewEntry
    <2>1. PICK st \in {"pending", "valid", "aborted"} : otadata[2] = NewEntry(st)
        BY DEF FwIInv, Returned
    <2>2. job \in Jobs /\ st \in Fw!States
        BY JobIs DEF FwIInv, Fw!States
    <2>3. otadata[2] # None /\ otadata[2].seq = Old + 2 /\ otadata[2].st = st
        BY <2>1, <2>2, OldIs
    <2>4. otadata'[2] = [seq |-> otadata[2].seq, st |->
                                IF otadata[2].st = "new" THEN "pending"
                                ELSE IF otadata[2].st = "pending" THEN "aborted"
                                ELSE otadata[2].st]
          /\ otadata'[1] = otadata[1] /\ tried \subseteq tried'
        BY <1>0, <2>3, BootsIs
    <2>5. otadata'[2] = NewEntry(IF st = "pending" THEN "aborted" ELSE st)
        BY <2>1, <2>3, <2>4 DEF NewEntry
    <2>. QED BY <2>4, <2>5 DEF FwIInv, Returned
<1>. QED BY <1>1, <1>2, <1>3, <1>4, <1>5 DEF FwIInv

\* The image that is written is booted on trial.
LEMMA ResetStep == ASSUME FwIInv, Fw!ResetToApp PROVE FwIInv'
<1>0. /\ job.at = "write" /\ fwPad.at = "rom" /\ job.plan.writes = <<>> /\ Fw!Boots
      /\ job' = [job EXCEPT !.at = "back"]
      /\ UNCHANGED <<slots, told, fbounds, sacrificed>>
    BY DEF Fw!ResetToApp
<1>1. job \in Jobs /\ otadata \in Data /\ Behind
    BY <1>0, JobIs DEF FwIInv, FwTypes
<1>2. /\ job' \in Jobs /\ job'.at = "back" /\ job'.image = job.image /\ job'.plan = job.plan
    BY <1>0, <1>1, JobAt
<1>3. FwTypes' /\ Behind' /\ RunsIt' /\ Safe' /\ fwPad'.at = "app"
    BY <1>0, BootStep
<1>4. JobOK'
    BY <1>2 DEF JobOK
<1>5. Distinct'
    BY <1>0, <1>2 DEF FwIInv, Distinct, Old
<1>6. Follows' /\ Entering' /\ Recording'
    BY <1>2 DEF Follows, Entering, Recording
<1>7. Returned'
    <2>. SUFFICES ASSUME job.plan.target # None
         PROVE  /\ otadata'[1] = OldEntry /\ otadata'[2] = NewEntry("pending")
                /\ slots[job.plan.target] = job.image /\ job.image \in tried'
        BY <1>0, <1>2, <1>3 DEF Returned, Old, OldEntry, NewEntry
    <2>1. Written = 6
        BY <1>0 DEF Written
    <2>2. /\ otadata[1] = OldEntry /\ otadata[2] = NewEntry("new")
          /\ slots[job.plan.target] = job.image
        BY <1>0, <2>1 DEF FwIInv, Recording
    <2>3. "new" \in Fw!States /\ "pending" \in Fw!States
        BY DEF Fw!States
    <2>4. /\ otadata[2] # None /\ otadata[2].seq = Old + 2 /\ otadata[2].st = "new"
        BY <1>1, <2>2, <2>3, OldIs
    <2>5. otadata'[2] = NewEntry("pending") /\ otadata'[1] = OldEntry
        BY <1>0, <1>1, <2>2, <2>4, BootsIs DEF NewEntry
    <2>6. Fw!SlotOf(NewEntry("pending")) = job.plan.target
        <3>1. /\ NewEntry("pending").seq = Old + 2 /\ Old \in Fw!Slots
              /\ 1 - Old = job.plan.target
            BY <1>1, <2>3, OldIs
        <3>. QED BY <3>1 DEF Fw!SlotOf, Fw!Slots
    <2>7. Fw!BootSlot(otadata') = job.plan.target
        <3>1. otadata'[2] # None /\ otadata'[2].st = "pending"
            BY <1>1, <2>3, <2>5, OldIs
        <3>2. otadata' \in Data
            BY <1>3 DEF FwTypes
        <3>. QED BY <2>5, <2>6, <3>1, <3>2, BootIs DEF Later
    <2>8. tried' = tried \cup {slots[Fw!BootSlot(otadata')]}
        BY <1>0, <1>1, BootsIs
    <2>. QED BY <2>2, <2>5, <2>7, <2>8
<1>. QED BY <1>3, <1>4, <1>5, <1>6, <1>7 DEF FwIInv


\* A flash that begins has an image of its own.
LEMMA FreshIs ==
    ASSUME FwIInv, NEW image \in Fw!Images, fbounds.flashes > 0,
           fbounds' = [fbounds EXCEPT !["flashes"] = @ - 1]
    PROVE  /\ image \in Image /\ image.v = 3 + fbounds'.flashes
           /\ fbounds' \in [flashes : Nat, cuts : Nat, kinds : SUBSET Kinds]
           /\ \A s \in Fw!Slots :
                 slots[s].v # image.v /\ (slots[s].v <= 1 \/ slots[s].v >= 3 + fbounds'.flashes)
<1>1. /\ fbounds' \in [flashes : Nat, cuts : Nat, kinds : SUBSET Kinds]
      /\ fbounds'.flashes = fbounds.flashes - 1 /\ fbounds.flashes \in Nat
    BY DEF FwIInv, FwTypes
<1>2. image.v = 2 + fbounds.flashes /\ image.kind \in Fw!ImageKinds /\ image \in Image
    BY <1>1 DEF Fw!Images, Image
<1>3. ASSUME NEW s \in Fw!Slots
      PROVE  /\ slots[s].v # image.v
             /\ slots[s].v <= 1 \/ slots[s].v >= 3 + fbounds'.flashes
    <2>1. slots[s].v \in Nat
        BY DEF FwIInv, FwTypes, Image
    <2>2. slots[s].v <= 1 \/ slots[s].v >= 3 + fbounds.flashes
        BY DEF FwIInv, Distinct
    <2>. QED BY <1>1, <1>2, <2>1, <2>2
<1>4. image.v = 3 + fbounds'.flashes
    BY <1>1, <1>2
<1>. QED BY <1>1, <1>2, <1>3, <1>4

\* The daemon agrees to an update, or refuses it.
LEMMA InstallStep ==
    ASSUME FwIInv, NEW m \in Fw!Moments, NEW image \in Fw!Images, Fw!Install(m, image)
    PROVE  FwIInv'
<1>0. /\ fbounds.flashes > 0 /\ fbounds' = [fbounds EXCEPT !["flashes"] = @ - 1]
      /\ UNCHANGED <<slots, otadata, fwPad, usb, tried, sacrificed>>
      /\ job' = Fw!NoFlash \/ job' = [at |-> "staged", kind |-> "update", image |-> image]
    BY DEF Fw!Install, Fw!CountFw, Fw!Tell
<1>1. /\ image \in Image /\ image.v = 3 + fbounds'.flashes
      /\ fbounds' \in [flashes : Nat, cuts : Nat, kinds : SUBSET Kinds]
      /\ \A s \in Fw!Slots :
            slots[s].v # image.v /\ (slots[s].v <= 1 \/ slots[s].v >= 3 + fbounds'.flashes)
    BY <1>0, FreshIs
<1>2. job'.at \in {"none", "staged"} /\ (job'.at = "staged" => job'.image = image)
    BY <1>0 DEF Fw!NoFlash
<1>3. FwTypes' /\ JobOK'
    BY <1>0, <1>1 DEF FwIInv, FwTypes, JobOK
<1>4. Behind' /\ RunsIt' /\ Safe'
    BY <1>0 DEF FwIInv, Behind, RunsIt, Safe
<1>5. Distinct'
    <2>1. image.v >= 3 + fbounds'.flashes
        BY <1>1
    <2>. QED BY <1>0, <1>1, <1>2, <2>1 DEF Distinct
<1>6. Follows' /\ Entering' /\ Recording' /\ Returned'
    BY <1>2 DEF Follows, Entering, Recording, Returned
<1>. QED BY <1>3, <1>4, <1>5, <1>6 DEF FwIInv

\* A connected pad runs an image that works, and no other is tried.
LEMMA ConnectedIs ==
    ASSUME FwIInv, Fw!Connected
    PROVE  /\ Fw!RunningPartition \in Fw!Slots /\ Steady(otadata, Fw!RunningPartition)
           /\ slots[Fw!RunningPartition].kind \in Fw!Works /\ fwPad.at # "rom"
BY DEF Fw!Connected, Fw!RunningPartition, FwIInv, FwTypes, RunsIt, Steady

\* A flash with its plan made, beside the running slot or without one.
LEMMA PlannedStep ==
    ASSUME FwIInv, UNCHANGED <<slots, otadata, fwPad, usb, tried, sacrificed>>,
           fbounds' \in [flashes : Nat, cuts : Nat, kinds : SUBSET Kinds],
           NEW image \in Image, job' \in Jobs, job'.at = "enter", job'.image = image,
           image.v >= 3 + fbounds'.flashes,
           \A s \in Fw!Slots :
              slots[s].v # image.v /\ (slots[s].v <= 1 \/ slots[s].v >= 3 + fbounds'.flashes),
           \/ Fw!Connected /\ job'.plan = Fw!PlanAppUpdate(image, Fw!RunningPartition)
           \/ job'.plan = Fw!PlanAppUpdate(image, None)
           \/ job'.plan = Fw!FullSet(image)
    PROVE  FwIInv'
<1>1. FwTypes' /\ JobOK' /\ Behind' /\ RunsIt' /\ Safe'
    BY DEF FwIInv, FwTypes, JobOK, Behind, RunsIt, Safe
<1>2. Distinct' /\ Recording' /\ Returned'
    BY DEF Distinct, Recording, Returned
<1>3. CASE job'.plan \in {Fw!PlanAppUpdate(image, None), Fw!FullSet(image)}
    <2>1. job'.plan.target = None
        BY <1>3, BareIs
    <2>2. \A i \in 1..Len(job'.plan.writes) :
              IF job'.plan.writes[i].what = "app"
              THEN job'.plan.writes[i].image \in {Fw!Partial, image}
              ELSE job'.plan.writes[i].entry = None
        BY <1>3, BareIs
    <2>3. Follows' /\ Entering'
        BY <2>1, <2>2 DEF Follows, Entering
    <2>. QED BY <1>1, <1>2, <2>3 DEF FwIInv
<1>4. CASE Fw!Connected /\ job'.plan = Fw!PlanAppUpdate(image, Fw!RunningPartition)
    <2>. DEFINE r == Fw!RunningPartition
                w == Fw!PlanAppUpdate(image, r).writes
    <2>1. /\ r \in Fw!Slots /\ Steady(otadata, r) /\ slots[r].kind \in Fw!Works /\ fwPad.at # "rom"
        BY <1>4, ConnectedIs
    <2>. HIDE DEF r
    <2>2. /\ job'.plan.target = 1 - r /\ job'.plan.writes = w /\ Len(w) = 6
        <3>1. job'.plan = Fw!PlanAppUpdate(image, r)
            BY <1>4 DEF r
        <3>2. Fw!PlanAppUpdate(image, r).target = 1 - r /\ Len(w) = 6
            BY <2>1, ScriptIs
        <3>3. job'.plan.writes = w
            BY <3>1
        <3>. HIDE DEF w
        <3>. QED BY <3>1, <3>2, <3>3
    <2>3. (Old)' = r /\ (Script)' = w /\ (Written)' = 0
        BY <2>1, <2>2 DEF Old, Script, Written, Fw!Slots
    <2>4. job'.plan.target # None
        BY <2>1, <2>2, FwAssumption DEF FwAssumption, Fw!FwConstants, Fw!Slots
    <2>5. ASSUME NEW i \in 1..6
          PROVE  IF w[i].what = "app" THEN w[i].image \in {Fw!Partial, image} ELSE TRUE
        <3>1. \/ i = 1 \/ i = 2 \/ i = 3 \/ i = 4 \/ i = 5 \/ i = 6
            OBVIOUS
        <3>2. /\ w[1].what = "app" /\ w[1].image = Fw!Partial
              /\ w[2].what = "app" /\ w[2].image = image
              /\ w[3].what = "entry" /\ w[4].what = "entry"
              /\ w[5].what = "entry" /\ w[6].what = "entry"
            <4>1. /\ w[1] = [what |-> "app", slot |-> 1 - r, image |-> Fw!Partial]
                  /\ w[2] = [what |-> "app", slot |-> 1 - r, image |-> image]
                  /\ w[3] = [what |-> "entry", n |-> 1, entry |-> None]
                  /\ w[5] = [what |-> "entry", n |-> 2, entry |-> None]
                BY <2>1, ScriptIs
            <4>2. /\ w[4] = [what |-> "entry", n |-> 1, entry |-> [seq |-> r + 1, st |-> "valid"]]
                  /\ w[6] = [what |-> "entry", n |-> 2,
                             entry |-> [seq |-> Fw!NewSeq(r, 1 - r), st |-> "new"]]
                BY <2>1, ScriptIs
            <4>. HIDE DEF w
            <4>. QED BY <4>1, <4>2
        <3>. HIDE DEF w
        <3>. QED BY <3>1, <3>2
    <2>. HIDE DEF w
    <2>6. \A i \in 1..6 : w[i] = w[0 + i]
        OBVIOUS
    <2>7. Follows'
        BY <2>1, <2>2, <2>3, <2>4, <2>5, <2>6 DEF Follows
    <2>8. Entering'
        BY <2>1, <2>3 DEF Entering, Steady
    <2>. QED BY <1>1, <1>2, <2>7, <2>8 DEF FwIInv
<1>. QED BY <1>3, <1>4

\* The daemon hands the port over.
LEMMA ReleaseStep == ASSUME FwIInv, Fw!Release PROVE FwIInv'
<1>0. /\ job.at = "staged" /\ Fw!Connected
      /\ job' = [at |-> "enter", kind |-> "update", image |-> job.image, was |-> Fw!Running.v,
                 plan |-> Fw!PlanAppUpdate(job.image, Fw!RunningPartition)]
      /\ UNCHANGED <<slots, otadata, fwPad, usb, told, fbounds, tried, sacrificed>>
    BY DEF Fw!Release
<1>1. job.image \in Image
    BY <1>0, JobIs DEF FwIInv
<1>2. Fw!RunningPartition \in Fw!Slots
    BY <1>0, ConnectedIs
<1>3. Fw!Running.v \in Nat
    <2>1. fwPad.slot \in Fw!Slots /\ slots[fwPad.slot] \in Image
        BY DEF FwIInv, FwTypes
    <2>. QED BY <2>1 DEF Fw!Running, Image
<1>4. Fw!PlanAppUpdate(job.image, Fw!RunningPartition) \in [target : {None} \cup Fw!Slots, writes : Seq(FwWrites)]
    <2>. DEFINE p == Fw!PlanAppUpdate(job.image, Fw!RunningPartition)
    <2>1. \A r \in Fw!Slots, i \in Image :
              /\ Fw!PlanAppUpdate(i, r).target \in Fw!Slots
              /\ Fw!PlanAppUpdate(i, r).writes \in Seq(FwWrites)
        BY ScriptIs
    <2>2. p = [target |-> p.target, writes |-> p.writes]
        BY <1>2, FwAssumption DEF FwAssumption, Fw!FwConstants, Fw!PlanAppUpdate
    <2>4. p.target \in Fw!Slots /\ p.writes \in Seq(FwWrites)
        BY <1>1, <1>2, <2>1
    <2>. HIDE DEF p
    <2>3. p \in [target : {None} \cup Fw!Slots, writes : Seq(FwWrites)]
        BY <2>2, <2>4
    <2>. QED BY <2>3 DEF p
<1>5. job' \in Jobs
    BY <1>0, <1>1, <1>3, <1>4 DEF Jobs, Kinds
<1>6. job'.at = "enter" /\ job'.image = job.image
      /\ job'.plan = Fw!PlanAppUpdate(job.image, Fw!RunningPartition)
    BY <1>0
<1>7. /\ job.image.v >= 3 + fbounds'.flashes
      /\ \A s \in Fw!Slots :
            slots[s].v # job.image.v /\ (slots[s].v <= 1 \/ slots[s].v >= 3 + fbounds'.flashes)
    BY <1>0 DEF FwIInv, Distinct
<1>8. fbounds' \in [flashes : Nat, cuts : Nat, kinds : SUBSET Kinds]
    BY <1>0 DEF FwIInv, FwTypes
<1>. QED BY <1>0, <1>1, <1>5, <1>6, <1>7, <1>8, PlannedStep

\* opadctl begins.
LEMMA CliFlashStep ==
    ASSUME FwIInv, NEW kind \in {"cli", "bare", "full", "recover"}, NEW image \in Fw!Images,
           Fw!CliFlash(kind, image)
    PROVE  FwIInv'
<1>. DEFINE p == IF kind \in {"full", "recover"} THEN Fw!FullSet(image)
                 ELSE Fw!PlanAppUpdate(image, IF kind = "cli" THEN Fw!RunningPartition ELSE None)
<1>0. /\ fbounds.flashes > 0 /\ fbounds' = [fbounds EXCEPT !["flashes"] = @ - 1]
      /\ job' = [at |-> "enter", kind |-> kind, image |-> image, was |-> 0, plan |-> p]
      /\ UNCHANGED <<slots, otadata, fwPad, usb, tried, sacrificed>>
    BY DEF Fw!CliFlash, Fw!CountFw
<1>1. /\ image \in Image /\ image.v = 3 + fbounds'.flashes
      /\ fbounds' \in [flashes : Nat, cuts : Nat, kinds : SUBSET Kinds]
      /\ \A s \in Fw!Slots :
            slots[s].v # image.v /\ (slots[s].v <= 1 \/ slots[s].v >= 3 + fbounds'.flashes)
    BY <1>0, FreshIs
<1>2. image.v >= 3 + fbounds'.flashes
    BY <1>1
<1>3. \/ Fw!Connected /\ p = Fw!PlanAppUpdate(image, Fw!RunningPartition)
      \/ p \in {Fw!PlanAppUpdate(image, None), Fw!FullSet(image)}
    <2>1. CASE kind \in {"full", "recover"}
        BY <2>1
    <2>2. CASE kind = "bare"
        BY <2>2
    <2>3. CASE kind = "cli"
        <3>1. p = Fw!PlanAppUpdate(image, Fw!RunningPartition)
            BY <2>3
        <3>2. ~Fw!Connected => Fw!RunningPartition = None
            BY DEF Fw!RunningPartition
        <3>. HIDE DEF p
        <3>. QED BY <3>1, <3>2
    <2>. QED BY <2>1, <2>2, <2>3
<1>4. p.target \in {None} \cup Fw!Slots /\ p.writes \in Seq(FwWrites)
    <2>1. CASE Fw!Connected /\ p = Fw!PlanAppUpdate(image, Fw!RunningPartition)
        <3>. DEFINE r == Fw!RunningPartition
        <3>1. r \in Fw!Slots
            BY <2>1, ConnectedIs
        <3>. HIDE DEF r
        <3>2. /\ Fw!PlanAppUpdate(image, r).target = 1 - r /\ 1 - r \in Fw!Slots
              /\ Fw!PlanAppUpdate(image, r).writes \in Seq(FwWrites)
            BY <1>1, <3>1, ScriptIs
        <3>3. p = Fw!PlanAppUpdate(image, r)
            BY <2>1 DEF r
        <3>. HIDE DEF p
        <3>. QED BY <3>2, <3>3
    <2>2. CASE p \in {Fw!PlanAppUpdate(image, None), Fw!FullSet(image)}
        <3>. HIDE DEF p
        <3>. QED BY <1>1, <2>2, BareIs
    <2>. QED BY <1>3, <2>1, <2>2
<1>5. p = [target |-> p.target, writes |-> p.writes]
    BY DEF Fw!PlanAppUpdate, Fw!FullSet
<1>. HIDE DEF p
<1>6. job' \in Jobs /\ job'.at = "enter" /\ job'.image = image /\ job'.plan = p
    <2>1. p \in [target : {None} \cup Fw!Slots, writes : Seq(FwWrites)]
        BY <1>4, <1>5
    <2>. QED BY <1>0, <1>1, <2>1 DEF Jobs, Kinds
<1>. QED BY <1>0, <1>1, <1>2, <1>3, <1>6, PlannedStep

\* The pad restarts into the bootloader.
LEMMA EnterStep == ASSUME FwIInv, Fw!EnterBootloader PROVE FwIInv'
<1>0. /\ job.at = "enter" /\ fwPad' = Fw!Rom /\ usb' = FALSE
      /\ job' = [job EXCEPT !.at = "write"]
      /\ sacrificed' = (sacrificed \/ Fw!NoWayBack)
      /\ UNCHANGED <<slots, otadata, told, fbounds, tried>>
    BY DEF Fw!EnterBootloader
<1>1. job \in Jobs /\ otadata \in Data
    BY <1>0, JobIs DEF FwIInv, FwTypes
<1>2. /\ job' \in Jobs /\ job'.at = "write" /\ job'.image = job.image /\ job'.plan = job.plan
    BY <1>0, <1>1, JobAt
<1>3. /\ fwPad'.at = "rom" /\ fwPad' \in [at : {"off", "rom", "app"}, slot : Fw!Slots]
    BY <1>0 DEF Fw!Rom, Fw!Slots
<1>4. sacrificed' \in BOOLEAN /\ (~sacrificed' => ~sacrificed /\ ~Fw!NoWayBack)
    BY <1>0 DEF FwIInv, FwTypes
<1>5. FwTypes' /\ JobOK'
    BY <1>0, <1>2, <1>3, <1>4 DEF FwIInv, FwTypes, JobOK
<1>6. Behind' /\ RunsIt' /\ Safe'
    BY <1>0, <1>3, <1>4 DEF FwIInv, Behind, RunsIt, Safe, Trial
<1>7. Distinct'
    <2>1. job.plan.target # None => slots[Old].v # job.image.v
        BY <1>0, <1>1, OldIs DEF FwIInv, Distinct
    <2>. QED BY <1>0, <1>2, <2>1 DEF FwIInv, Distinct, Old
<1>8. Follows' /\ Entering' /\ Returned'
    BY <1>0, <1>2 DEF FwIInv, Follows, Entering, Returned, Old, Script, Written
<1>9. Recording'
    <2>1. CASE job.plan.target = None
        BY <1>0, <1>2, <2>1 DEF Recording, Fw!NoWayBack
    <2>2. CASE job.plan.target # None
        <3>1. Written = 0 /\ ~Trial(otadata) /\ Fw!BootSlot(otadata) = Old
            BY <1>0, <2>2 DEF FwIInv, Entering, Steady
        <3>2. Later(otadata) => Fw!SlotOf(otadata[2]) = Old
            BY <1>1, <3>1, BootIs
        <3>3. ~sacrificed' => Later(otadata) \/ Old = 0
            <4>. DEFINE d == [otadata EXCEPT ![1] = None]
            <4>. SUFFICES ASSUME ~sacrificed', ~Later(otadata) PROVE Old = 0
                OBVIOUS
            <4>1. d[1] = None /\ d[2] = otadata[2] /\ d \in Data
                BY <1>1 DEF Data
            <4>2. Fw!BootSlot(d) # job.plan.target
                BY <1>4 DEF Fw!NoWayBack
            <4>. HIDE DEF d
            <4>3. Fw!BootSlot(d) = 0
                BY <4>1, BootIs DEF Later
            <4>4. job.plan.target \in Fw!Slots /\ Old \in Fw!Slots /\ 1 - Old = job.plan.target
                BY <1>1, <2>2, OldIs
            <4>5. job.plan.target # 0
                BY <4>2, <4>3
            <4>. QED BY <4>4, <4>5 DEF Fw!Slots, Old
        <3>4. /\ (Written)' = 0 /\ (Old)' = Old /\ otadata' = otadata
              /\ job'.plan.target # None
            BY <1>0, <1>2, <2>2, <3>1 DEF Written, Old
        <3>5. /\ Trial(otadata)' <=> Trial(otadata)
              /\ Later(otadata)' <=> Later(otadata)
            BY <1>0 DEF Trial, Later
        <3>6. /\ ~Trial(otadata)'
              /\ Later(otadata)' => Fw!SlotOf(otadata'[2]) = (Old)'
              /\ Fw!BootSlot(otadata') = (Old)'
              /\ ~sacrificed' => Later(otadata)' \/ (Old)' = 0
            BY <3>1, <3>2, <3>3, <3>4, <3>5
        <3>7. /\ ~((Written)' >= 2) /\ (Written)' # 3 /\ (Written)' \notin 4..6
              /\ (Written)' # 5 /\ (Written)' # 6
            BY <3>4
        <3>. QED BY <3>4, <3>6, <3>7 DEF Recording
    <2>. QED BY <2>1, <2>2
<1>. QED BY <1>5, <1>6, <1>7, <1>8, <1>9 DEF FwIInv


\* What is left after the first.
LEMMA TailIs ==
    ASSUME NEW S, NEW s \in Seq(S), s # <<>>
    PROVE  /\ Len(s) \in Nat \ {0} /\ s[1] \in S /\ Head(s) = s[1]
           /\ Tail(s) \in Seq(S) /\ Len(Tail(s)) = Len(s) - 1
           /\ \A i \in 1..(Len(s) - 1) : Tail(s)[i] = s[i + 1]
OBVIOUS

\* A write changes a slot or an entry, and is struck from what is left.
LEMMA WriteIs ==
    ASSUME FwIInv, Fw!WriteImages
    PROVE  /\ job \in Jobs /\ job' \in Jobs /\ job.at = "write" /\ job'.at = "write"
           /\ job'.image = job.image /\ job'.plan.target = job.plan.target
           /\ job.plan.writes \in Seq(FwWrites) /\ Len(job.plan.writes) \in Nat \ {0}
           /\ job.plan.writes[1] \in FwWrites
           /\ Len(job'.plan.writes) = Len(job.plan.writes) - 1
           /\ \A i \in 1..Len(job'.plan.writes) :
                  i + 1 \in 1..Len(job.plan.writes)
                  /\ job'.plan.writes[i] = job.plan.writes[i + 1]
           /\ fwPad.at = "rom" /\ usb = FALSE
           /\ UNCHANGED <<fwPad, usb, fbounds, tried, sacrificed>>
           /\ job.plan.writes[1].what = "app" =>
                  /\ slots' = [slots EXCEPT ![job.plan.writes[1].slot] = job.plan.writes[1].image]
                  /\ job.plan.writes[1].slot \in Fw!Slots
                  /\ job.plan.writes[1].image \in Image
                  /\ otadata' = otadata
           /\ job.plan.writes[1].what # "app" =>
                  /\ otadata' = [otadata EXCEPT ![job.plan.writes[1].n] = job.plan.writes[1].entry]
                  /\ \/ job.plan.writes[1].n = 1 /\ job.plan.writes[1].entry \in {None} \cup First
                     \/ job.plan.writes[1].n = 2 /\ job.plan.writes[1].entry \in {None} \cup Second
                  /\ slots' = slots
           /\ FwTypes' /\ JobOK'
<1>. DEFINE ws == job.plan.writes
            w == job.plan.writes[1]
<1>0. /\ job.at = "write" /\ fwPad.at = "rom" /\ ws # <<>>
      /\ IF Head(ws).what = "app"
         THEN slots' = [slots EXCEPT ![Head(ws).slot] = Head(ws).image] /\ UNCHANGED otadata
         ELSE otadata' = [otadata EXCEPT ![Head(ws).n] = Head(ws).entry] /\ UNCHANGED slots
      /\ job' = [job EXCEPT !.plan.writes = Tail(ws)]
      /\ UNCHANGED <<fwPad, usb, told, fbounds, tried, sacrificed>>
    BY DEF Fw!WriteImages
<1>1. job \in Jobs /\ ws \in Seq(FwWrites)
    <2>1. job \in Jobs
        BY <1>0, JobIs DEF FwIInv
    <2>. QED BY <2>1 DEF Jobs
<1>2. /\ Len(ws) \in Nat \ {0} /\ Head(ws) = w /\ w \in FwWrites
      /\ Tail(ws) \in Seq(FwWrites) /\ Len(Tail(ws)) = Len(ws) - 1
      /\ \A i \in 1..(Len(ws) - 1) : Tail(ws)[i] = ws[i + 1]
    <2>1. Head(ws) = w
        OBVIOUS
    <2>. HIDE DEF ws, w
    <2>. QED BY <1>0, <1>1, <2>1, TailIs
<1>3. /\ job' \in Jobs /\ job'.at = "write" /\ job'.image = job.image
      /\ job'.plan.target = job.plan.target /\ job'.plan.writes = Tail(ws)
    BY <1>0, <1>1, <1>2, JobWrites
<1>4. \A i \in 1..(Len(ws) - 1) : i + 1 \in 1..Len(ws)
    BY <1>2
<1>5. w.what = "app" => w.slot \in Fw!Slots /\ w.image \in Image
    <2>. HIDE DEF w
    <2>. QED BY <1>2 DEF FwWrites
<1>6. w.what # "app" => \/ w.n = 1 /\ w.entry \in {None} \cup First
                        \/ w.n = 2 /\ w.entry \in {None} \cup Second
    <2>. HIDE DEF w
    <2>. QED BY <1>2 DEF FwWrites
<1>7. usb = FALSE
    BY <1>0 DEF FwIInv, FwTypes, RunsIt
<1>. HIDE DEF ws, w
<1>8. otadata' \in Data
    <2>1. otadata \in Data
        BY DEF FwIInv, FwTypes
    <2>2. CASE w.what = "app"
        BY <1>0, <1>2, <2>1, <2>2
    <2>3. CASE w.what # "app" /\ w.n = 1 /\ w.entry \in {None} \cup First
        BY <1>0, <1>2, <2>1, <2>3 DEF Data
    <2>4. CASE w.what # "app" /\ w.n = 2 /\ w.entry \in {None} \cup Second
        BY <1>0, <1>2, <2>1, <2>4 DEF Data
    <2>. QED BY <1>6, <2>2, <2>3, <2>4
<1>9. slots' \in [Fw!Slots -> Image]
    <2>1. slots \in [Fw!Slots -> Image]
        BY DEF FwIInv, FwTypes
    <2>. QED BY <1>0, <1>2, <1>5, <2>1
<1>10. FwTypes'
    BY <1>0, <1>8, <1>9 DEF FwIInv, FwTypes
<1>11. JobOK'
    BY <1>3 DEF JobOK
<1>12. w.what = "app" => /\ slots' = [slots EXCEPT ![w.slot] = w.image]
                         /\ otadata' = otadata
    BY <1>0, <1>2
<1>13. w.what # "app" => otadata' = [otadata EXCEPT ![w.n] = w.entry] /\ slots' = slots
    BY <1>0, <1>2
<1>. QED BY <1>0, <1>1, <1>2, <1>3, <1>4, <1>5, <1>6, <1>7, <1>10, <1>11, <1>12, <1>13 DEF ws, w

\* A flash without a fallback writes its app, or erases an entry.
LEMMA WriteBareStep ==
    ASSUME FwIInv, Fw!WriteImages, job.plan.target = None
    PROVE  FwIInv'
<1>. DEFINE w == job.plan.writes[1]
<1>1. sacrificed /\ sacrificed' = sacrificed
    BY WriteIs DEF FwIInv, Recording
<1>2. IF w.what = "app" THEN w.image \in {Fw!Partial, job.image} ELSE w.entry = None
    <2>1. 1 \in 1..Len(job.plan.writes)
        BY WriteIs
    <2>. QED BY <2>1, WriteIs DEF FwIInv, Follows
<1>3. Behind'
    <2>1. otadata \in Data /\ Behind
        BY DEF FwIInv, FwTypes
    <2>2. CASE w.what = "app"
        BY <2>1, <2>2, WriteIs DEF Behind, Trial
    <2>3. CASE w.what # "app"
        <3>1. otadata' = [otadata EXCEPT ![w.n] = None] /\ w.n \in 1..2
            BY <1>2, <2>3, WriteIs
        <3>2. otadata'[1] = None \/ otadata'[2] = None
            BY <2>1, <3>1 DEF Data
        <3>. QED BY <3>2 DEF Behind, Trial
    <2>. QED BY <2>2, <2>3
<1>4. RunsIt'
    BY WriteIs DEF RunsIt
<1>5. Safe'
    BY <1>1 DEF Safe
<1>6. Distinct'
    <2>1. slots \in [Fw!Slots -> Image] /\ job.image.v >= 3 + fbounds.flashes
        BY WriteIs DEF FwIInv, FwTypes, Distinct
    <2>2. ASSUME NEW s \in Fw!Slots PROVE slots'[s].v <= 1 \/ slots'[s].v >= 3 + fbounds.flashes
        <3>1. slots'[s] = slots[s] \/ slots'[s] \in {Fw!Partial, job.image}
            BY <1>2, <2>1, WriteIs
        <3>2. slots[s].v <= 1 \/ slots[s].v >= 3 + fbounds.flashes
            BY DEF FwIInv, Distinct
        <3>. QED BY <2>1, <3>1, <3>2 DEF Fw!Partial
    <2>. QED BY <2>1, <2>2, WriteIs DEF Distinct
<1>7. Follows'
    <2>1. \A i \in 1..Len(job.plan.writes) :
              IF job.plan.writes[i].what = "app"
              THEN job.plan.writes[i].image \in {Fw!Partial, job.image}
              ELSE job.plan.writes[i].entry = None
        BY WriteIs DEF FwIInv, Follows
    <2>2. \A i \in 1..Len(job'.plan.writes) :
              IF job'.plan.writes[i].what = "app"
              THEN job'.plan.writes[i].image \in {Fw!Partial, job.image}
              ELSE job'.plan.writes[i].entry = None
        BY <2>1, WriteIs
    <2>. QED BY <2>2, WriteIs DEF Follows
<1>8. Entering' /\ Returned'
    BY WriteIs DEF Entering, Returned
<1>9. Recording'
    BY <1>1, WriteIs DEF Recording
<1>. QED BY <1>3, <1>4, <1>5, <1>6, <1>7, <1>8, <1>9, WriteIs DEF FwIInv

\* A flash beside the running slot: at each write, an image that works is booted
\* or waits behind the one on trial.
LEMMA WriteBesideStep ==
    ASSUME FwIInv, Fw!WriteImages, job.plan.target # None
    PROVE  FwIInv'
<1>. DEFINE w == job.plan.writes[1]
            t == job.plan.target
<1>1. /\ job \in Jobs /\ otadata \in Data /\ otadata' \in Data
      /\ slots \in [Fw!Slots -> Image] /\ slots[Old].kind \in Fw!Works
    BY WriteIs DEF FwIInv, FwTypes, Follows
<1>2. /\ t \in Fw!Slots /\ Old \in Fw!Slots /\ 1 - Old = t /\ Old # t /\ job.image \in Image
      /\ OldEntry.seq = Old + 1 /\ OldEntry.st = "valid" /\ OldEntry # None
      /\ OldEntry \in First
      /\ NewEntry("new").seq = Old + 2 /\ NewEntry("new").st = "new" /\ NewEntry("new") # None
    BY <1>1, OldIs DEF Fw!States
<1>3. (Old)' = Old /\ (OldEntry)' = OldEntry /\ (Script)' = Script
      /\ (Written)' = Written + 1 /\ Written \in 0..5 /\ Len(job'.plan.writes) <= 6
      /\ (NewEntry("new"))' = NewEntry("new")
    <2>. DEFINE n == Len(job.plan.writes)
                m == Len(job'.plan.writes)
    <2>1. n \in Nat \ {0} /\ m = n - 1
        BY WriteIs
    <2>2. n <= 6
        BY WriteIs DEF FwIInv, Follows
    <2>3. Written = 6 - n /\ (Written)' = 6 - m
        BY DEF Written
    <2>. HIDE DEF n, m
    <2>4. (Written)' = Written + 1 /\ Written \in 0..5 /\ m <= 6
        BY <2>1, <2>2, <2>3
    <2>5. (Old)' = Old
        BY WriteIs DEF Old
    <2>. QED BY <2>4, <2>5, WriteIs DEF OldEntry, Script, NewEntry, m
<1>4. /\ w = Script[Written + 1]
      /\ \A i \in 1..Len(job'.plan.writes) : job'.plan.writes[i] = Script[Written + 1 + i]
    <2>1. \A i \in 1..Len(job.plan.writes) : job.plan.writes[i] = Script[Written + i]
        BY WriteIs DEF FwIInv, Follows
    <2>2. 1 \in 1..Len(job.plan.writes)
        BY WriteIs
    <2>3. \A i \in 1..Len(job'.plan.writes) :
              job'.plan.writes[i] = Script[Written + (i + 1)] /\ i \in Int
        BY <2>1, WriteIs
    <2>4. \A i \in Int : Written + (i + 1) = Written + 1 + i
        BY <1>3
    <2>. QED BY <2>1, <2>2, <2>3, <2>4
<1>5. /\ Script[1] = [what |-> "app", slot |-> t, image |-> Fw!Partial]
      /\ Script[2] = [what |-> "app", slot |-> t, image |-> job.image]
      /\ Script[3] = [what |-> "entry", n |-> 1, entry |-> None]
      /\ Script[4] = [what |-> "entry", n |-> 1, entry |-> OldEntry]
      /\ Script[5] = [what |-> "entry", n |-> 2, entry |-> None]
      /\ Script[6] = [what |-> "entry", n |-> 2, entry |-> NewEntry("new")]
    BY <1>2, ScriptIs DEF Script, OldEntry, NewEntry
<1>6. Fw!SlotOf(OldEntry) = Old
    BY <1>2 DEF Fw!SlotOf, Fw!Slots
\* What Recording says before the write
<1>7. /\ Written >= 2 => slots[t] = job.image
      /\ Written \in 0..4 => ~Trial(otadata) /\ (Later(otadata) => Fw!SlotOf(otadata[2]) = Old)
      /\ Written \in 0..2 => Fw!BootSlot(otadata) = Old
      /\ Written \in 0..3 /\ ~sacrificed => Later(otadata) \/ Old = 0
      /\ Written = 3 => otadata[1] = None
      /\ Written \in 4..6 => otadata[1] = OldEntry
      /\ Written = 5 => otadata[2] = None
    BY WriteIs DEF FwIInv, Recording
\* The slot that holds the old image is not written
<1>8. /\ slots'[Old] = slots[Old]
      /\ Written + 1 >= 2 => slots'[t] = job.image
      /\ Written <= 1 => otadata' = otadata
      /\ Written \in 2..5 => otadata' = [otadata EXCEPT ![w.n] = w.entry]
      /\ slots'[t] \in {slots[t], Fw!Partial, job.image}
    <2>1. CASE Written = 0
        <3>1. w = [what |-> "app", slot |-> t, image |-> Fw!Partial]
            BY <1>4, <1>5, <2>1
        <3>2. w.what = "app" /\ w.slot = t /\ w.image = Fw!Partial
            BY <3>1
        <3>3. slots' = [slots EXCEPT ![t] = Fw!Partial] /\ otadata' = otadata
            BY <3>2, WriteIs
        <3>. QED BY <1>1, <1>2, <2>1, <3>3
    <2>2. CASE Written = 1
        <3>1. w = [what |-> "app", slot |-> t, image |-> job.image]
            BY <1>4, <1>5, <2>2
        <3>2. w.what = "app" /\ w.slot = t /\ w.image = job.image
            BY <3>1
        <3>3. slots' = [slots EXCEPT ![t] = job.image] /\ otadata' = otadata
            BY <3>2, WriteIs
        <3>. QED BY <1>1, <1>2, <2>2, <3>3
    <2>3. CASE Written \in 2..5
        <3>0. Written + 1 \in {3, 4, 5, 6}
            BY <2>3
        <3>1. w \in {Script[3], Script[4], Script[5], Script[6]}
            BY <1>4, <3>0
        <3>2. w.what # "app"
            BY <1>5, <3>1
        <3>3. slots' = slots /\ otadata' = [otadata EXCEPT ![w.n] = w.entry]
            BY <3>2, WriteIs
        <3>4. Written >= 2 /\ ~(Written <= 1)
            BY <2>3
        <3>. QED BY <1>7, <3>3, <3>4
    <2>. QED BY <1>3, <2>1, <2>2, <2>3
<1>9. Distinct'
    <2>1. job.image.v >= 3 + fbounds.flashes /\ slots[Old].v # job.image.v
        BY WriteIs DEF FwIInv, Distinct
    <2>2. ASSUME NEW s \in Fw!Slots PROVE slots'[s].v <= 1 \/ slots'[s].v >= 3 + fbounds.flashes
        <3>1. s = t \/ s = Old
            BY <1>2 DEF Fw!Slots
        <3>2. slots'[s] = slots[s] \/ slots'[s] \in {Fw!Partial, job.image}
            BY <1>8, <3>1
        <3>3. slots[s].v <= 1 \/ slots[s].v >= 3 + fbounds.flashes
            BY DEF FwIInv, Distinct
        <3>. QED BY <2>1, <3>2, <3>3 DEF Fw!Partial
    <2>3. slots'[(Old)'].v # job'.image.v
        BY <1>3, <1>8, <2>1, WriteIs
    <2>. QED BY <2>1, <2>2, <2>3, WriteIs DEF Distinct
<1>10. Follows'
    <2>1. \A i \in 1..Len(job.plan.writes) :
              job.plan.writes[i].what = "app" => job.plan.writes[i].image \in {Fw!Partial, job.image}
        BY WriteIs DEF FwIInv, Follows
    <2>2. \A i \in 1..Len(job'.plan.writes) :
              job'.plan.writes[i].what = "app" =>
                  job'.plan.writes[i].image \in {Fw!Partial, job'.image}
        BY <2>1, WriteIs
    <2>3. \A i \in 1..Len(job'.plan.writes) : job'.plan.writes[i] = (Script)'[(Written)' + i]
        BY <1>3, <1>4
    <2>4. slots'[(Old)'].kind \in Fw!Works
        BY <1>1, <1>3, <1>8
    <2>. QED BY <1>3, <2>2, <2>3, <2>4, WriteIs DEF Follows
<1>11. Entering' /\ Returned' /\ RunsIt'
    BY WriteIs DEF Entering, Returned, RunsIt
<1>12. sacrificed' = sacrificed /\ job'.plan.target = t /\ job'.image = job.image
    BY WriteIs
\* Once it is shown what the entries say, the rest follows
<1>13. ASSUME
           Written + 1 \in 0..4 => ~Trial(otadata') /\ (Later(otadata') => Fw!SlotOf(otadata'[2]) = Old),
           Written + 1 \in 0..2 => Fw!BootSlot(otadata') = Old,
           Written + 1 \in 0..3 /\ ~sacrificed => Later(otadata') \/ Old = 0,
           Written + 1 = 3 => otadata'[1] = None,
           Written + 1 \in 4..6 => otadata'[1] = OldEntry,
           Written + 1 = 5 => otadata'[2] = None,
           Written + 1 = 6 => otadata'[2] = NewEntry("new"),
           Behind',
           ~sacrificed => IF Trial(otadata')
                          THEN otadata'[1] # None /\ Fw!SlotOf(otadata'[1]) = Old
                          ELSE Fw!BootSlot(otadata') = Old
       PROVE  FwIInv'
    <2>1. Recording'
        BY <1>3, <1>8, <1>12, <1>13 DEF Recording, Trial, Later
    <2>2. Safe'
        BY <1>1, <1>8, <1>12, <1>13 DEF Safe, Trial
    <2>. QED BY <1>9, <1>10, <1>11, <1>13, <2>1, <2>2, WriteIs DEF FwIInv
<1>. HIDE DEF w, t
<1>14. CASE Written \in 0..1
    <2>1. otadata' = otadata /\ Written + 1 \in 1..2
        BY <1>8, <1>14
    <2>2. Written \in 0..4 /\ Written \in 0..2 /\ Written \in 0..3
        BY <1>14
    <2>3. ~Trial(otadata') /\ (Later(otadata') => Fw!SlotOf(otadata'[2]) = Old)
          /\ Fw!BootSlot(otadata') = Old
          /\ (~sacrificed => Later(otadata') \/ Old = 0)
        BY <1>7, <2>1, <2>2
    <2>4. Behind'
        BY <2>3 DEF Behind, Trial
    <2>5. Written + 1 # 3 /\ Written + 1 \notin 4..6 /\ Written + 1 # 5 /\ Written + 1 # 6
        BY <1>14
    <2>. QED BY <1>13, <2>3, <2>4, <2>5
<1>15. CASE Written = 2
    <2>1. w = [what |-> "entry", n |-> 1, entry |-> None]
        BY <1>4, <1>5, <1>15
    <2>2. otadata' = [otadata EXCEPT ![1] = None]
        BY <1>8, <1>15, <2>1
    <2>3. otadata'[1] = None /\ otadata'[2] = otadata[2]
        BY <1>1, <2>2 DEF Data
    <2>4. ~Trial(otadata') /\ (Later(otadata') => Fw!SlotOf(otadata'[2]) = Old)
          /\ (~sacrificed => Later(otadata') \/ Old = 0)
        BY <1>7, <1>15, <2>3 DEF Trial, Later
    <2>5. ~sacrificed => Fw!BootSlot(otadata') = Old
        BY <1>1, <2>3, <2>4, BootIs
    <2>6. Behind'
        BY <2>4 DEF Behind, Trial
    <2>. QED BY <1>13, <1>15, <2>3, <2>4, <2>5, <2>6
<1>16. CASE Written = 3
    <2>1. w = [what |-> "entry", n |-> 1, entry |-> OldEntry]
        BY <1>4, <1>5, <1>16
    <2>2. otadata' = [otadata EXCEPT ![1] = OldEntry]
        BY <1>8, <1>16, <2>1
    <2>3. otadata'[1] = OldEntry /\ otadata'[2] = otadata[2]
        BY <1>1, <2>2 DEF Data
    <2>4. ~Trial(otadata') /\ (Later(otadata') => Fw!SlotOf(otadata'[2]) = Old)
        BY <1>7, <1>16, <2>3 DEF Trial, Later
    <2>5. Fw!BootSlot(otadata') = Old
        BY <1>1, <1>2, <1>6, <2>3, <2>4, BootIs
    <2>6. Behind'
        BY <2>4 DEF Behind, Trial
    <2>. QED BY <1>13, <1>16, <2>3, <2>4, <2>5, <2>6
<1>17. CASE Written = 4
    <2>1. w = [what |-> "entry", n |-> 2, entry |-> None]
        BY <1>4, <1>5, <1>17
    <2>2. otadata' = [otadata EXCEPT ![2] = None]
        BY <1>8, <1>17, <2>1
    <2>3. otadata'[1] = OldEntry /\ otadata'[2] = None
        BY <1>1, <1>7, <1>17, <2>2 DEF Data
    <2>4. ~Trial(otadata') /\ ~Later(otadata')
        BY <2>3 DEF Trial, Later
    <2>5. Fw!BootSlot(otadata') = Old
        BY <1>1, <1>2, <1>6, <2>3, <2>4, BootIs
    <2>6. Behind'
        BY <2>4 DEF Behind, Trial
    <2>. QED BY <1>13, <1>17, <2>3, <2>4, <2>5, <2>6
<1>18. CASE Written = 5
    <2>1. w = [what |-> "entry", n |-> 2, entry |-> NewEntry("new")]
        BY <1>4, <1>5, <1>18
    <2>2. otadata' = [otadata EXCEPT ![2] = NewEntry("new")]
        BY <1>8, <1>18, <2>1
    <2>3. otadata'[1] = OldEntry /\ otadata'[2] = NewEntry("new")
        BY <1>1, <1>7, <1>18, <2>2 DEF Data
    <2>4. Trial(otadata')
        BY <1>2, <2>3 DEF Trial
    <2>5. otadata'[1] # None /\ Fw!SlotOf(otadata'[1]) = Old
        BY <1>2, <1>6, <2>3
    <2>6. Behind'
        BY <1>2, <2>3 DEF Behind, Fw!Slots
    <2>. QED BY <1>13, <1>18, <2>3, <2>4, <2>5, <2>6
<1>. QED BY <1>3, <1>14, <1>15, <1>16, <1>17, <1>18


\* A new pad runs one image that works, and nothing is written yet.
LEMMA FwInitial == ASSUME Fw!FwInit PROVE FwIInv
<1>1. PICK s \in Fw!Slots :
          /\ slots = [n \in Fw!Slots |-> IF n = s THEN [v |-> 1, kind |-> "good"] ELSE Fw!Partial]
          /\ otadata = [n \in 1..2 |-> IF s = 1 /\ n = 2 THEN [seq |-> 2, st |-> "valid"]
                                       ELSE None]
          /\ fwPad = [at |-> "app", slot |-> s]
    BY DEF Fw!FwInit
<1>2. usb = TRUE /\ job = Fw!NoFlash /\ fbounds \in FwBudgets /\ tried = {} /\ sacrificed = FALSE
    BY DEF Fw!FwInit
<1>3. [v |-> 1, kind |-> "good"] \in Image /\ Fw!Partial \in Image /\ Fw!Partial.v = 0
    BY DEF Image, Fw!Partial, Fw!ImageKinds, Fw!Works
<1>4. [seq |-> 2, st |-> "valid"] \in Second
    BY DEF Second, Fw!States
<1>5. otadata \in Data /\ otadata[1] = None
    BY <1>1, <1>4 DEF Data
<1>6. fbounds \in [flashes : Nat, cuts : Nat, kinds : SUBSET Kinds]
    BY <1>2, FwAssumption DEF FwAssumption, Fw!FwConstants, Kinds
<1>7. FwTypes /\ JobOK
    BY <1>1, <1>2, <1>3, <1>5, <1>6 DEF FwTypes, JobOK
<1>8. /\ s = 1 => otadata[2] = [seq |-> 2, st |-> "valid"]
      /\ s = 0 => otadata[2] = None
    BY <1>1
<1>9. ~Trial(otadata) /\ Fw!BootSlot(otadata) = s
    <2>1. CASE s = 1
        <3>1. otadata[2] # None /\ otadata[2].st = "valid" /\ otadata[2].seq = 2
            BY <1>4, <1>8, <2>1, FwAssumption DEF FwAssumption, Fw!FwConstants, Second
        <3>2. Fw!SlotOf(otadata[2]) = 1
            BY <3>1 DEF Fw!SlotOf
        <3>. QED BY <1>5, <2>1, <3>1, <3>2, BootIs DEF Trial, Later
    <2>2. CASE s = 0
        BY <1>5, <1>8, <2>2, BootIs DEF Trial, Later
    <2>. QED BY <2>1, <2>2 DEF Fw!Slots
<1>10. slots[s].kind \in Fw!Works /\ \A n \in Fw!Slots : slots[n].v <= 1
    BY <1>1, <1>3 DEF Fw!Works
<1>11. Behind /\ RunsIt /\ Safe
    BY <1>1, <1>8, <1>9, <1>10 DEF Behind, RunsIt, Safe, Trial, Fw!Slots
<1>12. job.at = "none"
    BY <1>2 DEF Fw!NoFlash
<1>13. Distinct
    BY <1>10, <1>12 DEF Distinct
<1>14. Follows /\ Entering /\ Recording /\ Returned
    BY <1>12 DEF Follows, Entering, Recording, Returned
<1>. QED BY <1>7, <1>11, <1>13, <1>14 DEF FwIInv

\* Whatever happens to the pad and to the flash.
LEMMA FwStep == FwIInv /\ [Fw!FwNext]_fvars => FwIInv'
<1>. SUFFICES ASSUME FwIInv, [Fw!FwNext]_fvars PROVE FwIInv'
    OBVIOUS
<1>1. CASE Fw!UsbUp
    BY <1>1, UsbUpStep
<1>2. CASE Fw!GivesUp
    BY <1>2, RebootStep DEF Fw!GivesUp
<1>3. CASE Fw!Unplugged
    BY <1>3, UnpluggedStep
<1>4. CASE Fw!Replugged
    BY <1>4, RebootStep DEF Fw!Replugged
<1>5. ASSUME NEW m \in Fw!Moments, NEW image \in Fw!Images, Fw!Install(m, image) PROVE FwIInv'
    BY <1>5, InstallStep
<1>6. CASE Fw!Abandon \/ Fw!FlashFails \/ Fw!Verify \/ Fw!NoReconnect
    BY <1>6, EndsStep DEF Fw!Abandon, Fw!FlashFails, Fw!Verify, Fw!NoReconnect, Fw!Tell
<1>7. CASE Fw!Release
    BY <1>7, ReleaseStep
<1>8. ASSUME NEW kind \in {"cli", "bare", "full", "recover"}, NEW image \in Fw!Images,
             Fw!CliFlash(kind, image)
      PROVE  FwIInv'
    BY <1>8, CliFlashStep
<1>9. CASE Fw!EnterBootloader
    BY <1>9, EnterStep
<1>10. CASE Fw!WriteImages
    BY <1>10, WriteBareStep, WriteBesideStep
<1>11. CASE Fw!ResetToApp
    BY <1>11, ResetStep
<1>12. CASE UNCHANGED fvars
    BY <1>12 DEF fvars, FwIInv, FwTypes, JobOK, Behind, RunsIt, Safe, Distinct, Follows,
       Entering, Recording, Returned, Old, OldEntry, NewEntry, Script, Written
<1>. QED
    BY <1>1, <1>2, <1>3, <1>4, <1>5, <1>6, <1>7, <1>8, <1>9, <1>10, <1>11, <1>12 DEF Fw!FwNext

\* The ranges say what the type invariant says.
LEMMA FwTyped == FwIInv => Fw!FwTypeOK
<1>. SUFFICES ASSUME FwIInv PROVE Fw!FwTypeOK
    OBVIOUS
<1>1. \A s \in Fw!Slots : slots[s].kind \in Fw!ImageKinds \cup {"partial"}
    BY DEF FwIInv, FwTypes, Image
<1>2. ASSUME NEW n \in 1..2
      PROVE  otadata[n] = None \/ otadata[n] \in [seq : 1..3, st : Fw!States]
    <2>1. otadata[n] \in {None} \cup First \cup Second
        BY DEF FwIInv, FwTypes, Data
    <2>. QED BY <2>1 DEF First, Second, Fw!States
<1>3. job.at \in {"none", "staged", "enter", "write", "back"}
    BY JobIs DEF FwIInv
<1>. QED BY <1>1, <1>2, <1>3 DEF Fw!FwTypeOK, FwIInv, FwTypes

\* An entry on trial is what the next boot tries, and the one behind it what
\* the boot after that takes.
LEMMA SafeIs == FwIInv => (~sacrificed => Fw!GetsBackUp(Fw!Judged(otadata)))
<1>. SUFFICES ASSUME FwIInv, ~sacrificed PROVE Fw!GetsBackUp(Fw!Judged(otadata))
    OBVIOUS
<1>. DEFINE d == Fw!Judged(otadata)
<1>1. otadata \in Data
    BY DEF FwIInv, FwTypes
<1>2. /\ d \in Data /\ d[1] = otadata[1]
      /\ otadata[2] # None /\ otadata[2].st = "pending" =>
             d[2] = [seq |-> otadata[2].seq, st |-> "aborted"]
      /\ otadata[2] = None \/ otadata[2].st # "pending" => d[2] = otadata[2]
    BY <1>1, JudgedIs
<1>. HIDE DEF d
<1>3. CASE ~Trial(otadata)
    <2>1. d[2] = otadata[2]
        BY <1>2, <1>3 DEF Trial
    <2>2. Fw!BootSlot(d) = Fw!BootSlot(otadata)
        BY <1>1, <1>2, <2>1, BootIs DEF Later
    <2>. QED BY <1>3, <2>2 DEF FwIInv, Safe, Fw!GetsBackUp, d
<1>4. CASE Trial(otadata)
    <2>1. otadata[1] # None /\ slots[Fw!SlotOf(otadata[1])].kind \in Fw!Works
        BY <1>4 DEF FwIInv, Safe
    <2>2. otadata[2] # None /\ otadata[2] \in Second /\ otadata[2].seq \in 2..3
        BY <1>1, <1>4, EntryIs DEF Trial
    <2>3. CASE otadata[2].st = "pending"
        <3>1. d[2] = [seq |-> otadata[2].seq, st |-> "aborted"]
            BY <1>2, <2>2, <2>3
        <3>2. ~Later(d)
            BY <3>1 DEF Later
        <3>3. Fw!BootSlot(d) = Fw!SlotOf(otadata[1])
            BY <1>2, <2>1, <3>2, BootIs
        <3>. QED BY <2>1, <3>3 DEF Fw!GetsBackUp, d
    <2>4. CASE otadata[2].st = "new"
        <3>1. d[2] = otadata[2]
            BY <1>2, <2>4
        <3>2. d[1].seq < d[2].seq
            <4>1. d[1].seq = d[2].seq - 1
                BY <1>2, <1>4, <2>1, <3>1 DEF FwIInv, Behind
            <4>. QED BY <2>2, <3>1, <4>1
        <3>3. 2 \in Fw!Selectable(d) /\ Fw!Chosen(d) = 2
            BY <1>2, <2>2, <2>4, <3>1, <3>2, BootIs DEF Later
        <3>. DEFINE a == [d EXCEPT ![Fw!Chosen(d)].st = "aborted"]
        <3>4. a = [d EXCEPT ![2] = [seq |-> otadata[2].seq, st |-> "aborted"]]
            <4>1. [d[2] EXCEPT !.st = "aborted"] = [seq |-> otadata[2].seq, st |-> "aborted"]
                BY <2>2, <3>1 DEF Second
            <4>2. a = [d EXCEPT ![2] = [d[2] EXCEPT !.st = "aborted"]]
                BY <3>3
            <4>. HIDE DEF a
            <4>. QED BY <4>1, <4>2
        <3>. HIDE DEF a
        <3>5. [seq |-> otadata[2].seq, st |-> "aborted"] \in Second
            BY <2>2 DEF Second, Fw!States
        <3>6. a \in Data /\ a[1] = d[1] /\ a[2].st = "aborted"
            BY <1>2, <3>4, <3>5 DEF Data
        <3>7. Fw!BootSlot(a) = Fw!SlotOf(otadata[1])
            BY <1>2, <2>1, <3>6, BootIs DEF Later
        <3>. QED BY <2>1, <2>4, <3>1, <3>3, <3>7 DEF Fw!GetsBackUp, d, a
    <2>. QED BY <1>4, <2>3, <2>4 DEF Trial
<1>. QED BY <1>3, <1>4

\* "Installed" and "rolled back" are said of the slot that runs.
LEMMA VerdictIs == FwIInv /\ Fw!FwNext => Fw!VerdictIsTrue
<1>. SUFFICES ASSUME FwIInv, Fw!FwNext, told # told' PROVE
         /\ told' = "installed" /\ job.plan.target # None => Fw!Running = job.image
         /\ told' = "rolled back" => job.image \in tried /\ Fw!Running # job.image
    BY DEF Fw!VerdictIsTrue
<1>1. CASE Fw!Verify
    <2>1. job.at = "back" /\ fwPad.at = "app" /\ told' = Fw!Verdict
        BY <1>1 DEF Fw!Verify, Fw!Connected, Fw!Tell
    <2>2. job \in Jobs
        BY <2>1, JobIs DEF FwIInv
    <2>3. CASE job.plan.target = None
        BY <2>1, <2>3 DEF Fw!Verdict
    <2>4. CASE job.plan.target # None
        <3>1. slots[job.plan.target] = job.image /\ job.image \in tried
              /\ slots[Old].v # job.image.v
            BY <2>1, <2>4 DEF FwIInv, Returned, Distinct
        <3>2. fwPad.slot \in Fw!Slots /\ Old \in Fw!Slots /\ job.plan.target \in Fw!Slots
              /\ 1 - Old = job.plan.target
            BY <2>2, <2>4, OldIs DEF FwIInv, FwTypes
        <3>3. CASE fwPad.slot = job.plan.target
            <4>1. told' # "rolled back" /\ Fw!Running = job.image
                BY <2>1, <3>1, <3>3 DEF Fw!Verdict, Fw!Running
            <4>. QED BY <4>1
        <3>4. CASE fwPad.slot # job.plan.target
            <4>1. fwPad.slot = Old
                BY <3>2, <3>4 DEF Fw!Slots
            <4>2. told' = "rolled back" /\ Fw!Running # job.image
                BY <2>1, <2>4, <3>1, <3>4, <4>1 DEF Fw!Verdict, Fw!Running
            <4>. QED BY <3>1, <4>2
        <3>. QED BY <3>3, <3>4
    <2>. QED BY <2>3, <2>4
<1>2. CASE Fw!Abandon \/ Fw!FlashFails \/ Fw!NoReconnect
    BY <1>2 DEF Fw!Abandon, Fw!FlashFails, Fw!NoReconnect, Fw!Tell
<1>3. CASE \E m \in Fw!Moments, image \in Fw!Images : Fw!Install(m, image)
    BY <1>3 DEF Fw!Install, Fw!Tell
<1>4. CASE \E kind \in {"cli", "bare", "full", "recover"}, image \in Fw!Images :
               Fw!CliFlash(kind, image)
    BY <1>4 DEF Fw!CliFlash
<1>5. CASE Fw!UsbUp \/ Fw!GivesUp \/ Fw!Unplugged \/ Fw!Replugged \/ Fw!Release \/ Fw!EnterBootloader
             \/ Fw!WriteImages \/ Fw!ResetToApp
    BY <1>5 DEF Fw!UsbUp, Fw!GivesUp, Fw!Unplugged, Fw!Replugged, Fw!Release, Fw!EnterBootloader, Fw!WriteImages,
       Fw!ResetToApp
<1>. QED BY <1>1, <1>2, <1>3, <1>4, <1>5 DEF Fw!FwNext
-----------------------------------------------------------------------------
(* The link *)

\* Where the worker is, its handshake, the flags it shares, and the queues.
LinkAt ==
    /\ at \in {"top", "opening", "loop", "drain", "read", "reopen", "close"}
    /\ held \in BOOLEAN /\ rx \in {"none", "ack", "half", "gone"}
Hellos == [answered : BOOLEAN, framing : {None, Marked, Legacy},
           unanswered : 0..HellosBeforeReopen, due : BOOLEAN]
LinkHello == hello \in Hellos
LinkFlags == dm \in [connected : BOOLEAN, paused : BOOLEAN, open : BOOLEAN,
                     rehello : BOOLEAN, lost : BOOLEAN]
LinkOpen == dm.open <=> at \in {"loop", "drain", "read", "reopen", "close"}
LinkCmds == cmds \in Seq(Nat) /\ Len(cmds) <= QueueMax
LinkQueue == [list : Seq({"connected", "disconnected", "status"}), lagged : BOOLEAN]
LinkEvents == events \in LinkQueue /\ Len(events.list) <= EventMax
LinkActor == /\ actor \in [q : Seq(Nat), doing : Nat \cup {None}]
             /\ Len(actor.q) <= ActorMax
LinkDaemon == daemon \in [dev : BOOLEAN, latest : Nat, sent : Nat \cup {None}, resend : BOOLEAN]
LinkPad == pad \in [plugged : BOOLEAN, framing : {Marked, Legacy},
                    ails : {"no", "stuck", "hung"}, shows : Nat \cup {None}]
LinkFlashers == linkFlash \in [Flashers -> {"no", "waiting", "holding"}]

LinkIInv == /\ LinkAt /\ LinkHello /\ LinkFlags /\ LinkOpen /\ LinkCmds
            /\ LinkEvents /\ LinkActor /\ LinkDaemon /\ LinkPad /\ LinkFlashers

\* What is assumed of the sizes.
LEMMA ConstantsAre ==
    /\ HellosBeforeReopen \in Nat /\ QueueMax \in Nat /\ EventMax \in Nat \ {0} /\ ActorMax \in Nat
BY LinkAssumption DEF LinkAssumption, Link!LinkConstants

\* An event more, or the oldest gone for it.
LEMMA EmitIs ==
    ASSUME NEW q \in LinkQueue, Len(q.list) <= EventMax,
           NEW ev \in {"connected", "disconnected", "status"}
    PROVE  Link!Emit(q, ev) \in LinkQueue /\ Len(Link!Emit(q, ev).list) <= EventMax
BY ConstantsAre DEF LinkQueue, Link!Emit

\* The handshake of a port just opened.
LEMMA FreshHello == Link!Fresh \in Hellos
<1>1. 0 \in 0..HellosBeforeReopen
    BY ConstantsAre
<1>. QED BY <1>1 DEF Link!Fresh, Hellos

\* A handshake stays one under the changes the worker makes.
LEMMA HelloIs ==
    ASSUME NEW h \in Hellos
    PROVE  /\ [h EXCEPT !.answered = FALSE, !.due = TRUE] \in Hellos
           /\ [h EXCEPT !.due = TRUE] \in Hellos
           /\ h.unanswered < HellosBeforeReopen =>
                  [h EXCEPT !.due = FALSE, !.unanswered = @ + 1] \in Hellos
           /\ \A f \in {Marked, Legacy} :
                  [h EXCEPT !.answered = TRUE, !.unanswered = 0,
                            !.framing = IF @ = None THEN f ELSE @] \in Hellos
<1>1. /\ [h EXCEPT !.answered = FALSE, !.due = TRUE] \in Hellos
      /\ [h EXCEPT !.due = TRUE] \in Hellos
    BY DEF Hellos
<1>2. ASSUME h.unanswered < HellosBeforeReopen
      PROVE  [h EXCEPT !.due = FALSE, !.unanswered = @ + 1] \in Hellos
    <2>1. h.unanswered + 1 \in 0..HellosBeforeReopen
        BY <1>2, ConstantsAre DEF Hellos
    <2>. QED BY <2>1 DEF Hellos
<1>3. ASSUME NEW f \in {Marked, Legacy}
      PROVE  [h EXCEPT !.answered = TRUE, !.unanswered = 0,
                       !.framing = IF @ = None THEN f ELSE @] \in Hellos
    <2>1. 0 \in 0..HellosBeforeReopen
        BY ConstantsAre
    <2>. QED BY <2>1 DEF Hellos
<1>. QED BY <1>1, <1>2, <1>3

\* A queue with room takes one more.
LEMMA OneMore ==
    ASSUME NEW S, NEW q \in Seq(S), NEW x \in S, NEW most \in Nat, Len(q) < most
    PROVE  Append(q, x) \in Seq(S) /\ Len(Append(q, x)) <= most
OBVIOUS

\* One taken off leaves a queue no longer.
LEMMA TailFits ==
    ASSUME NEW S, NEW q \in Seq(S), NEW most \in Nat, Len(q) <= most, q # <<>>
    PROVE  Tail(q) \in Seq(S) /\ Len(Tail(q)) <= most /\ q[1] \in S
OBVIOUS

\* An empty queue.
LEMMA NoneLeft == <<>> \in Seq(Nat) /\ Len(<<>>) = 0
OBVIOUS

-----------------------------------------------------------------------------
(* What the worker, the loop, the actor, the flashers and the cable do *)

\* A paused worker lets go of what it held.
LEMMA LinkPausedStep ==
    ASSUME LinkIInv, Link!Paused
    PROVE  LinkIInv'
<1>1. LinkAt'
    BY DEF Link!Paused, LinkIInv, LinkAt
<1>2. /\ LinkHello' /\ LinkFlags' /\ LinkOpen' /\ LinkCmds'
      /\ LinkEvents' /\ LinkActor' /\ LinkDaemon' /\ LinkPad'
      /\ LinkFlashers'
    BY DEF Link!Paused,
       LinkIInv, LinkHello, LinkFlags, LinkOpen, LinkCmds, LinkEvents, LinkActor,
       LinkDaemon, LinkPad, LinkFlashers
<1>. QED BY <1>1, <1>2 DEF LinkIInv

\* No pad is found, or one to open.
LEMMA LinkDiscoverStep ==
    ASSUME LinkIInv, Link!Discover
    PROVE  LinkIInv'
<1>1. LinkAt'
    BY DEF Link!Discover, Link!DropHeld, LinkIInv, LinkAt
<1>2. LinkFlags'
    BY DEF Link!Discover, Link!DropHeld, LinkIInv, LinkFlags
<1>3. LinkOpen'
    BY DEF Link!Discover, Link!DropHeld, LinkIInv, LinkOpen, LinkFlags, LinkAt
<1>4. LinkCmds'
    <2>1. cmds' = cmds \/ cmds' = <<>>
        BY DEF Link!Discover, Link!DropHeld
    <2>2. CASE cmds' = cmds
        BY <2>2 DEF LinkIInv, LinkCmds
    <2>3. CASE cmds' = <<>>
        BY <2>3, NoneLeft, ConstantsAre DEF LinkCmds
    <2>. QED BY <2>1, <2>2, <2>3
<1>5. LinkEvents'
    BY EmitIs, ConstantsAre DEF Link!Discover, Link!DropHeld, LinkIInv, LinkEvents
<1>6. /\ LinkHello' /\ LinkActor' /\ LinkDaemon' /\ LinkPad'
      /\ LinkFlashers'
    BY DEF Link!Discover, Link!DropHeld,
       LinkIInv, LinkHello, LinkActor, LinkDaemon, LinkPad, LinkFlashers
<1>. QED BY <1>1, <1>2, <1>3, <1>4, <1>5, <1>6 DEF LinkIInv

\* The port opens, or another program has it.
LEMMA LinkOpenStep ==
    ASSUME LinkIInv, Link!Open
    PROVE  LinkIInv'
<1>1. LinkAt'
    BY DEF Link!Open, Link!DropHeld, LinkIInv, LinkAt
<1>2. LinkHello'
    <2>1. hello' = hello \/ hello' = Link!Fresh
        BY DEF Link!Open
    <2>. QED BY <2>1, FreshHello DEF LinkIInv, LinkHello
<1>3. LinkFlags'
    BY DEF Link!Open, Link!DropHeld, LinkIInv, LinkFlags
<1>4. LinkOpen'
    BY DEF Link!Open, Link!DropHeld, LinkIInv, LinkOpen, LinkFlags, LinkAt
<1>5. LinkCmds'
    <2>1. cmds' = cmds \/ cmds' = <<>>
        BY DEF Link!Open, Link!DropHeld
    <2>2. CASE cmds' = cmds
        BY <2>2 DEF LinkIInv, LinkCmds
    <2>3. CASE cmds' = <<>>
        BY <2>3, NoneLeft, ConstantsAre DEF LinkCmds
    <2>. QED BY <2>1, <2>2, <2>3
<1>6. LinkEvents'
    BY EmitIs, ConstantsAre DEF Link!Open, Link!DropHeld, LinkIInv, LinkEvents
<1>7. LinkActor' /\ LinkDaemon' /\ LinkPad' /\ LinkFlashers'
    BY DEF Link!Open, Link!DropHeld,
       LinkIInv, LinkActor, LinkDaemon, LinkPad, LinkFlashers
<1>. QED BY <1>1, <1>2, <1>3, <1>4, <1>5, <1>6, <1>7 DEF LinkIInv

\* The worker says Hello, waits, or gives the port up.
LEMMA LinkStepStep ==
    ASSUME LinkIInv, Link!Step
    PROVE  LinkIInv'
<1>1. LinkAt'
    BY DEF Link!Step, Link!SendHello, Link!Restarted, LinkIInv, LinkAt
<1>2. LinkHello'
    <2>1. hello \in Hellos
        BY DEF LinkIInv, LinkHello
    <2>. DEFINE h == IF rx = "half" \/ dm.rehello THEN Link!Restarted(hello) ELSE hello
    <2>2. h \in Hellos
        <3>1. Link!Restarted(hello) = [hello EXCEPT !.answered = FALSE, !.due = TRUE]
            BY DEF Link!Restarted
        <3>. QED BY <2>1, <3>1, HelloIs
    <2>3. \/ hello' = hello \/ hello' = h
          \/ hello' = [h EXCEPT !.due = FALSE, !.unanswered = @ + 1]
             /\ h.unanswered < HellosBeforeReopen
        BY DEF Link!Step, Link!SendHello
    <2>. HIDE DEF h
    <2>. QED BY <2>1, <2>2, <2>3, HelloIs DEF LinkHello
<1>3. LinkFlags'
    BY DEF Link!Step, Link!SendHello, Link!Restarted, LinkIInv, LinkFlags
<1>4. LinkOpen'
    BY DEF Link!Step, Link!SendHello, Link!Restarted, LinkIInv, LinkOpen, LinkFlags, LinkAt
<1>5. /\ LinkCmds' /\ LinkEvents' /\ LinkActor' /\ LinkDaemon'
      /\ LinkPad' /\ LinkFlashers'
    BY DEF Link!Step, Link!SendHello, Link!Restarted,
       LinkIInv, LinkCmds, LinkEvents, LinkActor, LinkDaemon, LinkPad, LinkFlashers
<1>. QED BY <1>1, <1>2, <1>3, <1>4, <1>5 DEF LinkIInv

\* A command is written, or lost.
LEMMA LinkWriteStep ==
    ASSUME LinkIInv, Link!Write
    PROVE  LinkIInv'
<1>1. LinkAt'
    BY DEF Link!Write, LinkIInv, LinkAt
<1>2. LinkFlags'
    BY DEF Link!Write, LinkIInv, LinkFlags
<1>3. LinkOpen'
    BY DEF Link!Write, LinkIInv, LinkOpen, LinkFlags, LinkAt
<1>4. LinkCmds'
    BY ConstantsAre DEF Link!Write, LinkIInv, LinkCmds
<1>5. LinkPad'
    <2>1. pad' = pad \/ pad' = [pad EXCEPT !.shows = cmds[1]]
        BY DEF Link!Write
    <2>2. cmds[1] \in Nat
        BY TailFits, ConstantsAre DEF Link!Write, LinkIInv, LinkCmds
    <2>. QED BY <2>1, <2>2 DEF LinkIInv, LinkPad
<1>6. /\ LinkHello' /\ LinkEvents' /\ LinkActor' /\ LinkDaemon'
      /\ LinkFlashers'
    BY DEF Link!Write,
       LinkIInv, LinkHello, LinkEvents, LinkActor, LinkDaemon, LinkFlashers
<1>. QED BY <1>1, <1>2, <1>3, <1>4, <1>5, <1>6 DEF LinkIInv

\* No command is left.
LEMMA LinkDrainedStep ==
    ASSUME LinkIInv, Link!Drained
    PROVE  LinkIInv'
<1>1. LinkAt'
    BY DEF Link!Drained, LinkIInv, LinkAt
<1>2. LinkOpen'
    BY DEF Link!Drained, LinkIInv, LinkOpen, LinkFlags, LinkAt
<1>3. /\ LinkHello' /\ LinkFlags' /\ LinkCmds' /\ LinkEvents'
      /\ LinkActor' /\ LinkDaemon' /\ LinkPad' /\ LinkFlashers'
    BY DEF Link!Drained,
       LinkIInv, LinkHello, LinkFlags, LinkCmds, LinkEvents, LinkActor, LinkDaemon,
       LinkPad, LinkFlashers
<1>. QED BY <1>1, <1>2, <1>3 DEF LinkIInv

\* The pad answers, or its port is gone.
LEMMA LinkReadStep ==
    ASSUME LinkIInv, Link!Read
    PROVE  LinkIInv'
<1>1. LinkAt'
    BY DEF Link!Read, Link!HelloAck, LinkIInv, LinkAt
<1>2. LinkHello'
    <2>1. \/ hello' = hello
          \/ hello' = [hello EXCEPT !.answered = TRUE, !.unanswered = 0,
                                    !.framing = IF @ = None THEN pad.framing ELSE @]
        BY DEF Link!Read, Link!HelloAck
    <2>2. hello \in Hellos /\ pad.framing \in {Marked, Legacy}
        BY DEF LinkIInv, LinkHello, LinkPad
    <2>. QED BY <2>1, <2>2, HelloIs DEF LinkHello
<1>3. LinkFlags'
    BY DEF Link!Read, Link!HelloAck, LinkIInv, LinkFlags
<1>4. LinkOpen'
    BY DEF Link!Read, Link!HelloAck, LinkIInv, LinkOpen, LinkFlags, LinkAt
<1>5. LinkEvents'
    BY EmitIs, ConstantsAre DEF Link!Read, Link!HelloAck, LinkIInv, LinkEvents
<1>6. /\ LinkCmds' /\ LinkActor' /\ LinkDaemon' /\ LinkPad'
      /\ LinkFlashers'
    BY DEF Link!Read, Link!HelloAck,
       LinkIInv, LinkCmds, LinkActor, LinkDaemon, LinkPad, LinkFlashers
<1>. QED BY <1>1, <1>2, <1>3, <1>4, <1>5, <1>6 DEF LinkIInv

\* A status of the pad.
LEMMA LinkReadStatusStep ==
    ASSUME LinkIInv, Link!ReadStatus
    PROVE  LinkIInv'
<1>1. LinkAt'
    BY DEF Link!ReadStatus, LinkIInv, LinkAt
<1>2. LinkOpen'
    BY DEF Link!ReadStatus, LinkIInv, LinkOpen, LinkFlags, LinkAt
<1>3. LinkEvents'
    BY EmitIs, ConstantsAre DEF Link!ReadStatus, LinkIInv, LinkEvents
<1>4. /\ LinkHello' /\ LinkFlags' /\ LinkCmds' /\ LinkActor'
      /\ LinkDaemon' /\ LinkPad' /\ LinkFlashers'
    BY DEF Link!ReadStatus,
       LinkIInv, LinkHello, LinkFlags, LinkCmds, LinkActor, LinkDaemon, LinkPad,
       LinkFlashers
<1>. QED BY <1>1, <1>2, <1>3, <1>4 DEF LinkIInv

\* The port is closed to open it again.
LEMMA LinkReopenStep ==
    ASSUME LinkIInv, Link!Reopen
    PROVE  LinkIInv'
<1>1. LinkAt'
    BY DEF Link!Reopen, Link!ClosePort, LinkIInv, LinkAt
<1>2. LinkFlags'
    BY DEF Link!Reopen, Link!ClosePort, LinkIInv, LinkFlags
<1>3. LinkOpen'
    BY DEF Link!Reopen, Link!ClosePort, LinkIInv, LinkOpen, LinkFlags, LinkAt
<1>4. LinkPad'
    BY DEF Link!Reopen, Link!ClosePort, LinkIInv, LinkPad
<1>5. /\ LinkHello' /\ LinkCmds' /\ LinkEvents' /\ LinkActor'
      /\ LinkDaemon' /\ LinkFlashers'
    BY DEF Link!Reopen, Link!ClosePort,
       LinkIInv, LinkHello, LinkCmds, LinkEvents, LinkActor, LinkDaemon, LinkFlashers
<1>. QED BY <1>1, <1>2, <1>3, <1>4, <1>5 DEF LinkIInv

\* The connection ends.
LEMMA LinkCloseStep ==
    ASSUME LinkIInv, Link!Close
    PROVE  LinkIInv'
<1>1. LinkAt'
    BY DEF Link!Close, Link!ClosePort, Link!Disconnect, LinkIInv, LinkAt
<1>2. LinkFlags'
    BY DEF Link!Close, Link!ClosePort, Link!Disconnect, LinkIInv, LinkFlags
<1>3. LinkOpen'
    BY DEF Link!Close, Link!ClosePort, Link!Disconnect, LinkIInv, LinkOpen, LinkFlags, LinkAt
<1>4. LinkCmds'
    BY ConstantsAre DEF Link!Close, Link!ClosePort, Link!Disconnect, LinkIInv, LinkCmds
<1>5. LinkEvents'
    BY EmitIs, ConstantsAre DEF Link!Close, Link!ClosePort, Link!Disconnect, LinkIInv, LinkEvents
<1>6. LinkPad'
    BY DEF Link!Close, Link!ClosePort, Link!Disconnect, LinkIInv, LinkPad
<1>7. LinkHello' /\ LinkActor' /\ LinkDaemon' /\ LinkFlashers'
    BY DEF Link!Close, Link!ClosePort, Link!Disconnect,
       LinkIInv, LinkHello, LinkActor, LinkDaemon, LinkFlashers
<1>. QED BY <1>1, <1>2, <1>3, <1>4, <1>5, <1>6, <1>7 DEF LinkIInv

\* It is time for another Hello.
LEMMA LinkHelloRetryStep ==
    ASSUME LinkIInv, Link!HelloRetry
    PROVE  LinkIInv'
<1>1. LinkHello'
    BY HelloIs DEF Link!HelloRetry, LinkIInv, LinkHello
<1>2. /\ LinkAt' /\ LinkFlags' /\ LinkOpen' /\ LinkCmds'
      /\ LinkEvents' /\ LinkActor' /\ LinkDaemon' /\ LinkPad'
      /\ LinkFlashers'
    BY DEF Link!HelloRetry,
       LinkIInv, LinkAt, LinkFlags, LinkOpen, LinkCmds, LinkEvents, LinkActor,
       LinkDaemon, LinkPad, LinkFlashers
<1>. QED BY <1>1, <1>2 DEF LinkIInv

\* The loop takes an event.
LEMMA LinkReceiveStep ==
    ASSUME LinkIInv, Link!Receive
    PROVE  LinkIInv'
<1>1. LinkFlags'
    BY DEF Link!Receive, LinkIInv, LinkFlags
<1>2. LinkOpen'
    BY DEF Link!Receive, LinkIInv, LinkOpen, LinkFlags, LinkAt
<1>3. LinkEvents'
    <2>1. events.list # <<>> /\ events' = [list |-> Tail(events.list), lagged |-> FALSE]
        BY DEF Link!Receive
    <2>2. events.list \in Seq({"connected", "disconnected", "status"}) /\ Len(events.list) <= EventMax
        BY DEF LinkIInv, LinkEvents, LinkQueue
    <2>3. /\ Tail(events.list) \in Seq({"connected", "disconnected", "status"})
          /\ Len(Tail(events.list)) <= EventMax
        BY <2>1, <2>2, TailFits, ConstantsAre
    <2>. QED BY <2>1, <2>3 DEF LinkEvents, LinkQueue
<1>4. LinkDaemon'
    BY DEF Link!Receive, LinkIInv, LinkDaemon
<1>5. /\ LinkAt' /\ LinkHello' /\ LinkCmds' /\ LinkActor'
      /\ LinkPad' /\ LinkFlashers'
    BY DEF Link!Receive,
       LinkIInv, LinkAt, LinkHello, LinkCmds, LinkActor, LinkPad, LinkFlashers
<1>. QED BY <1>1, <1>2, <1>3, <1>4, <1>5 DEF LinkIInv

\* A tosu frame.
LEMMA LinkIngestStep ==
    ASSUME LinkIInv, Link!Ingest
    PROVE  LinkIInv'
<1>1. LinkDaemon'
    BY DEF Link!Ingest, LinkIInv, LinkDaemon
<1>2. /\ LinkAt' /\ LinkHello' /\ LinkFlags' /\ LinkOpen'
      /\ LinkCmds' /\ LinkEvents' /\ LinkActor' /\ LinkPad'
      /\ LinkFlashers'
    BY DEF Link!Ingest,
       LinkIInv, LinkAt, LinkHello, LinkFlags, LinkOpen, LinkCmds, LinkEvents,
       LinkActor, LinkPad, LinkFlashers
<1>. QED BY <1>1, <1>2 DEF LinkIInv

\* What changed is sent, or all of it.
LEMMA LinkTickStep ==
    ASSUME LinkIInv, Link!Tick
    PROVE  LinkIInv'
<1>1. LinkFlags'
    BY DEF Link!Tick, Link!Resend, LinkIInv, LinkFlags
<1>2. LinkOpen'
    BY DEF Link!Tick, Link!Resend, LinkIInv, LinkOpen, LinkFlags, LinkAt
<1>3. LinkActor'
    <2>1. /\ actor' = actor \/ actor' = [actor EXCEPT !.q = Append(@, daemon.latest)]
          /\ Len(actor.q) < ActorMax
        BY DEF Link!Tick
    <2>2. /\ actor.q \in Seq(Nat) /\ actor.doing \in Nat \cup {None} /\ daemon.latest \in Nat
          /\ actor \in [q : Seq(Nat), doing : Nat \cup {None}] /\ Len(actor.q) <= ActorMax
        BY DEF LinkIInv, LinkActor, LinkDaemon
    <2>3. Append(actor.q, daemon.latest) \in Seq(Nat) /\ Len(Append(actor.q, daemon.latest)) <= ActorMax
        BY <2>1, <2>2, OneMore, ConstantsAre
    <2>. QED BY <2>1, <2>2, <2>3 DEF LinkActor
<1>4. LinkDaemon'
    BY DEF Link!Tick, Link!Resend, LinkIInv, LinkDaemon, LinkActor
<1>5. /\ LinkAt' /\ LinkHello' /\ LinkCmds' /\ LinkEvents'
      /\ LinkPad' /\ LinkFlashers'
    BY DEF Link!Tick, Link!Resend,
       LinkIInv, LinkAt, LinkHello, LinkCmds, LinkEvents, LinkPad, LinkFlashers
<1>. QED BY <1>1, <1>2, <1>3, <1>4, <1>5 DEF LinkIInv

\* The actor takes a value.
LEMMA LinkActorLookStep ==
    ASSUME LinkIInv, Link!ActorLook
    PROVE  LinkIInv'
<1>1. LinkActor'
    BY ConstantsAre DEF Link!ActorLook, LinkIInv, LinkActor
<1>2. /\ LinkAt' /\ LinkHello' /\ LinkFlags' /\ LinkOpen'
      /\ LinkCmds' /\ LinkEvents' /\ LinkDaemon' /\ LinkPad'
      /\ LinkFlashers'
    BY DEF Link!ActorLook,
       LinkIInv, LinkAt, LinkHello, LinkFlags, LinkOpen, LinkCmds, LinkEvents,
       LinkDaemon, LinkPad, LinkFlashers
<1>. QED BY <1>1, <1>2 DEF LinkIInv

\* It is queued for the worker, or dropped.
LEMMA LinkActorSendStep ==
    ASSUME LinkIInv, Link!ActorSend
    PROVE  LinkIInv'
<1>1. LinkActor'
    BY ConstantsAre DEF Link!ActorSend, LinkIInv, LinkActor
<1>2. LinkCmds'
    <2>1. /\ actor.doing \in Nat \cup {None} /\ cmds \in Seq(Nat) /\ Len(cmds) <= QueueMax
        BY DEF LinkIInv, LinkActor, LinkCmds
    <2>2. actor.doing # None
        BY DEF Link!ActorSend
    <2>3. \/ cmds' = cmds
          \/ cmds' = Append(cmds, actor.doing) /\ Len(cmds) < QueueMax
        BY DEF Link!ActorSend
    <2>4. CASE cmds' = cmds
        BY <2>1, <2>4 DEF LinkCmds
    <2>5. CASE cmds' = Append(cmds, actor.doing) /\ Len(cmds) < QueueMax
        BY <2>1, <2>2, <2>5, OneMore, ConstantsAre DEF LinkCmds
    <2>. QED BY <2>3, <2>4, <2>5
<1>3. LinkDaemon'
    BY DEF Link!ActorSend, LinkIInv, LinkDaemon
<1>4. /\ LinkAt' /\ LinkHello' /\ LinkFlags' /\ LinkOpen'
      /\ LinkEvents' /\ LinkPad' /\ LinkFlashers'
    BY DEF Link!ActorSend,
       LinkIInv, LinkAt, LinkHello, LinkFlags, LinkOpen, LinkEvents, LinkPad,
       LinkFlashers
<1>. QED BY <1>1, <1>2, <1>3, <1>4 DEF LinkIInv

\* The cable is pulled.
LEMMA LinkUnplugStep ==
    ASSUME LinkIInv, Link!Unplug
    PROVE  LinkIInv'
<1>1. LinkAt'
    BY DEF Link!Unplug, LinkIInv, LinkAt
<1>2. LinkPad'
    BY DEF Link!Unplug, LinkIInv, LinkPad
<1>3. /\ LinkHello' /\ LinkFlags' /\ LinkOpen' /\ LinkCmds'
      /\ LinkEvents' /\ LinkActor' /\ LinkDaemon' /\ LinkFlashers'
    BY DEF Link!Unplug,
       LinkIInv, LinkHello, LinkFlags, LinkOpen, LinkCmds, LinkEvents, LinkActor,
       LinkDaemon, LinkFlashers
<1>. QED BY <1>1, <1>2, <1>3 DEF LinkIInv

\* It is plugged in.
LEMMA LinkPlugStep ==
    ASSUME LinkIInv, Link!Plug
    PROVE  LinkIInv'
<1>1. LinkPad'
    BY DEF Link!Plug, LinkIInv, LinkPad
<1>2. /\ LinkAt' /\ LinkHello' /\ LinkFlags' /\ LinkOpen'
      /\ LinkCmds' /\ LinkEvents' /\ LinkActor' /\ LinkDaemon'
      /\ LinkFlashers'
    BY DEF Link!Plug,
       LinkIInv, LinkAt, LinkHello, LinkFlags, LinkOpen, LinkCmds, LinkEvents,
       LinkActor, LinkDaemon, LinkFlashers
<1>. QED BY <1>1, <1>2 DEF LinkIInv

\* The pad stops listening.
LEMMA LinkAilStep ==
    ASSUME LinkIInv, Link!Ail
    PROVE  LinkIInv'
<1>1. LinkAt'
    BY DEF Link!Ail, LinkIInv, LinkAt
<1>2. LinkPad'
    BY DEF Link!Ail, LinkIInv, LinkPad
<1>3. /\ LinkHello' /\ LinkFlags' /\ LinkOpen' /\ LinkCmds'
      /\ LinkEvents' /\ LinkActor' /\ LinkDaemon' /\ LinkFlashers'
    BY DEF Link!Ail,
       LinkIInv, LinkHello, LinkFlags, LinkOpen, LinkCmds, LinkEvents, LinkActor,
       LinkDaemon, LinkFlashers
<1>. QED BY <1>1, <1>2, <1>3 DEF LinkIInv

\* A flasher asks for the port.
LEMMA LinkPauseStep ==
    ASSUME LinkIInv, NEW f \in Flashers, Link!Pause(f)
    PROVE  LinkIInv'
<1>1. LinkFlags'
    BY DEF Link!Pause, LinkIInv, LinkFlags
<1>2. LinkOpen'
    BY DEF Link!Pause, LinkIInv, LinkOpen, LinkFlags, LinkAt
<1>3. LinkEvents'
    BY EmitIs, ConstantsAre DEF Link!Pause, LinkIInv, LinkEvents
<1>4. LinkFlashers'
    BY DEF Link!Pause, LinkIInv, LinkFlashers
<1>5. /\ LinkAt' /\ LinkHello' /\ LinkCmds' /\ LinkActor'
      /\ LinkDaemon' /\ LinkPad'
    BY DEF Link!Pause,
       LinkIInv, LinkAt, LinkHello, LinkCmds, LinkActor, LinkDaemon, LinkPad
<1>. QED BY <1>1, <1>2, <1>3, <1>4, <1>5 DEF LinkIInv

\* The flasher has it.
LEMMA LinkReleasedStep ==
    ASSUME LinkIInv, NEW f \in Flashers, Link!Released(f)
    PROVE  LinkIInv'
<1>1. LinkDaemon'
    BY DEF Link!Released, LinkIInv, LinkDaemon
<1>2. LinkFlashers'
    BY DEF Link!Released, LinkIInv, LinkFlashers
<1>3. /\ LinkAt' /\ LinkHello' /\ LinkFlags' /\ LinkOpen'
      /\ LinkCmds' /\ LinkEvents' /\ LinkActor' /\ LinkPad'
    BY DEF Link!Released,
       LinkIInv, LinkAt, LinkHello, LinkFlags, LinkOpen, LinkCmds, LinkEvents,
       LinkActor, LinkPad
<1>. QED BY <1>1, <1>2, <1>3 DEF LinkIInv

\* It hands the port back.
LEMMA LinkDoneStep ==
    ASSUME LinkIInv, NEW f \in Flashers, Link!Done(f)
    PROVE  LinkIInv'
<1>1. LinkFlags'
    BY DEF Link!Done, Link!Resume, LinkIInv, LinkFlags
<1>2. LinkOpen'
    BY DEF Link!Done, Link!Resume, LinkIInv, LinkOpen, LinkFlags, LinkAt
<1>3. LinkFlashers'
    BY DEF Link!Done, Link!Resume, LinkIInv, LinkFlashers
<1>4. /\ LinkAt' /\ LinkHello' /\ LinkCmds' /\ LinkEvents'
      /\ LinkActor' /\ LinkDaemon' /\ LinkPad'
    BY DEF Link!Done, Link!Resume,
       LinkIInv, LinkAt, LinkHello, LinkCmds, LinkEvents, LinkActor, LinkDaemon,
       LinkPad
<1>. QED BY <1>1, <1>2, <1>3, <1>4 DEF LinkIInv

\* It has waited too long.
LEMMA LinkTimedOutStep ==
    ASSUME LinkIInv, NEW f \in Flashers, Link!TimedOut(f)
    PROVE  LinkIInv'
<1>1. LinkFlags'
    BY DEF Link!TimedOut, Link!Resume, LinkIInv, LinkFlags
<1>2. LinkOpen'
    BY DEF Link!TimedOut, Link!Resume, LinkIInv, LinkOpen, LinkFlags, LinkAt
<1>3. LinkFlashers'
    BY DEF Link!TimedOut, Link!Resume, LinkIInv, LinkFlashers
<1>4. /\ LinkAt' /\ LinkHello' /\ LinkCmds' /\ LinkEvents'
      /\ LinkActor' /\ LinkDaemon' /\ LinkPad'
    BY DEF Link!TimedOut, Link!Resume,
       LinkIInv, LinkAt, LinkHello, LinkCmds, LinkEvents, LinkActor, LinkDaemon,
       LinkPad
<1>. QED BY <1>1, <1>2, <1>3, <1>4 DEF LinkIInv

\* A client that holds nothing resumes the pad.
LEMMA LinkResumeDeviceStep ==
    ASSUME LinkIInv, NEW f \in Flashers, Link!ResumeDevice(f)
    PROVE  LinkIInv'
<1>1. LinkFlags'
    BY DEF Link!ResumeDevice, Link!Resume, LinkIInv, LinkFlags
<1>2. LinkOpen'
    BY DEF Link!ResumeDevice, Link!Resume, LinkIInv, LinkOpen, LinkFlags, LinkAt
<1>3. LinkFlashers'
    BY DEF Link!ResumeDevice, Link!Resume, LinkIInv, LinkFlashers
<1>4. /\ LinkAt' /\ LinkHello' /\ LinkCmds' /\ LinkEvents'
      /\ LinkActor' /\ LinkDaemon' /\ LinkPad'
    BY DEF Link!ResumeDevice, Link!Resume,
       LinkIInv, LinkAt, LinkHello, LinkCmds, LinkEvents, LinkActor, LinkDaemon,
       LinkPad
<1>. QED BY <1>1, <1>2, <1>3, <1>4 DEF LinkIInv

\* The worker has found nothing, and nothing waits.
LEMMA LinkInitial == ASSUME Link!Init PROVE LinkIInv
<1>1. /\ at = "top" /\ held = FALSE /\ rx = "none" /\ hello = Link!Fresh
      /\ dm = [connected |-> FALSE, paused |-> FALSE, open |-> FALSE,
               rehello |-> FALSE, lost |-> FALSE]
      /\ cmds = <<>> /\ events = [list |-> <<>>, lagged |-> FALSE]
      /\ daemon = [dev |-> FALSE, latest |-> 0, sent |-> None, resend |-> FALSE]
      /\ actor = [q |-> <<>>, doing |-> None]
      /\ linkFlash = [f \in Flashers |-> "no"]
      /\ \E f \in {Marked, Legacy} :
            pad = [plugged |-> TRUE, framing |-> f, ails |-> "no", shows |-> None]
    BY DEF Link!Init
<1>2. LinkAt /\ LinkFlags /\ LinkOpen
    BY <1>1 DEF LinkAt, LinkFlags, LinkOpen
<1>3. LinkHello
    BY <1>1, FreshHello DEF LinkHello
<1>4. LinkCmds
    BY <1>1, NoneLeft, ConstantsAre DEF LinkCmds
<1>5. LinkEvents
    <2>1. <<>> \in Seq({"connected", "disconnected", "status"}) /\ Len(<<>>) = 0
        OBVIOUS
    <2>2. events.list = <<>>
        BY <1>1
    <2>. QED BY <1>1, <2>1, <2>2, ConstantsAre DEF LinkEvents, LinkQueue
<1>6. LinkActor
    <2>1. actor.q = <<>>
        BY <1>1
    <2>. QED BY <1>1, <2>1, NoneLeft, ConstantsAre DEF LinkActor
<1>7. LinkDaemon /\ LinkPad /\ LinkFlashers
    BY <1>1 DEF LinkDaemon, LinkPad, LinkFlashers
<1>. QED BY <1>2, <1>3, <1>4, <1>5, <1>6, <1>7 DEF LinkIInv

\* Whatever happens on the link.
LEMMA LinkStep == LinkIInv /\ [Link!Next]_linkVars => LinkIInv'
<1>. SUFFICES ASSUME LinkIInv, [Link!Next]_linkVars PROVE LinkIInv'
    OBVIOUS
<1>1. CASE Link!Worker
    BY <1>1, LinkPausedStep, LinkDiscoverStep, LinkOpenStep, LinkStepStep, LinkWriteStep,
       LinkDrainedStep, LinkReadStep, LinkReadStatusStep, LinkReopenStep, LinkCloseStep
    DEF Link!Worker
<1>2. CASE Link!FlashNext
    BY <1>2, LinkPauseStep, LinkReleasedStep, LinkDoneStep, LinkTimedOutStep,
       LinkResumeDeviceStep DEF Link!FlashNext
<1>3. CASE UNCHANGED linkVars
    BY <1>3 DEF linkVars, LinkIInv, LinkAt, LinkHello, LinkFlags, LinkOpen, LinkCmds,
       LinkEvents, LinkActor, LinkDaemon, LinkPad, LinkFlashers
<1>. QED
    BY <1>1, <1>2, <1>3, LinkHelloRetryStep, LinkReceiveStep, LinkIngestStep, LinkTickStep,
       LinkActorLookStep, LinkActorSendStep, LinkUnplugStep, LinkPlugStep, LinkAilStep
    DEF Link!Next

-----------------------------------------------------------------------------
(* The four parts *)

CableInv ==
    /\ part = "link"     => LinkIInv
    /\ part = "config"   => IInv
    /\ part = "firmware" => FwIInv
    /\ part = "live"     => LiveIInv

\* The part that moves keeps its invariant, the others stand still.
LEMMA CableInductive == Spec => []CableInv
<1>1. Init => CableInv
    BY LinkInitial, InitIInv, FwInitial, LiveInitial, ConfigAssumption
    DEF ConfigAssumption, Init, CableInv
<1>2. CableInv /\ [Next]_vars => CableInv'
    <2>. SUFFICES ASSUME CableInv, [Next]_vars PROVE CableInv'
        OBVIOUS
    <2>0. part' = part
        BY DEF Next, vars
    <2>1. ASSUME part = "link" PROVE LinkIInv'
        <3>1. LinkIInv /\ [Link!Next]_linkVars
            BY <2>1 DEF CableInv, Next, vars
        <3>. QED BY <3>1, LinkStep
    <2>2. ASSUME part = "config" PROVE IInv'
        <3>1. IInv /\ [ConfigNext]_cvars
            BY <2>2 DEF CableInv, Next, vars
        <3>. QED
            BY <3>1, TypeStep, PadStep, ArrivesStep, StoredStep, ConfigAssumption
            DEF ConfigAssumption, IInv
    <2>3. ASSUME part = "firmware" PROVE FwIInv'
        <3>1. FwIInv /\ [Fw!FwNext]_fvars
            BY <2>3 DEF CableInv, Next, vars
        <3>. QED BY <3>1, FwStep
    <2>4. ASSUME part = "live" PROVE LiveIInv'
        <3>1. LiveIInv /\ [Live!LiveNext]_nvars
            BY <2>4 DEF CableInv, Next, vars
        <3>. QED BY <3>1, LiveStep
    <2>. QED BY <2>0, <2>1, <2>2, <2>3, <2>4 DEF CableInv
<1>. QED BY <1>1, <1>2, PTL DEF Spec

\* Every variable of the four parts stays in its range, with any number of
\* flashers and any size of the queues.
THEOREM CableTyped == Spec => []CableTypeOK
<1>1. LinkIInv => Link!TypeOK
    BY DEF LinkIInv, LinkAt, LinkHello, Hellos, LinkOpen, LinkCmds, LinkEvents, LinkActor,
       LinkFlashers, Link!TypeOK
<1>2. IInv => ConfigTypeOK
    BY Typed DEF IInv
<1>3. LiveIInv => Live!LiveTypeOK
    BY DEF LiveIInv, LiveFlags, LiveRanges, Live!LiveTypeOK
<1>4. CableInv => CableTypeOK
    BY <1>1, <1>2, <1>3, FwTyped DEF CableInv, CableTypeOK
<1>. QED BY <1>4, CableInductive, PTL

\* Between maps daemon, database and pad have one configuration, and what the
\* pad does not mark dirty is in its flash, however many sets and maps there are.
THEOREM ConfigStays == Spec => []ConfigIsKept
<1>1. IInv => ConfigKept
    BY DEF IInv, Arrives, Stored, Ends, Rests, Nothing, ConfigAgrees, ConfigKept
<1>2. CableInv => ConfigIsKept
    BY <1>1 DEF CableInv, ConfigIsKept
<1>. QED BY <1>2, CableInductive, PTL

\* A flash that is cut between any two of its writes, any number of times and
\* with any image, leaves a pad that gets back to one that works, unless it was
\* begun without a fallback.
THEOREM KeyboardStays == Spec => []AlwaysAKeyboard
<1>1. CableInv => AlwaysAKeyboard
    BY SafeIs DEF CableInv, AlwaysAKeyboard, Fw!AlwaysAKeyboard
<1>. QED BY <1>1, CableInductive, PTL

\* "Installed" is said of a pad that runs the image, and "rolled back" of one
\* that tried it and does not.
THEOREM VerdictsHold == Spec => VerdictsAreTrue
<1>1. CableInv /\ [Next]_vars => [part = "firmware" => Fw!VerdictIsTrue]_fvars
    <2>. SUFFICES ASSUME CableInv, [Next]_vars, part = "firmware", fvars' # fvars
         PROVE  Fw!VerdictIsTrue
        OBVIOUS
    <2>1. FwIInv /\ Fw!FwNext
        BY DEF CableInv, Next, vars
    <2>. QED BY <2>1, VerdictIs
<1>. QED BY <1>1, CableInductive, PTL DEF Spec, VerdictsAreTrue

\* The polls alone keep the key stream going, whatever the keep-alive, as long
\* as the lease is the longer one.
THEOREM StreamKept == Spec => []StreamIsKept
<1>1. CableInv => StreamIsKept
    BY LiveAssumption
    DEF LiveAssumption, Live!LiveConstants, CableInv, StreamIsKept, Live!StreamIsKept,
        LiveIInv, LiveRanges, Leased
<1>. QED BY <1>1, CableInductive, PTL
===============================================================================
