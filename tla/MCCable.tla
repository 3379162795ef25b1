------------------------------ MODULE MCCable -------------------------------
(***************************************************************************)
(* Four parts that meet over the cable, one per behaviour: the link, the   *)
(* configuration and layout it carries, the firmware written through it,   *)
(* and the live view of the keys.  The part is chosen at the start and the *)
(* variables of the others are 0.                                          *)
(***************************************************************************)
EXTENDS PadConfig, FiniteSets

CONSTANTS
    LinkBudgets, FwBudgets, LiveBudgets,   \* what bounds each part
    Flashers, Marked, Legacy, HellosBeforeReopen, QueueMax, EventMax, ActorMax,  \* PadLink
    KeepAlive, Lease                                                             \* KeysLive

-----------------------------------------------------------------------------
VARIABLE part   \* the part this behaviour is of

VARIABLES
    at, hello, held, dm, cmds, pad, rx, events, daemon, actor, linkFlash,
    early, bounds
linkVars == <<at, hello, held, dm, cmds, pad, rx, events, daemon, actor,
              linkFlash, early, bounds>>
Link == INSTANCE PadLink WITH flash <- linkFlash
LinkOff == at = 0 /\ hello = 0 /\ held = 0 /\ dm = 0 /\ cmds = 0 /\ pad = 0
        /\ rx = 0 /\ events = 0 /\ daemon = 0 /\ actor = 0 /\ linkFlash = 0
        /\ early = 0 /\ bounds = 0

\* PadConfig itself
PadConfigOff == cmode = 0 /\ linked = 0 /\ cfg = 0 /\ layout = 0 /\ cdb = 0
        /\ later = 0 /\ wire = 0 /\ pst = 0 /\ ram = 0 /\ flash = 0
        /\ dirty = 0 /\ proto = 0 /\ flusher = 0 /\ cbounds = 0 /\ raced = 0
        /\ failed = 0

VARIABLES
    slots, otadata, fwPad, usb, job, told, fbounds, tried, sacrificed
fvars == <<slots, otadata, fwPad, usb, job, told, fbounds, tried, sacrificed>>
Fw == INSTANCE FirmwareUpdate WITH pad <- fwPad
FwOff == slots = 0 /\ otadata = 0 /\ fwPad = 0 /\ usb = 0 /\ job = 0
        /\ told = 0 /\ fbounds = 0 /\ tried = 0 /\ sacrificed = 0

VARIABLES
    open, view, polling, carried, latest, requested, asking, lease, inmap,
    polled, kept, nbounds
nvars == <<open, view, polling, carried, latest, requested, asking, lease,
           inmap, polled, kept, nbounds>>
Live == INSTANCE KeysLive
LiveOff == open = 0 /\ view = 0 /\ polling = 0 /\ carried = 0 /\ latest = 0
        /\ requested = 0 /\ asking = 0 /\ lease = 0 /\ inmap = 0 /\ polled = 0
        /\ kept = 0 /\ nbounds = 0

-----------------------------------------------------------------------------
vars == <<part, linkVars, cvars, fvars, nvars>>

Init ==
    /\ part \in {"link", "config", "firmware", "live"}
    /\ IF part = "link" THEN Link!Init ELSE LinkOff
    /\ IF part = "config" THEN ConfigInit ELSE PadConfigOff
    /\ IF part = "firmware" THEN Fw!FwInit ELSE FwOff
    /\ IF part = "live" THEN Live!LiveInit ELSE LiveOff

\* The part moves, the others stay as they are
Next ==
    /\ UNCHANGED part
    /\ IF part = "link" THEN Link!Next ELSE UNCHANGED linkVars
    /\ IF part = "config" THEN ConfigNext ELSE UNCHANGED cvars
    /\ IF part = "firmware" THEN Fw!FwNext ELSE UNCHANGED fvars
    /\ IF part = "live" THEN Live!LiveNext ELSE UNCHANGED nvars

\* What the proofs ask of the constants holds of these
ASSUME ConfigAssumption == ConfigConstants
ASSUME FwAssumption == Fw!FwConstants
ASSUME LinkAssumption == Link!LinkConstants
ASSUME LiveAssumption == Live!LiveConstants

(***************************************************************************)
(* The fairness each module states, under the part it is of: threads,      *)
(* loops and timers run, a flasher hands the port back, a map ends, the    *)
(* host configures a pad that has power.  Nobody has to plug a pad.        *)
(***************************************************************************)
LinkRuns ==
    /\ WF_linkVars(part = "link" /\ Link!Worker)
    /\ WF_linkVars(part = "link" /\ Link!HelloRetry)
    /\ WF_linkVars(part = "link" /\ Link!Receive)
    /\ WF_linkVars(part = "link" /\ Link!Tick)
    /\ WF_linkVars(part = "link" /\ Link!ActorLook)
    /\ WF_linkVars(part = "link" /\ Link!ActorSend)
    /\ \A f \in Flashers :
         /\ WF_linkVars(part = "link" /\ Link!Released(f))
         /\ WF_linkVars(part = "link" /\ Link!Done(f))

ConfigRuns ==
    /\ WF_cvars(part = "config" /\ Receive)
    /\ WF_cvars(part = "config" /\ Flush)
    /\ WF_cvars(part = "config" /\ PadTimeout)
    /\ WF_cvars(part = "config" /\ MapOver)
    /\ WF_cvars(part = "config" /\ (SyncDrains \/ SyncSkips))

FwRuns ==
    /\ WF_fvars(part = "firmware" /\ Fw!UsbUp)
    /\ WF_fvars(part = "firmware" /\ Fw!GivesUp)

LiveRuns ==
    /\ WF_nvars(part = "live" /\ Live!PollLive)
    /\ WF_nvars(part = "live" /\ Live!Serves)
    /\ WF_nvars(part = "live" /\ Live!Renews)
    /\ WF_nvars(part = "live" /\ Live!Streams)
    /\ WF_nvars(part = "live" /\ Live!MapOver)
    /\ WF_nvars(part = "live" /\ Live!Returns)
    /\ WF_nvars(part = "live" /\ Live!HalfSecond)

Fairness == LinkRuns /\ ConfigRuns /\ FwRuns /\ LiveRuns

Spec == Init /\ [][Next]_vars /\ Fairness

-----------------------------------------------------------------------------
CableTypeOK ==
    /\ part = "link"     => Link!TypeOK
    /\ part = "config"   => ConfigTypeOK
    /\ part = "firmware" => Fw!FwTypeOK
    /\ part = "live"     => Live!LiveTypeOK

\* Between maps daemon, database and pad have one configuration, and what the
\* pad uses and does not mark is in its flash (UpdateConfig, device_config_set).
ConfigIsKept == part = "config" => ConfigKept

\* Wherever an update is cut, the pad gets back to an image that works (flash.rs).
AlwaysAKeyboard == part = "firmware" => Fw!AlwaysAKeyboard

\* "Installed" and "rolled back" are said of a pad of which they are true
\* (flash_and_verify).
VerdictsAreTrue == [][part = "firmware" => Fw!VerdictIsTrue]_fvars

\* The polls alone keep the key stream going (he_live_poll, he_live_view).
StreamIsKept == part = "live" => Live!StreamIsKept

\* Nothing waits for ever: a pad that listens is seen, one that went away or
\* hangs is dropped, and what it shows catches up, all three at once; what a
\* map postponed reaches flash; a broken image on trial goes away; the live
\* view shows keys, and ends with its page (worker_loop, DataSync,
\* device_config_flush, the otadata trial, HE_LIVE_KEEPALIVE).
CableRests ==
    /\ part = "link"     => Link!Seen /\ Link!NoGhost /\ Link!UpToDate
    /\ part = "config"   => ~Deferred
    /\ part = "firmware" => ~Fw!Broken
    /\ part = "live"     => Live!Shows
CableSettles == []<>CableRests

FirmwareAlone == part = "firmware" /\ Spec

\* A pad with two slots takes one update after another from the daemon: it is
\* never said to need a full reflash for its partition layout
\* (docs/specs/release-and-updates.md:416).
NeverAskedToReflash == part = "firmware" => Fw!NeverAskedToReflash

-----------------------------------------------------------------------------
(* Bounds: each set holds behaviours with different mixes of events *)

NoLinkEvents == [values |-> 0, statuses |-> 0, losses |-> 0, unplugs |-> 0,
                 deaf |-> 0, flashes |-> 0, early |-> 0]
MCLinkBudgets ==
    {[NoLinkEvents EXCEPT !.values = 2, !.losses = 1, !.unplugs = 1],
     [NoLinkEvents EXCEPT !.values = 1, !.unplugs = 1, !.deaf = 1],
     [NoLinkEvents EXCEPT !.deaf = 2],
     [NoLinkEvents EXCEPT !.statuses = 2, !.unplugs = 1],
     [NoLinkEvents EXCEPT !.flashes = 2, !.early = 1],
     [NoLinkEvents EXCEPT !.values = 1, !.flashes = 1, !.early = 1]}
MCConfigBudgets ==
    {[sets |-> 2, maps |-> 1, cuts |-> 1, fails |-> 1],
     [sets |-> 3, maps |-> 2, cuts |-> 0, fails |-> 0]}
\* The daemon updates a pad, and then is asked to update it once more
TwoUpdates == {[flashes |-> 2, cuts |-> 0, kinds |-> {"update"}]}
MCFwBudgets ==
    {[flashes |-> 3, cuts |-> 3, kinds |-> {"update"}],
     [flashes |-> 2, cuts |-> 1, kinds |-> {"update", "cli"}],
     [flashes |-> 2, cuts |-> 1, kinds |-> {"full", "bare", "recover"}]}
MCLiveBudgets == {[visits |-> 2, maps |-> 1, drops |-> 1, losses |-> 1]}
=============================================================================
