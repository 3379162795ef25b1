---------------------------- MODULE FirmwareUpdate ----------------------------
(***************************************************************************)
(* Writing firmware to the pad: the daemon's update, opadctl flash with a  *)
(* daemon and without one, and the full recovery flash, against a pad that *)
(* may be unplugged between any two writes.                                *)
(*                                                                         *)
(* The pad has two app slots and an otadata partition of two sectors.  An  *)
(* app update goes to the slot that is not running; otadata then selects   *)
(* it for one trial boot, and the firmware confirms it once the host has   *)
(* configured USB.                                                         *)
(*                                                                         *)
(* Abstractions.  What the daemon is told about the moment (mode, guard,   *)
(* consent, database, sync, download) is chosen anew at each check.  The   *)
(* bootloader, external, boots the selected slot whatever is in it; each   *)
(* sector of otadata is erased and then written.  The SLIP client is one   *)
(* step that works or not.                                                 *)
(***************************************************************************)
EXTENDS Naturals, FiniteSets, Sequences

CONSTANTS
    None,
    FwBudgets     \* bounds: flashes, cuts, and the kinds of flash that are made

VARIABLES
    slots,        \* the image in ota_0 and ota_1
    otadata,      \* its two sectors
    pad,          \* at: off, rom (download mode), app; the slot that runs
    usb,          \* the host has configured the running image's USB
    job,          \* the flash under way
    told,         \* what its user was told last
    fbounds,      \* what FwBudgets leaves
    tried,        \* history: images that have booted
    sacrificed    \* history: a flash without a fallback was begun

fvars == <<slots, otadata, pad, usb, job, told, fbounds, tried, sacrificed>>

Slots == {0, 1}
States == {"new", "pending", "valid", "aborted"}
Works == {"good", "other"}
ImageKinds == Works \cup {"crash", "mute"}  \* other: says another version
Partial == [v |-> 0, kind |-> "partial"]
NoFlash == [at |-> "none"]
Off == [at |-> "off", slot |-> 0]
Rom == [at |-> "rom", slot |-> 0]

CountFw(what) == fbounds[what] > 0 /\ fbounds' = [fbounds EXCEPT ![what] = @ - 1]

\* No slot and no entry is None
FwConstants ==
    /\ FwBudgets \subseteq [flashes : Nat, cuts : Nat,
                            kinds : SUBSET {"update", "cli", "bare", "full", "recover"}]
    /\ None \notin Slots /\ None \notin [seq : 1..3, st : States]

FwInit ==
    /\ \E s \in Slots :
           /\ slots = [n \in Slots |-> IF n = s THEN [v |-> 1, kind |-> "good"] ELSE Partial]
           /\ otadata = [n \in 1..2 |-> IF s = 1 /\ n = 2 THEN [seq |-> 2, st |-> "valid"]
                                        ELSE None]
           /\ pad = [at |-> "app", slot |-> s]
    /\ usb = TRUE /\ job = NoFlash /\ told = "nothing"
    /\ fbounds \in FwBudgets
    /\ tried = {} /\ sacrificed = FALSE

-----------------------------------------------------------------------------
(* The boot selection *)

SlotOf(entry) == (entry.seq + 1) % 2

Selectable(data) == {n \in 1..2 : data[n] # None /\ data[n].st # "aborted"}

\* The sector with the highest sequence of those that may be booted
Chosen(data) ==
    CHOOSE n \in Selectable(data) : \A m \in Selectable(data) : data[m].seq <= data[n].seq

\* An image left pending by its trial boot is given up
Judged(data) == [n \in 1..2 |-> IF data[n] # None /\ data[n].st = "pending"
                                THEN [data[n] EXCEPT !.st = "aborted"] ELSE data[n]]

BootSlot(data) == IF Selectable(data) = {} THEN 0 ELSE SlotOf(data[Chosen(data)])

\* The ROM has power, is not held in download mode, and boots
Boots ==
    LET data == Judged(otadata)
        slot == BootSlot(data)
    IN  /\ otadata' = [n \in 1..2 |->
               IF n \in Selectable(data) /\ n = Chosen(data) /\ data[n].st = "new"
               THEN [data[n] EXCEPT !.st = "pending"] ELSE data[n]]
        /\ pad' = [at |-> "app", slot |-> slot]
        /\ usb' = FALSE
        /\ tried' = tried \cup {slots[slot]}

Running == slots[pad.slot]

\* The image on its trial boot is not confirmed yet
OnTrial == \E n \in Selectable(otadata) :
               otadata[n].st = "pending" /\ SlotOf(otadata[n]) = pad.slot

\* The host configures USB, and a trial image is confirmed
UsbUp ==
    /\ pad.at = "app" /\ ~usb /\ Running.kind \in Works
    /\ usb' = TRUE
    /\ otadata' = [n \in 1..2 |-> IF otadata[n] # None /\ otadata[n].st = "pending"
                                  THEN [otadata[n] EXCEPT !.st = "valid"] ELSE otadata[n]]
    /\ UNCHANGED <<slots, pad, job, told, fbounds, tried, sacrificed>>

\* Mutant: only a crash gives an image up
Hopeless == Running.kind \in {"crash", "partial"}

\* It crashes, or the host resets the bus and does not configure a trial image
NotConfirmed == Running.kind \in {"crash", "partial"} \/ (Running.kind = "mute" /\ OnTrial)

GivesUp ==
    /\ pad.at = "app" /\ ~usb /\ NotConfirmed
    /\ Boots
    /\ UNCHANGED <<slots, job, told, fbounds, sacrificed>>

Unplugged ==
    /\ pad.at # "off"
    /\ CountFw("cuts")
    /\ pad' = Off /\ usb' = FALSE
    /\ UNCHANGED <<slots, otadata, job, told, tried, sacrificed>>

Replugged ==
    /\ pad.at = "off"
    /\ Boots
    /\ UNCHANGED <<slots, job, told, fbounds, sacrificed>>

-----------------------------------------------------------------------------
(* What is written, and where *)

Erase(n) == [what |-> "entry", n |-> n, entry |-> None]
Entry(n, seq, st) == [what |-> "entry", n |-> n, entry |-> [seq |-> seq, st |-> st]]
Sector(n, seq, st) == <<Erase(n), Entry(n, seq, st)>>

App(slot, image) == <<[what |-> "app", slot |-> slot, image |-> Partial],
                      [what |-> "app", slot |-> slot, image |-> image]>>

\* Sequence numbers that map to each slot, the new one higher
NewSeq(old, new) == IF new + 1 > old + 1 THEN new + 1 ELSE new + 3

\* Mutant: the new entry is valid at once
OtadataNoTrial(old, new) == Sector(1, old + 1, "valid") \o Sector(2, NewSeq(old, new), "valid")

\* otadata_image: one trial boot, with the running slot to fall back to
OtadataImage(old, new) == Sector(1, old + 1, "valid") \o Sector(2, NewSeq(old, new), "new")

\* plan_app_update
PlanAppUpdate(image, running) ==
    IF running = None
    THEN [target |-> None, writes |-> App(0, image)]
    ELSE [target |-> 1 - running,
          writes |-> App(1 - running, image) \o OtadataImage(running, 1 - running)]

\* resolve_flash_set with --full: a fresh otadata, then the app
FullSet(image) == [target |-> None, writes |-> <<Erase(1), Erase(2)>> \o App(0, image)]

-----------------------------------------------------------------------------
(* The flashes *)

Connected == pad.at = "app" /\ usb
Images == [v : {2 + fbounds.flashes}, kind : ImageKinds]

\* The user is told, and the port is given back
Tell(outcome) == told' = outcome /\ job' = NoFlash

RunningPartition == IF Connected THEN pad.slot ELSE None

\* What the daemon knows when someone presses Update
Moments == [idle : BOOLEAN, storage : BOOLEAN, consent : BOOLEAN, ours : BOOLEAN,
            appTooOld : BOOLEAN]

\* Only a pad that runs from ota_0 is flashed by the daemon
IsOta0(partition) == partition = 0

Unless(ok, blocker) == IF ok THEN {} ELSE {blocker}

\* blockers, but for the sync that the update makes itself
Blockers(m) ==
    (IF ~Connected THEN {"not connected"} ELSE Unless(IsOta0(RunningPartition), "reflash"))
        \cup Unless(m.idle, "not idle") \cup Unless(m.storage, "no storage")
        \cup Unless(m.consent, "no consent")

\* firmware::plan; an image for another chip or board is not in the feed here
Plan(m, image) ==
    IF ~Connected THEN "unknown"
    ELSE IF image.v <= Running.v THEN "up to date"
    ELSE IF m.appTooOld THEN "needs newer app"
    ELSE IF ~m.idle THEN "defer"
    ELSE "available"

\* install, up to the sync and the download
Install(m, image) ==
    /\ job = NoFlash /\ "update" \in fbounds.kinds
    /\ CountFw("flashes")
    /\ IF m.ours /\ "reflash" \in Blockers(m) THEN Tell("reflash")
       ELSE IF ~m.ours \/ Blockers(m) # {} \/ Plan(m, image) # "available"
       THEN Tell("refused")
       ELSE /\ job' = [at |-> "staged", kind |-> "update", image |-> image]
            /\ told' = "nothing"
    /\ UNCHANGED <<slots, otadata, pad, usb, tried, sacrificed>>

\* The sync or the download failed, or it is no longer safe
Abandon ==
    /\ job.at = "staged"
    /\ Tell("refused")
    /\ UNCHANGED <<slots, otadata, pad, usb, fbounds, tried, sacrificed>>

\* still_safe_to_flash and pause_and_release
Release ==
    /\ job.at = "staged" /\ Connected
    /\ job' = [at |-> "enter", kind |-> "update", image |-> job.image, was |-> Running.v,
               plan |-> PlanAppUpdate(job.image, RunningPartition)]
    /\ UNCHANGED <<slots, otadata, pad, usb, told, fbounds, tried, sacrificed>>

\* opadctl flash and recover; without a daemon the running slot is not known
CliFlash(kind, image) ==
    /\ job = NoFlash /\ kind \in fbounds.kinds
    /\ CountFw("flashes")
    /\ job' = [at |-> "enter", kind |-> kind, image |-> image, was |-> 0, plan |->
               IF kind \in {"full", "recover"} THEN FullSet(image)
               ELSE PlanAppUpdate(image, IF kind = "cli" THEN RunningPartition ELSE None)]
    /\ told' = "nothing"
    /\ UNCHANGED <<slots, otadata, pad, usb, tried, sacrificed>>

\* recover catches the pad's boot, before its app takes USB over
Caught == job.kind = "recover" /\ pad.at = "off"

\* enter_bootloader, which asks the app; a pad in download mode stays there
Asked == job.kind # "recover" /\ (Connected \/ pad.at = "rom")

\* Without the first sector's entry, the first to be erased, the slot that is
\* written would be booted: the bootloader takes ota_0 when no entry is left
NoWayBack ==
    job.plan.target = None \/ BootSlot([otadata EXCEPT ![1] = None]) = job.plan.target

EnterBootloader ==
    /\ job.at = "enter" /\ (Asked \/ Caught)
    /\ pad' = Rom /\ usb' = FALSE
    /\ job' = [job EXCEPT !.at = "write"]
    /\ sacrificed' = (sacrificed \/ NoWayBack)
    /\ UNCHANGED <<slots, otadata, told, fbounds, tried>>

\* write_images, one erase or one write at a time
WriteImages ==
    /\ job.at = "write" /\ pad.at = "rom" /\ job.plan.writes # <<>>
    /\ LET w == Head(job.plan.writes)
       IN  IF w.what = "app"
           THEN slots' = [slots EXCEPT ![w.slot] = w.image] /\ UNCHANGED otadata
           ELSE otadata' = [otadata EXCEPT ![w.n] = w.entry] /\ UNCHANGED slots
    /\ job' = [job EXCEPT !.plan.writes = Tail(@)]
    /\ UNCHANGED <<pad, usb, told, fbounds, tried, sacrificed>>

\* reset_to_app: FORCE_DOWNLOAD_BOOT is cleared and the watchdog resets
ResetToApp ==
    /\ job.at = "write" /\ pad.at = "rom" /\ job.plan.writes = <<>>
    /\ Boots
    /\ job' = [job EXCEPT !.at = "back"]
    /\ UNCHANGED <<slots, told, fbounds, sacrificed>>

\* A step failed: the port vanished, espflash or the reset did not work
FlashFails ==
    /\ job.at \in {"enter", "write"}
    /\ Tell("failed")
    /\ UNCHANGED <<slots, otadata, pad, usb, fbounds, tried, sacrificed>>

\* Mutant: that the pad came back is enough
VerdictAnyBack == "installed"

Says(image) == IF image.kind = "other" THEN 0 ELSE image.v

\* Step 6 of flash_and_verify; report_slot_after_flash; print_flash_success
Verdict ==
    IF job.plan.target # None /\ pad.slot # job.plan.target THEN "rolled back"
    ELSE IF job.kind = "update" /\ Says(Running) # job.image.v THEN "wrong version"
    ELSE "installed"

\* The pad is back as the app
Verify ==
    /\ job.at = "back" /\ Connected
    /\ Tell(Verdict)
    /\ UNCHANGED <<slots, otadata, pad, usb, fbounds, tried, sacrificed>>

NoReconnect ==
    /\ job.at = "back"
    /\ Tell("no reconnect")
    /\ UNCHANGED <<slots, otadata, pad, usb, fbounds, tried, sacrificed>>

FwNext ==
    \/ UsbUp \/ GivesUp \/ Unplugged \/ Replugged
    \/ \E m \in Moments, image \in Images : Install(m, image)
    \/ Abandon \/ Release
    \/ \E kind \in {"cli", "bare", "full", "recover"}, image \in Images : CliFlash(kind, image)
    \/ EnterBootloader \/ WriteImages \/ ResetToApp \/ FlashFails
    \/ Verify \/ NoReconnect

\* The pad runs while it has power, and a host is there to configure it
FwFairness == WF_fvars(UsbUp) /\ WF_fvars(GivesUp)

FwSpec == FwInit /\ [][FwNext]_fvars /\ FwFairness

-----------------------------------------------------------------------------
(* Properties *)

\* Every variable stays in its range.
FwTypeOK ==
    /\ \A s \in Slots : slots[s].kind \in ImageKinds \cup {"partial"}
    /\ \A n \in 1..2 : otadata[n] = None \/
           otadata[n] \in [seq : 1..3, st : States]
    /\ pad \in [at : {"off", "rom", "app"}, slot : Slots]
    /\ job.at \in {"none", "staged", "enter", "write", "back"}

\* What the pad would run if it lost power now works, or is on its one trial
\* with an image that works behind it.
GetsBackUp(data) ==
    \/ slots[BootSlot(data)].kind \in Works
    \/ /\ Selectable(data) # {} /\ data[Chosen(data)].st = "new"
       /\ slots[BootSlot([data EXCEPT ![Chosen(data)].st = "aborted"])].kind \in Works

\* Wherever an update is cut, by the cable or by the image it wrote, the pad
\* gets back to an image that works by itself; only a flash without a fallback
\* may lose that: no running slot known, --full, or a pad that runs ota_1 after
\* a rollback, whose one entry is erased before it is written again.
AlwaysAKeyboard == ~sacrificed => GetsBackUp(Judged(otadata))

\* "Installed" is said of a pad that runs the new image, and "went back to the
\* previous one" of a pad that tried it and runs what it ran before.
VerdictIsTrue ==
    told # told' =>
        /\ told' = "installed" /\ job.plan.target # None => Running = job.image
        /\ told' = "rolled back" => job.image \in tried /\ Running # job.image

\* A pad with two slots takes one update after another from the daemon: it is
\* never said to need a full reflash for its partition layout.
NeverAskedToReflash == told # "reflash"

\* A broken image on trial: it is given up without anybody touching the pad.
Broken == OnTrial /\ pad.at = "app" /\ Running.kind \notin Works
===============================================================================
