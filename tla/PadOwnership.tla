----------------------------- MODULE PadOwnership -----------------------------
(***************************************************************************)
(* Several pads and one of the PCs they are used on: whose a pad is, what  *)
(* the user is asked about it, and which counters may go where.            *)
(*                                                                         *)
(* The daemon knows one pad at a time.  Its device info outlives a         *)
(* disconnect and so does a replacement prompt; a takeover prompt does     *)
(* not.  perform_sync takes the pad's id when it starts and talks to       *)
(* whichever pad is plugged in, as every send does.                        *)
(*                                                                         *)
(* Abstractions.  The daemon is in IDLE with a database, and sees a plug   *)
(* or an unplug at once (PadLink has that delay, CounterSync the counts    *)
(* that move meanwhile).  An IPC answer is one step; each of its frames    *)
(* may still be lost.  Clean-up of the history variables apart, `made`,    *)
(* `asker`, `granted` and `choice` are read by properties only.            *)
(***************************************************************************)
EXTENDS CounterRules, FiniteSets

CONSTANTS
    None,         \* no pad, no prompt, no row
    Pads,
    Few,          \* below it, a count looks like a new pad's (1000)
    OwnBudgets,   \* bounds: presses, plugs, lost frames, wipes
    SwapInSync,   \* whether pads may be exchanged while a sync is running
    StaleAnswer   \* whether a replacement may be answered for another pad

VARIABLES
    pads,         \* each pad's counters and the owner in its NVS
    plugged,      \* the pad on the cable
    info,         \* DaemonState.device_info
    conn,         \* device_connected
    mem,          \* counters
    pc,           \* pc_counters
    known,        \* RuntimeController.known_devices
    rows,         \* device_states
    takeover,     \* pending_takeover
    foreign,      \* foreign_pad
    replacement,  \* pending_replacement
    auto,         \* TakeOverIfPadIsAhead is to be run
    job,          \* the background sync
    obounds,      \* what OwnBudgets leaves
    made,         \* history: presses each pad ever counted
    asker,        \* history: the pad that raised the replacement prompt
    granted,      \* history: pads the user, asked about them, gave other counts
    choice        \* history: what was last chosen for each pad

prompts == <<takeover, foreign, replacement, auto>>
daemon  == <<info, conn, mem, pc, known>>
world   == <<pads, plugged, made>>
ghosts  == <<asker, granted, choice>>
ovars   == <<world, daemon, rows, prompts, job, obounds, ghosts>>

Owners == {"none", "us", "them"}
NoJob == [at |-> "none"]

CountOwn(what) == obounds[what] > 0 /\ obounds' = [obounds EXCEPT ![what] = @ - 1]

\* A frame to the pad that is plugged in: it arrives, or is lost
Frame(arrives) ==
    IF arrives THEN plugged # None /\ UNCHANGED obounds
    ELSE IF plugged = None THEN UNCHANGED obounds ELSE CountOwn("lost")

Counts(c) == [gen |-> c.gen, k |-> c.k]

\* Mutant: the counters of the pad before, still in memory
ReportedEarlier(p) == Counts(mem)

\* What a HelloAck brought, before anything is decided on it
Reported(p) == Counts(pads[p])

RecordOf(p, c) == [id |-> p, gen |-> c.gen, k |-> c.k]

\* pc_is_ahead: siding with the pad would lose a press
Ahead(record, k) == record # None /\ \E key \in Keys : record.k[key] > k[key]

\* Mutant: a foreign pad is only left alone while the question is open
GuardedByPrompts == takeover # None \/ replacement # None

\* DaemonState.pad_guard
Guarded == foreign \/ takeover # None \/ replacement # None

\* A wiped or new pad starts in generation 1
Blank == [gen |-> 1, k |-> Zero, owner |-> "none"]

OwnInit ==
    /\ known \in SUBSET Pads
    /\ pads \in [Pads -> [gen : {1, 2}, k : [Keys -> {0, 1}], owner : Owners]]
    /\ \A p \in Pads : p \in known => pads[p].gen = 1
    /\ rows = [p \in Pads |-> IF p \in known THEN Counts(pads[p]) ELSE None]
    /\ made = [p \in Pads |-> pads[p].k]
    /\ plugged = None /\ info = None /\ conn = FALSE
    /\ \/ known = {} /\ pc = None /\ mem = RecordOf(None, NoRecord)
       \/ \E p \in known : pc = RecordOf(p, rows[p]) /\ mem = pc
    /\ takeover = None /\ foreign = FALSE /\ replacement = None /\ auto = FALSE
    /\ job = NoJob /\ obounds \in OwnBudgets
    /\ asker = None /\ granted = {}
    /\ choice = [p \in Pads |-> NoRecord]

-----------------------------------------------------------------------------
(* The pads *)

Press(p, key) ==
    /\ CountOwn("presses")
    /\ pads' = [pads EXCEPT ![p].k[key] = @ + 1]
    /\ made' = [made EXCEPT ![p][key] = @ + 1]
    /\ UNCHANGED <<plugged, daemon, rows, prompts, job, ghosts>>

\* espflash erase-flash, away from this PC
Wipe(p) ==
    /\ plugged # p
    /\ CountOwn("wipes")
    /\ pads' = [pads EXCEPT ![p] = Blank]
    /\ UNCHANGED <<plugged, made, daemon, rows, prompts, job, ghosts>>

\* Another PC claims a pad without an owner, or takes this PC's over with its
\* counters, and may reset one
TakenElsewhere(p, gens) ==
    /\ plugged # p
    /\ IF gens = 0 THEN pads[p].owner = "none" ELSE pads[p].owner = "us"
    /\ CountOwn("wipes")
    /\ choice' = [choice EXCEPT ![p] = NoRecord]
    /\ pads' = [pads EXCEPT ![p].owner = "them", ![p].gen = @ + gens]
    /\ UNCHANGED <<plugged, made, daemon, rows, prompts, job, asker, granted>>

\* The pad accepts a CounterSync
Takes(p, target) == [pads EXCEPT ![p].gen = target.gen, ![p].k = target.k]

Unplug ==
    /\ plugged # None /\ ~auto
    /\ SwapInSync \/ job = NoJob
    /\ plugged' = None
    /\ conn' = FALSE /\ takeover' = None /\ foreign' = FALSE
    /\ UNCHANGED <<pads, made, info, mem, pc, known, rows, replacement, auto, job,
                   obounds, ghosts>>

-----------------------------------------------------------------------------
(* DeviceConnected: whose is it, do we know it, may it be synced *)

\* A pad we do not know, with hardly a press, while this PC holds more
LooksNew(p) ==
    /\ known # {}
    /\ pads[p].gen <= 1 /\ \A key \in Keys : pads[p].k[key] < Few
    /\ Ahead(pc, pads[p].k)

Connect(p, claimed) ==
    /\ plugged = None
    /\ SwapInSync \/ job = NoJob
    /\ CountOwn("plugs")
    /\ plugged' = p /\ conn' = TRUE /\ info' = p
    /\ mem' = RecordOf(p, pads[p])
    /\ foreign' = (pads[p].owner = "them") /\ auto' = foreign'
    /\ takeover' = IF foreign' THEN RecordOf(p, pads[p]) ELSE None
    /\ pads' = IF pads[p].owner = "none" /\ claimed
                  THEN [pads EXCEPT ![p].owner = "us"] ELSE pads
    /\ IF p \in known
          THEN UNCHANGED <<known, rows, replacement, asker>>
          ELSE IF LooksNew(p)
          THEN /\ replacement' \in known /\ asker' = p
               /\ UNCHANGED <<known, rows>>
          ELSE /\ known' = known \cup {p}
               /\ rows' = [rows EXCEPT ![p] = Reported(p)]
               /\ UNCHANGED <<replacement, asker>>
    /\ job' = IF job = NoJob /\ ~foreign' /\ replacement' = None THEN [at |-> "due"] ELSE job
    /\ UNCHANGED <<made, pc, granted, choice>>

\* A Status event: counts only, in whatever generation the daemon had
Status ==
    /\ conn /\ mem.k # pads[plugged].k
    /\ mem' = [mem EXCEPT !.k = pads[plugged].k]
    /\ UNCHANGED <<world, info, conn, pc, known, rows, prompts, job, obounds, ghosts>>

\* counters_changed: the counts moved since the last sync
Moved == IF pc = None THEN TRUE ELSE pc.k # mem.k

PeriodicSync ==
    /\ conn /\ ~Guarded /\ job = NoJob
    /\ Moved
    /\ job' = [at |-> "due"]
    /\ UNCHANGED <<world, daemon, rows, prompts, obounds, ghosts>>

-----------------------------------------------------------------------------
(* perform_sync *)

\* The guard and the snapshot: whose pad it is is not looked at again
SyncStart ==
    /\ job.at = "due"
    /\ job' = IF Guarded \/ ~conn THEN NoJob
              ELSE [at |-> "load", pad |-> info, mem |-> Counts(mem)]
    /\ UNCHANGED <<world, daemon, rows, prompts, obounds, ghosts>>

\* Whichever pad is plugged in says IDLE; the row is that of the snapshot
SyncLoad ==
    /\ job.at = "load" /\ plugged # None
    /\ LET row == IF rows[job.pad] = None THEN [gen |-> job.mem.gen, k |-> Zero]
                  ELSE rows[job.pad]
           target == Reconcile(row, job.mem)
       IN  /\ rows' = [rows EXCEPT ![job.pad] = target]
           /\ job' = [at |-> "send", pad |-> job.pad, target |-> target]
    /\ UNCHANGED <<world, daemon, prompts, obounds, ghosts>>

SyncGivesUp ==
    /\ job.at \in {"load", "send"} /\ plugged = None
    /\ job' = NoJob
    /\ UNCHANGED <<world, daemon, rows, prompts, obounds, ghosts>>

\* The pad accepts, or refuses and says what it has; a lost frame is sent again
SyncSend(arrives) ==
    /\ job.at = "send" /\ plugged # None
    /\ Frame(arrives)
    /\ IF ~arrives
          THEN UNCHANGED <<pads, rows, job, mem, pc, known>>
          ELSE IF Acceptable(pads[plugged], job.target, FALSE)
          THEN /\ pads' = Takes(plugged, job.target)
               /\ rows' = [rows EXCEPT ![job.pad] = job.target]
               /\ mem' = RecordOf(job.pad, job.target) /\ pc' = mem'
               /\ known' = known \cup {info}
               /\ job' = NoJob
          ELSE LET target == Reconcile(job.target, Counts(pads[plugged]))
               IN  /\ rows' = [rows EXCEPT ![job.pad] = target]
                   /\ job' = [job EXCEPT !.target = target]
                   /\ UNCHANGED <<pads, mem, pc, known>>
    /\ UNCHANGED <<plugged, made, info, conn, prompts, ghosts>>

-----------------------------------------------------------------------------
(* The two questions *)

\* Mutant: the next generation of what this PC stored
NextGenOfRow(row) == (IF row = None THEN 0 ELSE row.gen) + 1

\* Above everything both sides had
NextGen(row) == Higher(IF row = None THEN 0 ELSE row.gen, mem.gen) + 1

\* ResolveTakeover: the claim, the row, the counters
TakeOver(keep, claimed, arrives) ==
    LET row == rows[info]
        target == [gen |-> NextGen(row),
                   k |-> IF keep THEN mem.k ELSE IF row = None THEN Zero ELSE row.k]
        counted == IF arrives THEN Takes(info, target) ELSE pads
    IN  /\ Frame(arrives /\ claimed)
        /\ rows' = [rows EXCEPT ![info] = target]
        /\ pads' = IF claimed THEN [counted EXCEPT ![info].owner = "us"] ELSE counted
        /\ foreign' = FALSE
        /\ mem' = RecordOf(info, target) /\ pc' = mem'
        /\ granted' = granted \cup {info}
        /\ choice' = IF info \in known THEN [choice EXCEPT ![info] = target] ELSE choice

LeaveAlone == UNCHANGED <<pads, rows, foreign, mem, pc, obounds, granted, choice>>

ResolveTakeover(takes, keep, claimed, arrives) ==
    /\ takeover # None
    /\ takeover' = None
    /\ IF takes THEN TakeOver(keep, claimed, arrives) ELSE LeaveAlone
    /\ UNCHANGED <<plugged, made, info, conn, known, replacement, auto, job, asker>>

\* take_over_if_pad_is_ahead: no question when nothing can be lost
AutoTakeover(claimed, arrives) ==
    /\ auto
    /\ auto' = FALSE
    /\ IF takeover = None THEN UNCHANGED takeover /\ LeaveAlone
       ELSE LET ours == IF rows[info] # None THEN rows[info]
                        ELSE IF pc # None /\ pc.id = info THEN pc ELSE None
            IN  IF Ahead(ours, takeover.k) THEN UNCHANGED takeover /\ LeaveAlone
                ELSE takeover' = None /\ TakeOver(TRUE, claimed, arrives)
    /\ UNCHANGED <<plugged, made, info, conn, known, replacement, job, asker>>

\* ResolveReplacement, for whichever pad the daemon last knew
ResolveReplacement(restore, arrives) ==
    /\ replacement # None
    /\ StaleAnswer \/ info = asker
    /\ replacement' = None
    /\ known' = known \cup {info}
    /\ Frame(arrives)
    /\ IF restore
          THEN LET old == rows[replacement]
                   target == [gen |-> Higher(old.gen, mem.gen) + 1, k |-> old.k]
               IN  /\ rows' = [rows EXCEPT ![info] = target]
                   /\ mem' = RecordOf(info, target)
                   /\ pads' = IF arrives THEN Takes(plugged, target) ELSE pads
                   /\ granted' = IF info = asker THEN granted \cup {info} ELSE granted
                   /\ choice' = [choice EXCEPT ![info] = target]
          ELSE /\ arrives <=> plugged # None
               /\ rows' = [rows EXCEPT ![info] = Counts(mem)]
               /\ choice' = [choice EXCEPT ![info] = NoRecord]
               /\ UNCHANGED <<mem, pads, granted>>
    /\ asker' = None
    /\ UNCHANGED <<plugged, made, info, conn, pc, takeover, foreign, auto, job>>

OwnNext ==
    \/ \E p \in Pads, key \in Keys : Press(p, key)
    \/ \E p \in Pads : Wipe(p)
    \/ \E p \in Pads, gens \in 0 .. 2 : TakenElsewhere(p, gens)
    \/ Unplug
    \/ \E p \in Pads, claimed \in BOOLEAN : Connect(p, claimed)
    \/ Status
    \/ PeriodicSync
    \/ SyncStart \/ SyncLoad \/ SyncGivesUp
    \/ \E arrives \in BOOLEAN : SyncSend(arrives)
    \/ \E takes, keep, claimed, arrives \in BOOLEAN :
           ResolveTakeover(takes, keep, claimed, arrives)
    \/ \E claimed, arrives \in BOOLEAN : AutoTakeover(claimed, arrives)
    \/ \E restore, arrives \in BOOLEAN : ResolveReplacement(restore, arrives)

OwnSpec == OwnInit /\ [][OwnNext]_ovars

-----------------------------------------------------------------------------
(* Properties *)

\* What the constants have to be, for pads that are not exchanged within a sync
\* or under a prompt
OwnConstants ==
    /\ None \notin Pads /\ None \notin Records
    /\ ~SwapInSync /\ ~StaleAnswer

Jobs ==
    [at : {"none", "due"}]
    \cup [at : {"load"}, pad : Pads, mem : Records]
    \cup [at : {"send"}, pad : Pads, target : Records]

\* Every variable stays in its range.
OwnTypeOK ==
    /\ pads \in [Pads -> [gen : Nat, k : [Keys -> Nat], owner : Owners]]
    /\ {plugged, info, replacement} \subseteq Pads \cup {None}
    /\ \A p \in Pads : rows[p] = None \/ rows[p] \in Records
    /\ known \subseteq Pads /\ job \in Jobs
    /\ conn => plugged = info /\ info # None

\* No pad and no row holds presses its pad never counted, unless the user was
\* asked about that pad and chose another's or this PC's counts: whatever order
\* pads are exchanged, wiped, taken over and synced in.
OwnCountsOnly ==
    \A p \in Pads \ granted : \A key \in Keys :
        /\ pads[p].k[key] <= made[p][key]
        /\ rows[p] # None => rows[p].k[key] <= made[p][key]

\* The counters and the owner of a pad that names another install change by its
\* own presses only until the user, or the rule for a pad that is ahead, took it over.
ForeignLeftAlone ==
    \A p \in Pads : pads[p].owner = "them" /\ pads'[p] # Blank /\ p \notin granted' =>
        /\ pads'[p].owner = "them"
        /\ pads'[p].gen = pads[p].gen
        /\ \A key \in Keys :
               pads'[p].k[key] - pads[p].k[key] = made'[p][key] - made[p][key]

\* What was chosen for a known pad stays until another PC takes it: no later
\* sync goes back to the counters the choice replaced, though the claim or the
\* CounterSync that carried it was lost.  A pad taken over while its replacement
\* prompt is open is not known yet: when it comes back, its counters are saved
\* over the choice.
ChoiceHolds ==
    \A p \in Pads : choice[p] # NoRecord =>
        rows[p].gen = choice[p].gen /\ AtLeast(rows[p], choice[p])

\* A pad and its row are its own, and what the user chose for it stays.
PadCountsOnlyItsOwn == OwnCountsOnly /\ ChoiceHolds

ForeignPadsLeftAlone == [][ForeignLeftAlone]_ovars
===============================================================================
