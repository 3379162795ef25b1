--------------------------- MODULE PadOwnershipProofs ---------------------------
(***************************************************************************)
(* A pad keeps its own counters, the user's choice stands, and a pad of    *)
(* another install is left alone, for any number of pads, plugs, wipes,    *)
(* lost frames and answers.                                                *)
(***************************************************************************)
EXTENDS PadOwnership, TLAPS

-----------------------------------------------------------------------------
(* The inductive invariant *)

PadRecords == [gen : Nat, k : [Keys -> Nat], owner : Owners]
HostRecords == [id : Pads \cup {None}, gen : Nat, k : [Keys -> Nat]]
MaybePad == Pads \cup {None}

PadsOK == /\ pads \in [Pads -> PadRecords] /\ made \in [Pads -> [Keys -> Nat]]
          /\ plugged \in MaybePad
HostOK == /\ info \in MaybePad /\ conn \in BOOLEAN /\ mem \in HostRecords
          /\ known \subseteq Pads /\ rows \in [Pads -> Records \cup {None}]
          /\ choice \in [Pads -> Records]
PromptsOK == foreign \in BOOLEAN /\ replacement \in MaybePad /\ asker \in MaybePad
Types == PadsOK /\ HostOK /\ PromptsOK /\ job \in Jobs

\* The daemon's device info is the plugged pad's; who is asked about is there
Linked ==
    /\ conn <=> plugged # None
    /\ conn => plugged = info
    /\ takeover # None \/ foreign => conn
    /\ replacement # None => asker # None /\ replacement \in known
    /\ \A p \in known : rows[p] # None

\* A sync that runs is about the plugged pad, with nothing to ask about it
SyncOK ==
    /\ job.at \in {"load", "send"} => conn /\ job.pad = info /\ ~Guarded
    /\ job.at = "send" => rows[job.pad] = job.target

\* Counts the pad counted, or the user chose
Fits(p, k) == p \notin granted => \A key \in Keys : k[key] <= made[p][key]

CountsFit ==
    /\ \A p \in Pads : Fits(p, pads[p].k) /\ (rows[p] # None => Fits(p, rows[p].k))
    /\ info # None => Fits(info, mem.k)
    /\ job.at = "load" => Fits(job.pad, job.mem.k)

\* A plugged pad that names another install is guarded until it is taken over
ForeignKnown ==
    plugged # None /\ pads[plugged].owner = "them" => foreign \/ plugged \in granted

\* The daemon has at least the pad's generation, but for a wipe
MemFollows ==
    info # None =>
        /\ plugged = info => pads[info].gen <= mem.gen
        /\ pads[info].owner # "them" => pads[info].gen <= mem.gen + 1

\* What was chosen is in the row, and no pad this PC may sync is newer
Chosen(p) ==
    /\ p \in known /\ choice[p].gen >= 1
    /\ rows[p].gen = choice[p].gen /\ AtLeast(rows[p], choice[p])
    /\ pads[p].owner # "them" => pads[p].gen <= choice[p].gen
    /\ conn /\ info = p /\ ~foreign => mem.gen <= choice[p].gen
    /\ job.at = "load" /\ job.pad = p => job.mem.gen <= choice[p].gen
ChoiceKept == \A p \in Pads : choice[p] # NoRecord => Chosen(p)

IInv == Types /\ Linked /\ SyncOK /\ CountsFit /\ ForeignKnown /\ MemFollows /\ ChoiceKept

-----------------------------------------------------------------------------
(* Records *)

\* reconcile_counters chooses among what it is given, and stays in the
\* generation of a record that the other does not supersede.
LEMMA ReconcileIs ==
    ASSUME NEW a \in Records, NEW b \in Records
    PROVE  /\ Reconcile(a, b) \in Records
           /\ \A key \in Keys : \/ Reconcile(a, b).k[key] = a.k[key]
                                \/ Reconcile(a, b).k[key] = b.k[key]
           /\ b.gen <= a.gen => /\ Reconcile(a, b).gen = a.gen
                                /\ \A key \in Keys : Reconcile(a, b).k[key] >= a.k[key]
BY DEF Reconcile, Records, Higher

\* A CounterSync that is accepted changes one pad's counters, never its owner.
LEMMA TakesIs ==
    ASSUME PadsOK, NEW p \in Pads, NEW t \in Records
    PROVE  /\ Takes(p, t) \in [Pads -> PadRecords]
           /\ Takes(p, t)[p] = [gen |-> t.gen, k |-> t.k, owner |-> pads[p].owner]
           /\ \A q \in Pads \ {p} : Takes(p, t)[q] = pads[q]
BY DEF Takes, PadsOK, PadRecords, Records

\* ... nor its owner, in whatever it accepts.
LEMMA OwnerStays ==
    ASSUME PadsOK, NEW p \in Pads, NEW t \in Records, NEW arrives \in BOOLEAN
    PROVE  [IF arrives THEN Takes(p, t) ELSE pads EXCEPT ![p].owner = pads[p].owner]
               = IF arrives THEN Takes(p, t) ELSE pads
<1>1. CASE arrives
    <2>. DEFINE c == Takes(p, t)
    <2>1. c \in [Pads -> PadRecords] /\ c[p] \in PadRecords /\ c[p].owner = pads[p].owner
        <3>1. /\ c \in [Pads -> PadRecords]
              /\ c[p] = [gen |-> t.gen, k |-> t.k, owner |-> pads[p].owner]
            BY TakesIs
        <3>. QED BY <3>1
    <2>. HIDE DEF c
    <2>2. [c EXCEPT ![p].owner = pads[p].owner] = c
        BY <2>1 DEF PadRecords
    <2>. QED BY <1>1, <2>2 DEF c
<1>2. CASE ~arrives
    <2>1. pads \in [Pads -> PadRecords] /\ pads[p] \in PadRecords
        BY DEF PadsOK
    <2>2. [pads EXCEPT ![p].owner = pads[p].owner] = pads
        BY <2>1 DEF PadRecords
    <2>. QED BY <1>2, <2>2
<1>. QED BY <1>1, <1>2

\* What the daemon has in memory, or a pad has, is a record.
LEMMA CountsAre ==
    /\ \A c \in HostRecords : Counts(c) \in Records
    /\ \A c \in PadRecords : Counts(c) \in Records
    /\ \A p \in MaybePad, c \in Records : RecordOf(p, c) \in HostRecords
    /\ \A p \in MaybePad, c \in PadRecords : RecordOf(p, c) \in HostRecords
BY DEF HostRecords, PadRecords, Records, Counts, RecordOf, MaybePad

-----------------------------------------------------------------------------
(* Each step *)

\* The user's pads are exchanged between syncs and answers only.
Apart == ~SwapInSync /\ ~StaleAnswer

\* The key of some pad is pressed.
LEMMA PressStep ==
    ASSUME IInv, NEW p \in Pads, NEW key \in Keys, Press(p, key)
    PROVE  IInv'
<1>0. Types /\ Linked /\ SyncOK /\ CountsFit /\ ForeignKnown /\ MemFollows /\ ChoiceKept
    BY DEF IInv
<1>1. /\ UNCHANGED <<plugged, daemon, rows, prompts, job, ghosts>>
      /\ pads' \in [Pads -> PadRecords] /\ made' \in [Pads -> [Keys -> Nat]]
    <2>. DEFINE r == [pads[p] EXCEPT !.k[key] = @ + 1]
    <2>1. r \in PadRecords
        <3>1. pads[p] \in PadRecords
            BY <1>0 DEF Types, PadsOK
        <3>2. [pads[p].k EXCEPT ![key] = @ + 1] \in [Keys -> Nat]
            BY <3>1 DEF PadRecords
        <3>3. r = [pads[p] EXCEPT !.k = [pads[p].k EXCEPT ![key] = @ + 1]]
            OBVIOUS
        <3>. QED BY <3>1, <3>2, <3>3 DEF PadRecords
    <2>2. pads' = [pads EXCEPT ![p] = r]
        BY DEF Press
    <2>. HIDE DEF r
    <2>3. pads' \in [Pads -> PadRecords]
        BY <1>0, <2>1, <2>2 DEF Types, PadsOK
    <2>4. made' \in [Pads -> [Keys -> Nat]]
        BY <1>0 DEF Press, Types, PadsOK
    <2>. QED BY <2>3, <2>4 DEF Press
<1>2. \A q \in Pads : /\ pads'[q].gen = pads[q].gen /\ pads'[q].owner = pads[q].owner
                      /\ \A j \in Keys : /\ made'[q][j] >= made[q][j]
                                         /\ pads'[q].k[j] - pads[q].k[j] = made'[q][j] - made[q][j]
    BY <1>0 DEF Press, Types, PadsOK, PadRecords
<1>3. Types'
    BY <1>0, <1>1 DEF Types, PadsOK, HostOK, PromptsOK, daemon, prompts, ghosts
<1>4. Linked' /\ SyncOK'
    BY <1>0, <1>1 DEF Linked, SyncOK, Guarded, daemon, prompts, ghosts
<1>5. CountsFit'
    <2>1. ASSUME NEW q \in Pads, NEW k \in [Keys -> Nat], Fits(q, k) PROVE Fits(q, k)'
        BY <1>0, <1>1, <1>2, <2>1 DEF Fits, Types, PadsOK, ghosts
    <2>2. ASSUME NEW q \in Pads PROVE Fits(q, pads[q].k)'
        BY <1>0, <1>1, <1>2 DEF CountsFit, Fits, Types, PadsOK, PadRecords, ghosts
    <2>3. ASSUME NEW q \in Pads, rows[q] # None PROVE Fits(q, rows[q].k)'
        BY <1>0, <1>1, <2>1, <2>3 DEF CountsFit, Types, HostOK, Records
    <2>4. ASSUME info # None PROVE Fits(info, mem.k)'
        BY <1>0, <1>1, <2>1, <2>4 DEF CountsFit, Types, HostOK, HostRecords, MaybePad, daemon
    <2>5. ASSUME job.at = "load" PROVE Fits(job.pad, job.mem.k)'
        BY <1>0, <1>1, <2>1, <2>5 DEF CountsFit, Types, Jobs, Records
    <2>. QED BY <1>1, <2>2, <2>3, <2>4, <2>5 DEF CountsFit, daemon
<1>6. ForeignKnown' /\ MemFollows'
    BY <1>0, <1>1, <1>2 DEF ForeignKnown, MemFollows, Types, PadsOK, HostOK, MaybePad, daemon,
                            prompts, ghosts
<1>7. ChoiceKept'
    BY <1>0, <1>1, <1>2 DEF ChoiceKept, Chosen, daemon, prompts, ghosts
<1>. QED BY <1>3, <1>4, <1>5, <1>6, <1>7 DEF IInv

\* A pad is wiped away from this PC: zeros, in the first generation.
LEMMA WipeStep ==
    ASSUME IInv, NEW p \in Pads, Wipe(p)
    PROVE  IInv'
<1>0. Types /\ Linked /\ SyncOK /\ CountsFit /\ ForeignKnown /\ MemFollows /\ ChoiceKept
    BY DEF IInv
<1>1. /\ UNCHANGED <<plugged, made, daemon, rows, prompts, job, ghosts>>
      /\ plugged # p
      /\ pads' \in [Pads -> PadRecords]
      /\ pads'[p] = [gen |-> 1, k |-> Zero, owner |-> "none"]
      /\ \A q \in Pads \ {p} : pads'[q] = pads[q]
    BY <1>0 DEF Wipe, Blank, Zero, Owners, Types, PadsOK, PadRecords
<1>3. Types'
    BY <1>0, <1>1 DEF Types, PadsOK, HostOK, PromptsOK, daemon, prompts, ghosts
<1>4. Linked' /\ SyncOK'
    BY <1>0, <1>1 DEF Linked, SyncOK, Guarded, daemon, prompts, ghosts
<1>5. CountsFit'
    <2>1. Fits(p, pads[p].k)'
        BY <1>0, <1>1 DEF Fits, Zero, Types, PadsOK
    <2>. QED BY <1>0, <1>1, <2>1 DEF CountsFit, Fits, daemon, ghosts
<1>6. ForeignKnown' /\ MemFollows'
    BY <1>0, <1>1 DEF ForeignKnown, MemFollows, Types, PadsOK, HostOK, HostRecords, MaybePad,
                      daemon, prompts, ghosts
<1>7. ChoiceKept'
    BY <1>0, <1>1 DEF ChoiceKept, Chosen, daemon, prompts, ghosts
<1>. QED BY <1>3, <1>4, <1>5, <1>6, <1>7 DEF IInv

\* Another PC claims a pad or takes it over, which ends what was chosen here.
LEMMA TakenElsewhereStep ==
    ASSUME IInv, NEW p \in Pads, NEW gens \in 0 .. 2, TakenElsewhere(p, gens)
    PROVE  IInv'
<1>0. Types /\ Linked /\ SyncOK /\ CountsFit /\ ForeignKnown /\ MemFollows /\ ChoiceKept
    BY DEF IInv
<1>1. /\ UNCHANGED <<plugged, made, daemon, rows, prompts, job, asker, granted>>
      /\ plugged # p
      /\ pads' \in [Pads -> PadRecords]
      /\ pads'[p].owner = "them" /\ pads'[p].k = pads[p].k
      /\ \A q \in Pads \ {p} : pads'[q] = pads[q]
      /\ choice' \in [Pads -> Records] /\ choice'[p] = NoRecord
      /\ \A q \in Pads \ {p} : choice'[q] = choice[q]
    <2>. DEFINE r == [pads[p] EXCEPT !.owner = "them", !.gen = @ + gens]
    <2>1. NoRecord \in Records /\ r \in PadRecords /\ r.owner = "them" /\ r.k = pads[p].k
        <3>1. pads[p] \in PadRecords
            BY <1>0 DEF Types, PadsOK
        <3>2. NoRecord \in Records
            BY DEF NoRecord, Zero, Records
        <3>3. pads[p].gen + gens \in Nat /\ "them" \in Owners
            BY <3>1 DEF PadRecords, Owners
        <3>4. r \in PadRecords
            BY <3>1, <3>3 DEF PadRecords
        <3>5. r.owner = "them" /\ r.k = pads[p].k
            BY <3>1 DEF PadRecords
        <3>. QED BY <3>2, <3>4, <3>5
    <2>2. pads' = [pads EXCEPT ![p] = r]
        BY <1>0 DEF TakenElsewhere, Types, PadsOK, PadRecords
    <2>. HIDE DEF r
    <2>3. /\ pads' \in [Pads -> PadRecords]
          /\ pads'[p].owner = "them" /\ pads'[p].k = pads[p].k
          /\ \A q \in Pads \ {p} : pads'[q] = pads[q]
        BY <1>0, <2>1, <2>2 DEF Types, PadsOK
    <2>4. /\ choice' \in [Pads -> Records] /\ choice'[p] = NoRecord
          /\ \A q \in Pads \ {p} : choice'[q] = choice[q]
        BY <1>0, <2>1 DEF TakenElsewhere, Types, HostOK
    <2>. QED BY <2>3, <2>4 DEF TakenElsewhere
<1>3. Types'
    BY <1>0, <1>1 DEF Types, PadsOK, HostOK, PromptsOK, daemon, prompts
<1>4. Linked' /\ SyncOK'
    BY <1>0, <1>1 DEF Linked, SyncOK, Guarded, daemon, prompts
<1>5. CountsFit'
    <2>1. \A q \in Pads : pads'[q].k = pads[q].k
        BY <1>1
    <2>. QED BY <1>0, <1>1, <2>1 DEF CountsFit, Fits, daemon
<1>6. ForeignKnown' /\ MemFollows'
    BY <1>0, <1>1 DEF ForeignKnown, MemFollows, Types, PadsOK, HostOK, HostRecords, MaybePad,
                      daemon, prompts
<1>7. ChoiceKept'
    BY <1>0, <1>1 DEF ChoiceKept, Chosen, daemon, prompts
<1>. QED BY <1>3, <1>4, <1>5, <1>6, <1>7 DEF IInv

\* A pad goes, when no sync runs.
LEMMA UnplugStep ==
    ASSUME IInv, Apart, Unplug
    PROVE  IInv'
<1>0. Types /\ Linked /\ SyncOK /\ CountsFit /\ ForeignKnown /\ MemFollows /\ ChoiceKept
    BY DEF IInv
<1>1. /\ UNCHANGED <<pads, made, info, mem, known, rows, replacement, job, ghosts>>
      /\ job.at = "none"
      /\ plugged' = None /\ conn' = FALSE /\ takeover' = None /\ foreign' = FALSE
    BY DEF Unplug, Apart, NoJob
<1>3. Types'
    BY <1>0, <1>1 DEF Types, PadsOK, HostOK, PromptsOK, MaybePad, ghosts
<1>4. Linked' /\ SyncOK'
    BY <1>0, <1>1 DEF Linked, SyncOK, ghosts
<1>5. CountsFit'
    BY <1>0, <1>1 DEF CountsFit, Fits, ghosts
<1>6. ForeignKnown' /\ MemFollows'
    BY <1>0, <1>1 DEF ForeignKnown, MemFollows
<1>7. ChoiceKept'
    BY <1>0, <1>1 DEF ChoiceKept, Chosen, ghosts
<1>. QED BY <1>3, <1>4, <1>5, <1>6, <1>7 DEF IInv

\* A pad comes, and a new one's counters become its row.
LEMMA ConnectStep ==
    ASSUME IInv, None \notin Pads, None \notin Records, Apart,
           NEW p \in Pads, NEW claimed \in BOOLEAN, Connect(p, claimed)
    PROVE  IInv'
<1>0. Types /\ Linked /\ SyncOK /\ CountsFit /\ ForeignKnown /\ MemFollows /\ ChoiceKept
    BY DEF IInv
<1>1. /\ UNCHANGED <<made, granted, choice>>
      /\ job.at = "none" /\ job' \in Jobs /\ job'.at \in {"none", "due"}
      /\ plugged' = p /\ conn' = TRUE /\ info' = p
      /\ mem' = RecordOf(p, pads[p])
      /\ foreign' = (pads[p].owner = "them")
    BY <1>0 DEF Connect, Apart, NoJob, Jobs, Types
<1>2. /\ pads' \in [Pads -> PadRecords]
      /\ \A q \in Pads : /\ pads'[q].k = pads[q].k /\ pads'[q].gen = pads[q].gen
                         /\ pads'[q].owner = "them" <=> pads[q].owner = "them"
    BY <1>0 DEF Connect, Owners, Types, PadsOK, PadRecords
<1>3. \/ UNCHANGED <<known, rows>>
         /\ (UNCHANGED <<replacement, asker>> \/ (replacement' \in known /\ asker' = p))
      \/ /\ p \notin known /\ known' = known \cup {p}
         /\ rows' = [rows EXCEPT ![p] = Reported(p)]
         /\ UNCHANGED <<replacement, asker>>
    BY DEF Connect
<1>4. pads[p] \in PadRecords /\ Reported(p) \in Records /\ Reported(p) # None
    BY <1>0, CountsAre DEF Reported, Types, PadsOK
<1>5. mem' \in HostRecords /\ mem'.gen = pads[p].gen /\ mem'.k = pads[p].k
    BY <1>1, <1>4, CountsAre DEF RecordOf, MaybePad
<1>6. /\ rows' \in [Pads -> Records \cup {None}] /\ known' \subseteq Pads /\ known \subseteq known'
      /\ \A q \in Pads : \/ rows'[q] = rows[q] /\ (q \in known' => q \in known)
                         \/ q = p /\ p \notin known /\ rows'[q] = Reported(p)
    BY <1>0, <1>3, <1>4 DEF Types, HostOK
<1>7. Types'
    <2>1. PadsOK' /\ HostOK'
        BY <1>0, <1>1, <1>2, <1>5, <1>6 DEF Types, PadsOK, HostOK, MaybePad
    <2>2. PromptsOK'
        BY <1>0, <1>1, <1>3 DEF Types, HostOK, PromptsOK, MaybePad
    <2>. QED BY <1>1, <2>1, <2>2 DEF Types
<1>8. Linked' /\ SyncOK'
    <2>1. replacement' # None => asker' # None /\ replacement' \in known'
        BY <1>0, <1>3, <1>6 DEF Linked
    <2>2. \A q \in known' : rows'[q] # None
        BY <1>0, <1>4, <1>6 DEF Linked
    <2>. QED BY <1>1, <2>1, <2>2 DEF Linked, SyncOK
<1>9. CountsFit'
    <2>1. \A q \in Pads, k \in [Keys -> Nat] : Fits(q, k)' <=> Fits(q, k)
        BY <1>1 DEF Fits
    <2>2. \A q \in Pads : Fits(q, pads[q].k)
        BY <1>0 DEF CountsFit
    <2>3. ASSUME NEW q \in Pads, rows'[q] # None PROVE Fits(q, rows[q].k)'
        BY <1>0, <1>1, <1>6, <2>2, <2>3 DEF CountsFit, Fits, Reported, Counts
    <2>. QED BY <1>1, <1>2, <1>5, <2>2, <2>3 DEF CountsFit, Fits
<1>10. ForeignKnown' /\ MemFollows'
    <2>1. pads'[p].owner = "them" <=> pads[p].owner = "them"
        BY <1>2
    <2>2. pads'[p].gen = mem'.gen /\ mem'.gen \in Nat
        <3>1. pads'[p].gen = pads[p].gen
            BY <1>2
        <3>2. mem'.gen = pads[p].gen
            BY <1>5
        <3>3. pads[p].gen \in Nat
            BY <1>4 DEF PadRecords
        <3>. QED BY <3>1, <3>2, <3>3
    <2>3. ForeignKnown'
        BY <1>1, <2>1 DEF ForeignKnown
    <2>4. MemFollows'
        <3>1. info' = p /\ pads'[p].gen <= mem'.gen /\ pads'[p].gen <= mem'.gen + 1
            BY <1>1, <2>2
        <3>. QED BY <3>1 DEF MemFollows
    <2>. QED BY <2>3, <2>4
<1>11. ChoiceKept'
    <2>. SUFFICES ASSUME NEW q \in Pads, choice[q] # NoRecord PROVE Chosen(q)'
        BY <1>1 DEF ChoiceKept
    <2>1. Chosen(q) /\ rows'[q] = rows[q]
        BY <1>0, <1>6 DEF ChoiceKept, Chosen
    <2>. QED BY <1>1, <1>2, <1>5, <1>6, <2>1 DEF Chosen
<1>. QED BY <1>7, <1>8, <1>9, <1>10, <1>11 DEF IInv

\* The daemon hears the counts, in whatever generation it had.
LEMMA StatusStep ==
    ASSUME IInv, None \notin Pads, Status
    PROVE  IInv'
<1>0. Types /\ Linked /\ SyncOK /\ CountsFit /\ ForeignKnown /\ MemFollows /\ ChoiceKept
    BY DEF IInv
<1>1. /\ UNCHANGED <<world, info, conn, known, rows, prompts, job, ghosts>>
      /\ conn /\ plugged \in Pads /\ plugged = info
      /\ mem' \in HostRecords /\ mem'.gen = mem.gen /\ mem'.k = pads[info].k
    BY <1>0 DEF Status, Linked, Types, PadsOK, HostOK, MaybePad, PadRecords, HostRecords
<1>2. Types'
    BY <1>0, <1>1 DEF Types, PadsOK, HostOK, PromptsOK, world, prompts, ghosts
<1>3. Linked' /\ SyncOK'
    BY <1>0, <1>1 DEF Linked, SyncOK, Guarded, world, prompts, ghosts
<1>4. CountsFit'
    BY <1>0, <1>1 DEF CountsFit, Fits, world, ghosts
<1>5. ForeignKnown' /\ MemFollows'
    BY <1>0, <1>1 DEF ForeignKnown, MemFollows, world, prompts, ghosts
<1>6. ChoiceKept'
    BY <1>0, <1>1 DEF ChoiceKept, Chosen, world, prompts, ghosts
<1>. QED BY <1>2, <1>3, <1>4, <1>5, <1>6 DEF IInv

\* A sync is due, is about the pad that is there, or ends without a trace.
LEMMA SyncQuietStep ==
    ASSUME IInv, None \notin Pads, PeriodicSync \/ SyncStart \/ SyncGivesUp
    PROVE  IInv'
<1>0. Types /\ Linked /\ SyncOK /\ CountsFit /\ ForeignKnown /\ MemFollows /\ ChoiceKept
    BY DEF IInv
<1>1. UNCHANGED <<world, daemon, rows, prompts, ghosts>>
    BY DEF PeriodicSync, SyncStart, SyncGivesUp
<1>2. \/ job' = [at |-> "due"] \/ job' = NoJob
      \/ job' = [at |-> "load", pad |-> info, mem |-> Counts(mem)] /\ ~Guarded /\ conn
    BY DEF PeriodicSync, SyncStart, SyncGivesUp
<1>3. (info \in Pads /\ Counts(mem) \in Records) \/ ~conn
    BY <1>0, CountsAre DEF Types, PadsOK, HostOK, Linked, MaybePad
<1>4. job' \in Jobs
    BY <1>2, <1>3 DEF Jobs, NoJob
<1>5. Types'
    BY <1>0, <1>1, <1>4 DEF Types, PadsOK, HostOK, PromptsOK, world, daemon, prompts, ghosts
<1>6. Linked' /\ SyncOK'
    BY <1>0, <1>1, <1>2 DEF Linked, SyncOK, Guarded, NoJob, world, daemon, prompts, ghosts
<1>7. CountsFit'
    BY <1>0, <1>1, <1>2, <1>3 DEF CountsFit, Fits, NoJob, Counts, world, daemon, ghosts
<1>8. ForeignKnown' /\ MemFollows'
    BY <1>0, <1>1 DEF ForeignKnown, MemFollows, world, daemon, prompts, ghosts
<1>9. ChoiceKept'
    BY <1>0, <1>1, <1>2 DEF ChoiceKept, Chosen, Guarded, NoJob, Counts, world, daemon, prompts,
                            ghosts
<1>. QED BY <1>5, <1>6, <1>7, <1>8, <1>9 DEF IInv

\* The sync merges what it took from memory into the row.
LEMMA SyncLoadStep ==
    ASSUME IInv, None \notin Pads, None \notin Records, SyncLoad
    PROVE  IInv'
<1>0. Types /\ Linked /\ SyncOK /\ CountsFit /\ ForeignKnown /\ MemFollows /\ ChoiceKept
    BY DEF IInv
<1>. DEFINE p == job.pad
            m == job.mem
            row == IF rows[p] = None THEN [gen |-> m.gen, k |-> Zero] ELSE rows[p]
            target == Reconcile(row, m)
<1>1. /\ UNCHANGED <<world, daemon, prompts, ghosts>> /\ job.at = "load"
      /\ rows' = [rows EXCEPT ![p] = target]
      /\ job' = [at |-> "send", pad |-> p, target |-> target]
    BY DEF SyncLoad
<1>2. p \in Pads /\ m \in Records /\ conn /\ p = info /\ ~Guarded
    BY <1>0, <1>1 DEF Types, Jobs, SyncOK
<1>3. row \in Records
    BY <1>0, <1>2 DEF Types, HostOK, Records, Zero
<1>4. /\ target \in Records /\ target # None
      /\ \A key \in Keys : target.k[key] = row.k[key] \/ target.k[key] = m.k[key]
      /\ m.gen <= row.gen => /\ target.gen = row.gen
                             /\ \A key \in Keys : target.k[key] >= row.k[key]
    BY <1>2, <1>3, ReconcileIs
<1>. HIDE DEF target
<1>5. /\ rows' \in [Pads -> Records \cup {None}] /\ rows'[p] = target
      /\ \A q \in Pads \ {p} : rows'[q] = rows[q]
    BY <1>0, <1>1, <1>2, <1>4 DEF Types, HostOK
<1>6. Types'
    BY <1>0, <1>1, <1>2, <1>4, <1>5
    DEF Types, PadsOK, HostOK, PromptsOK, Jobs, world, daemon, prompts, ghosts
<1>7. Linked' /\ SyncOK'
    <2>1. \A q \in known : q \in Pads
        BY <1>0 DEF Types, HostOK
    <2>. QED BY <1>0, <1>1, <1>2, <1>4, <1>5, <2>1
             DEF Linked, SyncOK, Guarded, world, daemon, prompts, ghosts
<1>8. CountsFit'
    <2>1. Fits(p, target.k)
        <3>1. Fits(p, m.k) /\ (rows[p] # None => Fits(p, rows[p].k))
            BY <1>0, <1>1, <1>2 DEF CountsFit
        <3>2. Fits(p, row.k)
            <4>1. CASE rows[p] = None
                <5>1. row.k = Zero /\ made[p] \in [Keys -> Nat]
                    BY <1>0, <1>2, <4>1 DEF Types, PadsOK
                <5>. QED BY <5>1 DEF Fits, Zero
            <4>2. CASE rows[p] # None
                BY <3>1, <4>2
            <4>. QED BY <4>1, <4>2
        <3>. HIDE DEF row, m
        <3>. QED BY <1>4, <3>1, <3>2 DEF Fits
    <2>. QED BY <1>0, <1>1, <1>2, <1>5, <2>1 DEF CountsFit, Fits, world, daemon, ghosts
<1>9. ForeignKnown' /\ MemFollows'
    BY <1>0, <1>1 DEF ForeignKnown, MemFollows, world, daemon, prompts, ghosts
<1>10. ChoiceKept'
    <2>. SUFFICES ASSUME NEW q \in Pads, choice[q] # NoRecord PROVE Chosen(q)'
        BY <1>1 DEF ChoiceKept, ghosts
    <2>1. Chosen(q)
        BY <1>0 DEF ChoiceKept
    <2>2. CASE q = p
        <3>1. rows[p] # None /\ row = rows[p] /\ row.gen = choice[p].gen
            BY <1>0, <2>1, <2>2 DEF Chosen, Linked
        <3>2. m.gen <= row.gen
            BY <1>1, <2>1, <2>2, <3>1 DEF Chosen
        <3>3. target.gen = choice[p].gen /\ \A key \in Keys : target.k[key] >= row.k[key]
            BY <1>4, <3>1, <3>2
        <3>4. AtLeast(target, choice[p])
            <4>1. choice[p] \in Records
                BY <1>0, <1>2 DEF Types, HostOK
            <4>2. \A key \in Keys : row.k[key] >= choice[p].k[key]
                BY <2>1, <2>2, <3>1, <1>3, <4>1 DEF Chosen, AtLeast, Records
            <4>3. \A key \in Keys : target.k[key] >= choice[p].k[key]
                <5>1. \A key \in Keys : /\ target.k[key] \in Nat /\ row.k[key] \in Nat
                                       /\ choice[p].k[key] \in Nat
                    BY <1>3, <1>4, <4>1 DEF Records
                <5>. HIDE DEF row, p
                <5>2. ASSUME NEW key \in Keys PROVE target.k[key] >= choice[p].k[key]
                    BY <3>3, <4>2, <5>1
                <5>. QED BY <5>2
            <4>. QED BY <3>3, <4>3 DEF AtLeast
        <3>. QED BY <1>1, <1>5, <2>1, <2>2, <3>3, <3>4 DEF Chosen, world, daemon, prompts, ghosts
    <2>3. CASE q # p
        BY <1>1, <1>5, <2>1, <2>3 DEF Chosen, world, daemon, prompts, ghosts
    <2>. QED BY <2>2, <2>3
<1>. QED BY <1>6, <1>7, <1>8, <1>9, <1>10 DEF IInv

\* The pad accepts, or the sync merges what it says it has; or nothing arrives.
LEMMA SyncSendStep ==
    ASSUME IInv, None \notin Pads, None \notin Records, NEW arrives \in BOOLEAN, SyncSend(arrives)
    PROVE  IInv'
<1>0. Types /\ Linked /\ SyncOK /\ CountsFit /\ ForeignKnown /\ MemFollows /\ ChoiceKept
    BY DEF IInv
<1>. DEFINE p == job.pad
            t == job.target
<1>1. /\ UNCHANGED <<plugged, made, info, conn, prompts, ghosts>>
      /\ job.at = "send" /\ plugged # None
    BY DEF SyncSend
<1>2. /\ p \in Pads /\ t \in Records /\ conn /\ p = info /\ plugged = p /\ ~Guarded
      /\ rows[p] = t /\ t # None
    BY <1>0, <1>1 DEF Types, Jobs, SyncOK, Linked
<1>3. CASE UNCHANGED <<pads, rows, job, mem, known>>
    <2>1. Types'
        BY <1>0, <1>1, <1>3 DEF Types, PadsOK, HostOK, PromptsOK, prompts, ghosts
    <2>2. Linked' /\ SyncOK' /\ CountsFit' /\ ForeignKnown' /\ MemFollows'
        BY <1>0, <1>1, <1>3 DEF Linked, SyncOK, Guarded, CountsFit, Fits, ForeignKnown,
                                MemFollows, prompts, ghosts
    <2>3. ChoiceKept'
        BY <1>0, <1>1, <1>3 DEF ChoiceKept, Chosen, prompts, ghosts
    <2>. QED BY <2>1, <2>2, <2>3 DEF IInv
<1>4. CASE /\ pads' = Takes(plugged, t) /\ rows' = [rows EXCEPT ![p] = t]
           /\ mem' = RecordOf(p, t) /\ known' = known \cup {info} /\ job' = NoJob
           /\ Acceptable(pads[plugged], t, FALSE)
    <2>1. /\ pads' \in [Pads -> PadRecords] /\ pads'[p].gen = t.gen /\ pads'[p].k = t.k
          /\ pads'[p].owner = pads[p].owner
          /\ \A q \in Pads \ {p} : pads'[q] = pads[q]
        <3>1. PadsOK /\ pads' = Takes(p, t)
            BY <1>0, <1>2, <1>4 DEF Types
        <3>2. /\ Takes(p, t) \in [Pads -> PadRecords]
              /\ Takes(p, t)[p] = [gen |-> t.gen, k |-> t.k, owner |-> pads[p].owner]
              /\ \A q \in Pads \ {p} : Takes(p, t)[q] = pads[q]
            BY <1>2, <3>1, TakesIs
        <3>. QED BY <3>1, <3>2
    <2>2. rows' = rows /\ mem' \in HostRecords /\ mem'.gen = t.gen /\ mem'.k = t.k
        BY <1>0, <1>2, <1>4, CountsAre DEF Types, HostOK, RecordOf, MaybePad
    <2>3. Types'
        BY <1>0, <1>1, <1>2, <1>4, <2>1, <2>2
        DEF Types, PadsOK, HostOK, PromptsOK, NoJob, Jobs, prompts, ghosts
    <2>4. Linked' /\ SyncOK'
        BY <1>0, <1>1, <1>2, <1>4, <2>2 DEF Linked, SyncOK, NoJob, prompts, ghosts
    <2>5. CountsFit'
        <3>1. Fits(p, t.k)
            BY <1>0, <1>2 DEF CountsFit
        <3>. QED BY <1>0, <1>1, <1>2, <1>4, <2>1, <2>2, <3>1 DEF CountsFit, Fits, NoJob, ghosts
    <2>6. ForeignKnown' /\ MemFollows'
        BY <1>0, <1>1, <1>2, <2>1, <2>2
        DEF ForeignKnown, MemFollows, Records, prompts, ghosts
    <2>7. ChoiceKept'
        <3>. SUFFICES ASSUME NEW q \in Pads, choice[q] # NoRecord PROVE Chosen(q)'
            BY <1>1 DEF ChoiceKept, ghosts
        <3>1. Chosen(q)
            BY <1>0 DEF ChoiceKept
        <3>2. q = p => t.gen = choice[q].gen
            BY <1>2, <3>1 DEF Chosen
        <3>3. t.gen \in Nat /\ choice[q].gen \in Nat
            BY <1>0, <1>2 DEF Types, HostOK, Records
        <3>. QED BY <1>1, <1>2, <1>4, <2>1, <2>2, <3>1, <3>2, <3>3
                 DEF Chosen, NoJob, prompts, ghosts
    <2>. QED BY <2>3, <2>4, <2>5, <2>6, <2>7 DEF IInv
<1>5. ASSUME /\ rows' = [rows EXCEPT ![p] = Reconcile(t, Counts(pads[plugged]))]
             /\ job' = [job EXCEPT !.target = Reconcile(t, Counts(pads[plugged]))]
             /\ UNCHANGED <<pads, mem, known>>
      PROVE  IInv'
    <2>. DEFINE c == Counts(pads[p])
                target == Reconcile(t, c)
    <2>1. pads[p] \in PadRecords /\ c \in Records /\ c.gen = pads[p].gen /\ c.k = pads[p].k
        BY <1>0, <1>2, CountsAre DEF Types, PadsOK, Counts
    <2>2. /\ target \in Records /\ target # None
          /\ \A key \in Keys : target.k[key] = t.k[key] \/ target.k[key] = c.k[key]
          /\ c.gen <= t.gen => /\ target.gen = t.gen
                               /\ \A key \in Keys : target.k[key] >= t.k[key]
        BY <1>2, <2>1, ReconcileIs
    <2>3. rows' = [rows EXCEPT ![p] = target] /\ job' = [job EXCEPT !.target = target]
        BY <1>2, <1>5
    <2>. HIDE DEF target
    <2>4. /\ rows' \in [Pads -> Records \cup {None}] /\ rows'[p] = target
          /\ \A q \in Pads \ {p} : rows'[q] = rows[q]
        BY <1>0, <1>2, <2>2, <2>3 DEF Types, HostOK
    <2>5. job' = [at |-> "send", pad |-> p, target |-> target]
        BY <1>0, <1>1, <2>3 DEF Types, Jobs
    <2>6. Types'
        BY <1>0, <1>1, <1>2, <1>5, <2>2, <2>4, <2>5
        DEF Types, PadsOK, HostOK, PromptsOK, Jobs, prompts, ghosts
    <2>7. Linked' /\ SyncOK'
        <3>1. \A q \in known : q \in Pads
            BY <1>0 DEF Types, HostOK
        <3>. QED BY <1>0, <1>1, <1>2, <1>5, <2>2, <2>4, <2>5, <3>1
                 DEF Linked, SyncOK, Guarded, prompts, ghosts
    <2>8. CountsFit'
        <3>1. Fits(p, t.k) /\ Fits(p, c.k)
            BY <1>0, <1>2, <2>1 DEF CountsFit
        <3>2. Fits(p, target.k)
            BY <2>2, <3>1 DEF Fits
        <3>. QED BY <1>0, <1>1, <1>2, <1>5, <2>4, <2>5, <3>2 DEF CountsFit, Fits, ghosts
    <2>9. ForeignKnown' /\ MemFollows'
        BY <1>0, <1>1, <1>5 DEF ForeignKnown, MemFollows, prompts, ghosts
    <2>10. ChoiceKept'
        <3>. SUFFICES ASSUME NEW q \in Pads, choice[q] # NoRecord PROVE Chosen(q)'
            BY <1>1 DEF ChoiceKept, ghosts
        <3>1. Chosen(q)
            BY <1>0 DEF ChoiceKept
        <3>2. CASE q = p
            <4>1. choice[p] \in Records /\ mem.gen \in Nat /\ t.gen = choice[p].gen
                BY <1>0, <1>2, <3>1, <3>2 DEF Types, HostOK, HostRecords, Chosen
            <4>2. c.gen <= t.gen
                <5>1. c.gen <= mem.gen
                    BY <1>0, <1>2, <2>1 DEF MemFollows
                <5>2. mem.gen <= choice[p].gen
                    BY <1>2, <3>1, <3>2 DEF Chosen, Guarded
                <5>3. c.gen \in Nat /\ t.gen \in Nat
                    BY <1>2, <2>1 DEF Records
                <5>. QED BY <4>1, <5>1, <5>2, <5>3
            <4>3. \A key \in Keys : t.k[key] >= choice[p].k[key]
                BY <1>2, <3>1, <3>2, <4>1 DEF Chosen, AtLeast, Records
            <4>4. AtLeast(target, choice[p])
                <5>1. \A key \in Keys : target.k[key] >= choice[p].k[key]
                    <6>1. \A key \in Keys : /\ target.k[key] \in Nat /\ t.k[key] \in Nat
                                           /\ choice[p].k[key] \in Nat
                        BY <1>2, <2>2, <4>1 DEF Records
                    <6>. HIDE DEF p, t, c
                    <6>2. ASSUME NEW key \in Keys PROVE target.k[key] >= choice[p].k[key]
                        BY <2>2, <4>2, <4>3, <6>1
                    <6>. QED BY <6>2
                <5>. QED BY <2>2, <4>1, <4>2, <5>1 DEF AtLeast
            <4>. QED BY <1>1, <1>5, <2>2, <2>4, <2>5, <3>1, <3>2, <4>1, <4>2, <4>4
                     DEF Chosen, prompts, ghosts
        <3>3. CASE q # p
            BY <1>1, <1>5, <2>4, <2>5, <3>1, <3>3 DEF Chosen, prompts, ghosts
        <3>. QED BY <3>2, <3>3
    <2>. QED BY <2>6, <2>7, <2>8, <2>9, <2>10 DEF IInv
<1>. QED BY <1>3, <1>4, <1>5 DEF SyncSend

\* What a pad is taken over with, or given back, is the daemon's, the row's and
\* the user's choice from then on.
LEMMA GivenStep ==
    ASSUME IInv, None \notin Pads, None \notin Records,
           NEW t \in Records, NEW owner \in {"us", pads[info].owner},
           NEW arrives \in BOOLEAN,
           owner = pads[info].owner \/ plugged = info,
           info \in Pads, t.gen > mem.gen, t.gen >= 1, arrives => plugged # None,
           pads' = [IF arrives THEN Takes(info, t) ELSE pads EXCEPT ![info].owner = owner],
           rows' = [rows EXCEPT ![info] = t],
           mem' = RecordOf(info, t),
           granted' = granted \cup {info},
           choice' = IF info \in known' THEN [choice EXCEPT ![info] = t] ELSE choice,
           known' = known \/ known' = known \cup {info},
           foreign' \in BOOLEAN, foreign' => foreign,
           takeover' \in {takeover, None},
           replacement' \in {replacement, None}, replacement' # None => asker' = asker,
           asker' \in {asker, None},
           job.at \notin {"load", "send"},
           UNCHANGED <<plugged, made, info, conn, job>>
    PROVE  IInv'
<1>0. Types /\ Linked /\ SyncOK /\ CountsFit /\ ForeignKnown /\ MemFollows /\ ChoiceKept
    BY DEF IInv
<1>1. /\ pads' \in [Pads -> PadRecords] /\ pads'[info].owner = owner
      /\ pads'[info].gen = IF arrives THEN t.gen ELSE pads[info].gen
      /\ pads'[info].k = IF arrives THEN t.k ELSE pads[info].k
      /\ \A q \in Pads \ {info} : pads'[q] = pads[q]
    <2>. DEFINE counted == IF arrives THEN Takes(info, t) ELSE pads
    <2>1. /\ Takes(info, t) \in [Pads -> PadRecords]
          /\ Takes(info, t)[info] = [gen |-> t.gen, k |-> t.k, owner |-> pads[info].owner]
          /\ \A q \in Pads \ {info} : Takes(info, t)[q] = pads[q]
        BY <1>0, TakesIs DEF Types
    <2>2. pads \in [Pads -> PadRecords] /\ pads[info] \in PadRecords
        BY <1>0 DEF Types, PadsOK
    <2>3. /\ counted \in [Pads -> PadRecords] /\ counted[info] \in PadRecords
          /\ counted[info].gen = IF arrives THEN t.gen ELSE pads[info].gen
          /\ counted[info].k = IF arrives THEN t.k ELSE pads[info].k
          /\ \A q \in Pads \ {info} : counted[q] = pads[q]
        BY <2>1, <2>2
    <2>4. pads' = [counted EXCEPT ![info] = [counted[info] EXCEPT !.owner = owner]]
        OBVIOUS
    <2>5. owner \in Owners
        BY <2>2 DEF PadRecords, Owners
    <2>. HIDE DEF counted
    <2>6. /\ [counted[info] EXCEPT !.owner = owner] \in PadRecords
          /\ [counted[info] EXCEPT !.owner = owner].owner = owner
          /\ [counted[info] EXCEPT !.owner = owner].gen = counted[info].gen
          /\ [counted[info] EXCEPT !.owner = owner].k = counted[info].k
        BY <2>3, <2>5 DEF PadRecords
    <2>. QED BY <2>3, <2>4, <2>6
<1>2. mem' \in HostRecords /\ mem'.gen = t.gen /\ mem'.k = t.k
    BY CountsAre DEF RecordOf, MaybePad
<1>3. /\ rows' \in [Pads -> Records \cup {None}] /\ rows'[info] = t /\ t # None
      /\ \A q \in Pads \ {info} : rows'[q] = rows[q]
    BY <1>0 DEF Types, HostOK
<1>4. /\ known \subseteq known' /\ known' \subseteq Pads
      /\ \A q \in Pads \ {info} : q \in known' => q \in known
    BY <1>0 DEF Types, HostOK
<1>5. /\ choice' \in [Pads -> Records]
      /\ choice'[info] = IF info \in known' THEN t ELSE choice[info]
      /\ \A q \in Pads \ {info} : choice'[q] = choice[q]
    BY <1>0 DEF Types, HostOK
<1>6. Types'
    <2>1. PadsOK' /\ HostOK'
        BY <1>0, <1>1, <1>2, <1>3, <1>4, <1>5 DEF Types, PadsOK, HostOK
    <2>2. PromptsOK'
        BY <1>0 DEF Types, PromptsOK, MaybePad
    <2>. QED BY <1>0, <2>1, <2>2 DEF Types
<1>7. Linked'
    <2>1. \A q \in known' : rows'[q] # None
        BY <1>0, <1>3, <1>4 DEF Linked
    <2>2. replacement' # None => asker' # None /\ replacement' \in known'
        BY <1>0, <1>4 DEF Linked
    <2>3. takeover' # None \/ foreign' => conn
        BY <1>0 DEF Linked
    <2>. QED BY <1>0, <2>1, <2>2, <2>3 DEF Linked
<1>8. SyncOK'
    BY <1>0 DEF SyncOK
<1>9. CountsFit'
    <2>1. \A k : Fits(info, k)'
        BY DEF Fits
    <2>2. ASSUME NEW q \in Pads, q # info
          PROVE  Fits(q, pads[q].k)' /\ (rows'[q] # None => Fits(q, rows[q].k)')
        BY <1>0, <1>1, <1>3, <2>2 DEF CountsFit, Fits
    <2>. QED BY <1>0, <2>1, <2>2 DEF CountsFit
<1>10. ForeignKnown'
    BY <1>0 DEF Linked, ForeignKnown
<1>11. MemFollows'
    <2>1. pads[info].gen \in Nat /\ mem.gen \in Nat /\ t.gen \in Nat
        BY <1>0 DEF Types, PadsOK, HostOK, PadRecords, HostRecords, Records
    <2>2. CASE arrives
        BY <1>1, <1>2, <2>1, <2>2 DEF MemFollows
    <2>3. CASE ~arrives
        BY <1>0, <1>1, <1>2, <2>1, <2>3 DEF MemFollows
    <2>. QED BY <2>2, <2>3
<1>12. ChoiceKept'
    <2>. SUFFICES ASSUME NEW q \in Pads, choice'[q] # NoRecord PROVE Chosen(q)'
        BY DEF ChoiceKept
    <2>0. pads[info].gen \in Nat /\ mem.gen \in Nat /\ t.gen \in Nat
        BY <1>0 DEF Types, PadsOK, HostOK, PadRecords, HostRecords, Records
    <2>1. CASE q # info
        <3>1. /\ pads'[q] = pads[q] /\ rows'[q] = rows[q] /\ choice'[q] = choice[q]
              /\ q \in known => q \in known'
            BY <1>1, <1>3, <1>4, <1>5, <2>1
        <3>2. Chosen(q)
            BY <1>0, <3>1 DEF ChoiceKept
        <3>. QED BY <2>1, <3>1, <3>2 DEF Chosen
    <2>2. CASE q = info
        <3>1. info \in known' /\ choice'[info] = t
            BY <1>0, <1>4, <1>5, <2>2 DEF ChoiceKept, Chosen
        <3>2. pads'[info].owner # "them" => pads'[info].gen <= t.gen
            BY <1>0, <1>1, <2>0 DEF MemFollows
        <3>. QED BY <1>0, <1>2, <1>3, <2>2, <3>1, <3>2 DEF Chosen, AtLeast, Records
    <2>. QED BY <2>1, <2>2
<1>. QED BY <1>6, <1>7, <1>8, <1>9, <1>10, <1>11, <1>12 DEF IInv

\* take over: a new generation above both, claimed or not.
LEMMA TakeOverStep ==
    ASSUME IInv, None \notin Pads, None \notin Records,
           NEW keep \in BOOLEAN, NEW claimed \in BOOLEAN, NEW arrives \in BOOLEAN,
           TakeOver(keep, claimed, arrives), takeover # None,
           takeover' = None,
           UNCHANGED <<plugged, made, info, conn, known, replacement, job, asker>>
    PROVE  IInv'
<1>0. Types /\ Linked /\ SyncOK
    BY DEF IInv
<1>. DEFINE row == rows[info]
            t == [gen |-> NextGen(row),
                  k |-> IF keep THEN mem.k ELSE IF row = None THEN Zero ELSE row.k]
            counted == IF arrives THEN Takes(info, t) ELSE pads
            owner == IF claimed THEN "us" ELSE pads[info].owner
<1>1. conn /\ plugged = info /\ plugged # None /\ info \in Pads
    BY <1>0 DEF Linked, Types, PadsOK, HostOK, MaybePad
<1>2. mem.gen \in Nat /\ mem.k \in [Keys -> Nat] /\ row \in Records \cup {None}
    BY <1>0, <1>1 DEF Types, HostOK, HostRecords
<1>3. NextGen(row) \in Nat /\ NextGen(row) > mem.gen /\ NextGen(row) >= 1
    BY <1>2 DEF NextGen, Higher, Records
<1>4. t \in Records /\ t.gen > mem.gen /\ t.gen >= 1
    <2>1. (IF keep THEN mem.k ELSE IF row = None THEN Zero ELSE row.k) \in [Keys -> Nat]
        BY <1>2 DEF Zero, Records
    <2>. QED BY <1>3, <2>1 DEF Records
<1>5. /\ rows' = [rows EXCEPT ![info] = t]
      /\ pads' = IF claimed THEN [counted EXCEPT ![info].owner = "us"] ELSE counted
      /\ foreign' = FALSE /\ mem' = RecordOf(info, t) /\ granted' = granted \cup {info}
      /\ choice' = IF info \in known THEN [choice EXCEPT ![info] = t] ELSE choice
    BY DEF TakeOver
<1>6. pads' = [counted EXCEPT ![info].owner = owner]
    <2>1. CASE claimed
        BY <1>5, <2>1
    <2>2. CASE ~claimed
        <3>1. PadsOK /\ pads[info] \in PadRecords
            BY <1>0, <1>1 DEF Types, PadsOK
        <3>2. [counted EXCEPT ![info].owner = pads[info].owner] = counted
            BY <1>1, <1>4, <3>1, OwnerStays
        <3>. QED BY <1>5, <2>2, <3>2
    <2>. QED BY <2>1, <2>2
<1>7. choice' = IF info \in known' THEN [choice EXCEPT ![info] = t] ELSE choice
    BY <1>5
<1>8. job.at \notin {"load", "send"}
    BY <1>0 DEF SyncOK, Guarded
<1>9. owner \in {"us", pads[info].owner}
    OBVIOUS
<1>. HIDE DEF t, owner
<1>. QED BY <1>1, <1>4, <1>5, <1>6, <1>7, <1>8, <1>9, GivenStep

\* The answer to a takeover, the user's or the rule's.
LEMMA TakeoverAnswerStep ==
    ASSUME IInv, None \notin Pads, None \notin Records,
           \/ \E takes, keep, claimed, arrives \in BOOLEAN :
                  ResolveTakeover(takes, keep, claimed, arrives)
           \/ \E claimed, arrives \in BOOLEAN : AutoTakeover(claimed, arrives)
    PROVE  IInv'
<1>0. Types /\ Linked /\ SyncOK /\ CountsFit /\ ForeignKnown /\ MemFollows /\ ChoiceKept
    BY DEF IInv
<1>1. UNCHANGED <<plugged, made, info, conn, known, replacement, job, asker>>
    BY DEF ResolveTakeover, AutoTakeover
<1>2. \/ takeover' \in {takeover, None} /\ LeaveAlone
      \/ /\ takeover # None /\ takeover' = None
         /\ \E keep, claimed, arrives \in BOOLEAN : TakeOver(keep, claimed, arrives)
    BY DEF ResolveTakeover, AutoTakeover
<1>3. CASE takeover' \in {takeover, None} /\ LeaveAlone
    <2>1. UNCHANGED <<pads, rows, foreign, mem, granted, choice>>
        BY <1>3 DEF LeaveAlone
    <2>2. Types' /\ CountsFit' /\ ForeignKnown' /\ MemFollows' /\ ChoiceKept'
        BY <1>0, <1>1, <2>1 DEF Types, PadsOK, HostOK, PromptsOK, CountsFit, Fits, ForeignKnown,
                                MemFollows, ChoiceKept, Chosen
    <2>3. Linked' /\ SyncOK'
        BY <1>0, <1>1, <1>3, <2>1 DEF Linked, SyncOK, Guarded
    <2>. QED BY <2>2, <2>3 DEF IInv
<1>4. CASE /\ takeover # None /\ takeover' = None
           /\ \E keep, claimed, arrives \in BOOLEAN : TakeOver(keep, claimed, arrives)
    BY <1>1, <1>4, TakeOverStep
<1>. QED BY <1>2, <1>3, <1>4

\* The answer to a replacement: the old pad's counts, or the pad's own.
LEMMA ReplacementStep ==
    ASSUME IInv, None \notin Pads, None \notin Records, Apart,
           NEW restore \in BOOLEAN, NEW arrives \in BOOLEAN, ResolveReplacement(restore, arrives)
    PROVE  IInv'
<1>0. Types /\ Linked /\ SyncOK /\ CountsFit /\ ForeignKnown /\ MemFollows /\ ChoiceKept
    BY DEF IInv
<1>1. /\ replacement # None /\ info = asker /\ replacement' = None /\ asker' = None
      /\ known' = known \cup {info}
      /\ UNCHANGED <<plugged, made, info, conn, takeover, foreign, job>>
    BY DEF ResolveReplacement, Apart
<1>2. info \in Pads /\ replacement \in Pads /\ rows[replacement] \in Records
    BY <1>0, <1>1 DEF Types, HostOK, PromptsOK, Linked, MaybePad
<1>3. job.at \notin {"load", "send"}
    BY <1>0, <1>1 DEF SyncOK, Guarded
<1>4. CASE restore
    <2>. DEFINE old == rows[replacement]
                t == [gen |-> Higher(old.gen, mem.gen) + 1, k |-> old.k]
    <2>1. t \in Records /\ t.gen > mem.gen /\ t.gen >= 1
        BY <1>0, <1>2 DEF Types, HostOK, HostRecords, Records, Higher
    <2>2. /\ rows' = [rows EXCEPT ![info] = t] /\ mem' = RecordOf(info, t)
          /\ pads' = IF arrives THEN Takes(plugged, t) ELSE pads
          /\ granted' = granted \cup {info} /\ choice' = [choice EXCEPT ![info] = t]
          /\ arrives => plugged # None
        BY <1>1, <1>4 DEF ResolveReplacement, Frame
    <2>3. arrives => plugged = info
        BY <1>0, <2>2 DEF Linked
    <2>4. pads' = [IF arrives THEN Takes(info, t) ELSE pads EXCEPT ![info].owner = pads[info].owner]
        <3>1. PadsOK /\ pads[info] \in PadRecords
            BY <1>0, <1>2 DEF Types, PadsOK
        <3>. DEFINE counted == IF arrives THEN Takes(info, t) ELSE pads
        <3>2. [counted EXCEPT ![info].owner = pads[info].owner] = counted
            BY <1>2, <2>1, <3>1, OwnerStays
        <3>. QED BY <2>2, <2>3, <3>2
    <2>5. choice' = IF info \in known' THEN [choice EXCEPT ![info] = t] ELSE choice
        BY <1>1, <2>2
    <2>6. foreign' \in BOOLEAN /\ (foreign' => foreign)
        BY <1>0, <1>1 DEF Types, PromptsOK
    <2>. HIDE DEF t
    <2>7. PICK owner \in {"us", pads[info].owner} : owner = pads[info].owner
        OBVIOUS
    <2>8. pads' = [IF arrives THEN Takes(info, t) ELSE pads EXCEPT ![info].owner = owner]
        BY <2>4, <2>7
    <2>. QED BY <1>1, <1>2, <1>3, <2>1, <2>2, <2>5, <2>6, <2>7, <2>8, GivenStep
<1>5. CASE ~restore
    <2>1. /\ rows' = [rows EXCEPT ![info] = Counts(mem)]
          /\ choice' = [choice EXCEPT ![info] = NoRecord]
          /\ UNCHANGED <<mem, pads, granted>>
        BY <1>5 DEF ResolveReplacement
    <2>2. Counts(mem) \in Records /\ Counts(mem) # None /\ Counts(mem).k = mem.k
        BY <1>0, CountsAre DEF Types, HostOK, Counts
    <2>3. /\ rows' \in [Pads -> Records \cup {None}] /\ rows'[info] = Counts(mem)
          /\ \A q \in Pads \ {info} : rows'[q] = rows[q]
        BY <1>0, <1>2, <2>1, <2>2 DEF Types, HostOK
    <2>4. /\ choice' \in [Pads -> Records] /\ choice'[info] = NoRecord
          /\ \A q \in Pads \ {info} : choice'[q] = choice[q]
        BY <1>0, <1>2, <2>1 DEF Types, HostOK, NoRecord, Zero, Records
    <2>5. Types'
        BY <1>0, <1>1, <1>2, <2>1, <2>3, <2>4 DEF Types, PadsOK, HostOK, PromptsOK, MaybePad
    <2>6. Linked' /\ SyncOK'
        <3>1. \A q \in known' : rows'[q] # None
            BY <1>0, <1>1, <2>2, <2>3 DEF Linked, Types, HostOK
        <3>. QED BY <1>0, <1>1, <1>3, <3>1 DEF Linked, SyncOK
    <2>7. CountsFit'
        <3>1. Fits(info, mem.k)
            BY <1>0, <1>1, <1>2 DEF CountsFit
        <3>2. ASSUME NEW q \in Pads, rows'[q] # None PROVE Fits(q, rows[q].k)'
            BY <1>0, <1>1, <2>1, <2>2, <2>3, <3>1, <3>2 DEF CountsFit, Fits
        <3>. QED BY <1>0, <1>1, <1>3, <2>1, <3>2 DEF CountsFit, Fits
    <2>8. ForeignKnown' /\ MemFollows'
        BY <1>0, <1>1, <2>1 DEF ForeignKnown, MemFollows
    <2>9. ChoiceKept'
        BY <1>0, <1>1, <2>1, <2>3, <2>4 DEF ChoiceKept, Chosen
    <2>. QED BY <2>5, <2>6, <2>7, <2>8, <2>9 DEF IInv
<1>. QED BY <1>4, <1>5

-----------------------------------------------------------------------------
(* The theorems *)

\* A PC that starts, and the pads it has or has not met.
LEMMA InitIInv ==
    ASSUME None \notin Pads, None \notin Records, OwnInit
    PROVE  IInv
<1>1. PadsOK
    <2>1. [gen : {1, 2}, k : [Keys -> {0, 1}], owner : Owners] \subseteq PadRecords
        BY DEF PadRecords
    <2>2. pads \in [Pads -> PadRecords]
        BY <2>1 DEF OwnInit
    <2>. QED BY <2>2 DEF OwnInit, PadsOK, PadRecords, MaybePad
<1>2. \A p \in Pads : Counts(pads[p]) \in Records
    BY <1>1, CountsAre DEF PadsOK
<1>3. /\ rows \in [Pads -> Records \cup {None}] /\ \A p \in known : rows[p] # None
      /\ \A p \in Pads : rows[p] # None => rows[p].k = pads[p].k
    BY <1>2 DEF OwnInit, Counts
<1>4. mem \in HostRecords
    <2>1. NoRecord \in Records
        BY DEF NoRecord, Zero, Records
    <2>2. \A p \in known : RecordOf(p, rows[p]) \in HostRecords
        BY <1>3, CountsAre DEF OwnInit, MaybePad
    <2>3. RecordOf(None, NoRecord) \in HostRecords
        BY <2>1, CountsAre DEF MaybePad
    <2>. QED BY <2>2, <2>3 DEF OwnInit
<1>5. HostOK /\ PromptsOK /\ job \in Jobs /\ job.at = "none"
    BY <1>3, <1>4
    DEF OwnInit, HostOK, PromptsOK, MaybePad, NoJob, Jobs, NoRecord, Zero, Records
<1>6. CountsFit
    <2>1. \A p \in Pads : made[p] = pads[p].k /\ pads[p].k \in [Keys -> Nat]
        BY <1>1 DEF OwnInit, PadsOK, PadRecords
    <2>2. \A p \in Pads : Fits(p, pads[p].k)
        BY <2>1 DEF Fits
    <2>. QED BY <1>3, <1>5, <2>2 DEF OwnInit, CountsFit
<1>7. Linked /\ SyncOK /\ ForeignKnown /\ MemFollows /\ ChoiceKept
    BY <1>3, <1>5 DEF OwnInit, Linked, SyncOK, ForeignKnown, MemFollows, ChoiceKept
<1>. QED BY <1>1, <1>5, <1>6, <1>7 DEF IInv, Types

\* Every step keeps the invariant.
LEMMA Step ==
    ASSUME OwnConstants, IInv, [OwnNext]_ovars
    PROVE  IInv'
<1>1. None \notin Pads /\ None \notin Records /\ Apart
    BY DEF OwnConstants, Apart
<1>2. CASE UNCHANGED ovars
    <2>1. Types' /\ Linked' /\ SyncOK'
        BY <1>2 DEF IInv, Types, PadsOK, HostOK, PromptsOK, Linked, SyncOK, Guarded, ovars, world,
                    daemon, prompts, ghosts
    <2>2. CountsFit' /\ ForeignKnown' /\ MemFollows' /\ ChoiceKept'
        BY <1>2 DEF IInv, CountsFit, Fits, ForeignKnown, MemFollows, ChoiceKept, Chosen, ovars,
                    world, daemon, prompts, ghosts
    <2>. QED BY <2>1, <2>2 DEF IInv
<1>3. ASSUME NEW p \in Pads, NEW key \in Keys, Press(p, key) PROVE IInv'
    BY <1>3, PressStep
<1>4. ASSUME NEW p \in Pads, Wipe(p) PROVE IInv'
    BY <1>4, WipeStep
<1>5. ASSUME NEW p \in Pads, NEW gens \in 0 .. 2, TakenElsewhere(p, gens) PROVE IInv'
    BY <1>5, TakenElsewhereStep
<1>6. CASE Unplug
    BY <1>1, <1>6, UnplugStep
<1>7. ASSUME NEW p \in Pads, NEW claimed \in BOOLEAN, Connect(p, claimed) PROVE IInv'
    BY <1>1, <1>7, ConnectStep
<1>8. CASE Status
    BY <1>1, <1>8, StatusStep
<1>9. CASE PeriodicSync \/ SyncStart \/ SyncGivesUp
    BY <1>1, <1>9, SyncQuietStep
<1>10. CASE SyncLoad
    BY <1>1, <1>10, SyncLoadStep
<1>11. ASSUME NEW arrives \in BOOLEAN, SyncSend(arrives) PROVE IInv'
    BY <1>1, <1>11, SyncSendStep
<1>12. CASE \/ \E takes, keep, claimed, arrives \in BOOLEAN :
                   ResolveTakeover(takes, keep, claimed, arrives)
            \/ \E claimed, arrives \in BOOLEAN : AutoTakeover(claimed, arrives)
    BY <1>1, <1>12, TakeoverAnswerStep
<1>13. ASSUME NEW restore \in BOOLEAN, NEW arrives \in BOOLEAN, ResolveReplacement(restore, arrives)
       PROVE  IInv'
    BY <1>1, <1>13, ReplacementStep
<1>. QED BY <1>2, <1>3, <1>4, <1>5, <1>6, <1>7, <1>8, <1>9, <1>10, <1>11, <1>12, <1>13
         DEF OwnNext

\* The invariant is inductive.
LEMMA Inductive == OwnConstants => (OwnSpec => []IInv)
<1>. SUFFICES ASSUME OwnConstants PROVE OwnSpec => []IInv
    OBVIOUS
<1>1. OwnInit => IInv
    BY InitIInv DEF OwnConstants
<1>2. IInv /\ [OwnNext]_ovars => IInv'
    BY Step
<1>. QED BY <1>1, <1>2, PTL DEF OwnSpec

\* Every variable stays in its range (runtime.rs, ipc_handlers.rs, owner.c).
THEOREM TypeCorrect == OwnConstants => (OwnSpec => []OwnTypeOK)
<1>. SUFFICES ASSUME OwnConstants PROVE OwnSpec => []OwnTypeOK
    OBVIOUS
<1>1. IInv => OwnTypeOK
    BY DEF IInv, Types, PadsOK, HostOK, PromptsOK, Linked, OwnTypeOK, MaybePad, PadRecords
<1>. QED BY <1>1, Inductive, PTL

\* However pads are exchanged, wiped, taken over and synced, no pad and no row
\* holds presses its pad never counted unless the user chose so, and what was
\* chosen stays.
THEOREM CountsOwned == OwnConstants => (OwnSpec => []PadCountsOnlyItsOwn)
<1>. SUFFICES ASSUME OwnConstants PROVE OwnSpec => []PadCountsOnlyItsOwn
    OBVIOUS
<1>1. IInv => PadCountsOnlyItsOwn
    BY DEF IInv, CountsFit, Fits, ChoiceKept, Chosen, OwnCountsOnly, ChoiceHolds,
           PadCountsOnlyItsOwn
<1>. QED BY <1>1, Inductive, PTL

\* A step that changes at most a pad of ours, one it wipes, or one the user gave
\* other counts, leaves the foreign alone.
LEMMA LeftAlone ==
    ASSUME IInv, UNCHANGED made, NEW q, \A p \in Pads \ {q} : pads'[p] = pads[p],
           \/ q \in granted' \/ q \notin Pads
           \/ pads[q].owner # "them" \/ pads'[q] = Blank \/ pads'[q] = pads[q]
    PROVE  ForeignLeftAlone
<1>. SUFFICES ASSUME NEW p \in Pads, pads[p].owner = "them", pads'[p] # Blank, p \notin granted'
              PROVE  /\ pads'[p].owner = "them" /\ pads'[p].gen = pads[p].gen
                     /\ \A key \in Keys :
                            pads'[p].k[key] - pads[p].k[key] = made'[p][key] - made[p][key]
    BY DEF ForeignLeftAlone
<1>1. pads'[p] = pads[p] /\ made'[p] = made[p]
    OBVIOUS
<1>2. \A key \in Keys : pads[p].k[key] \in Nat /\ made[p][key] \in Nat
    BY DEF IInv, Types, PadsOK, PadRecords
<1>3. ASSUME NEW key \in Keys
      PROVE  pads'[p].k[key] - pads[p].k[key] = made'[p][key] - made[p][key]
    <2>1. /\ pads'[p].k[key] = pads[p].k[key] /\ made'[p][key] = made[p][key]
          /\ pads[p].k[key] \in Nat /\ made[p][key] \in Nat
        BY <1>1, <1>2
    <2>. QED BY <2>1
<1>. QED BY <1>1, <1>3

\* No step changes a pad of another install but its presses, a wipe, or the
\* answer that takes it over.
LEMMA ForeignStep ==
    ASSUME OwnConstants, IInv, [OwnNext]_ovars
    PROVE  ForeignLeftAlone
<1>0. Types /\ Linked /\ SyncOK /\ ForeignKnown /\ None \notin Pads
    BY DEF IInv, OwnConstants
<1>1. CASE UNCHANGED <<pads, made>>
    BY <1>1, LeftAlone
<1>2. ASSUME NEW p \in Pads, NEW key \in Keys, Press(p, key) PROVE ForeignLeftAlone
    <2>1. \A q \in Pads : /\ pads'[q].gen = pads[q].gen /\ pads'[q].owner = pads[q].owner
                          /\ \A j \in Keys :
                                 pads'[q].k[j] - pads[q].k[j] = made'[q][j] - made[q][j]
        BY <1>0, <1>2 DEF Press, Types, PadsOK, PadRecords
    <2>. QED BY <2>1 DEF ForeignLeftAlone
<1>3. ASSUME NEW p \in Pads, Wipe(p) PROVE ForeignLeftAlone
    <2>1. UNCHANGED made /\ pads'[p] = Blank /\ \A q \in Pads \ {p} : pads'[q] = pads[q]
        BY <1>0, <1>3 DEF Wipe, Types, PadsOK
    <2>. QED BY <2>1, LeftAlone
<1>4. ASSUME NEW p \in Pads, NEW gens \in 0 .. 2, TakenElsewhere(p, gens) PROVE ForeignLeftAlone
    <2>1. UNCHANGED made /\ pads[p].owner # "them" /\ \A q \in Pads \ {p} : pads'[q] = pads[q]
        BY <1>0, <1>4 DEF TakenElsewhere, Types, PadsOK
    <2>. QED BY <2>1, LeftAlone
<1>5. ASSUME NEW p \in Pads, NEW claimed \in BOOLEAN, Connect(p, claimed) PROVE ForeignLeftAlone
    <2>1. /\ UNCHANGED made /\ \A q \in Pads \ {p} : pads'[q] = pads[q]
          /\ pads[p].owner = "none" \/ pads'[p] = pads[p]
        BY <1>0, <1>5 DEF Connect, Types, PadsOK
    <2>. QED BY <2>1, LeftAlone
<1>6. ASSUME NEW arrives \in BOOLEAN, SyncSend(arrives) PROVE ForeignLeftAlone
    <2>1. /\ UNCHANGED <<made, granted>> /\ plugged \in Pads
          /\ pads' = pads \/ pads' = Takes(plugged, job.target)
        BY <1>0, <1>6 DEF SyncSend, ghosts, Types, PadsOK, MaybePad
    <2>2. pads[plugged].owner = "them" => plugged \in granted
        BY <1>0, <1>6 DEF SyncSend, SyncOK, Guarded, ForeignKnown
    <2>3. \A q \in Pads \ {plugged} : pads'[q] = pads[q]
        BY <1>0, <2>1 DEF Takes, Types, PadsOK
    <2>. QED BY <2>1, <2>2, <2>3, LeftAlone
<1>7. ASSUME NEW keep \in BOOLEAN, NEW claimed \in BOOLEAN, NEW arrives \in BOOLEAN,
             TakeOver(keep, claimed, arrives), UNCHANGED made
      PROVE  ForeignLeftAlone
    <2>1. info \in granted' /\ \A q \in Pads \ {info} : pads'[q] = pads[q]
        BY <1>0, <1>7 DEF TakeOver, Takes, Types, PadsOK
    <2>. QED BY <1>7, <2>1, LeftAlone
<1>8. CASE \/ \E takes, keep, claimed, arrives \in BOOLEAN :
                  ResolveTakeover(takes, keep, claimed, arrives)
           \/ \E claimed, arrives \in BOOLEAN : AutoTakeover(claimed, arrives)
    <2>1. UNCHANGED made
        BY <1>8 DEF ResolveTakeover, AutoTakeover
    <2>2. \/ UNCHANGED pads
          \/ \E keep, claimed, arrives \in BOOLEAN : TakeOver(keep, claimed, arrives)
        BY <1>8 DEF ResolveTakeover, AutoTakeover, LeaveAlone
    <2>. QED BY <1>1, <1>7, <2>1, <2>2
<1>9. ASSUME NEW restore \in BOOLEAN, NEW arrives \in BOOLEAN, ResolveReplacement(restore, arrives)
      PROVE  ForeignLeftAlone
    <2>1. info = asker /\ UNCHANGED made
        BY <1>9 DEF ResolveReplacement, OwnConstants
    <2>2. CASE ~restore
        BY <1>1, <1>9, <2>1, <2>2 DEF ResolveReplacement
    <2>3. CASE restore
        <3>1. /\ info \in granted'
              /\ (arrives => plugged # None)
              /\ \E t : pads' = IF arrives THEN Takes(plugged, t) ELSE pads
            BY <1>9, <2>1, <2>3 DEF ResolveReplacement, Frame
        <3>2. arrives => (plugged = info)
            BY <1>0, <3>1 DEF Linked
        <3>3. \A q \in Pads \ {info} : pads'[q] = pads[q]
            BY <1>0, <3>1, <3>2 DEF Takes, Types, PadsOK
        <3>. QED BY <2>1, <3>1, <3>3, LeftAlone
    <2>. QED BY <2>2, <2>3
<1>10. CASE \/ Unplug \/ Status \/ PeriodicSync \/ SyncStart \/ SyncLoad \/ SyncGivesUp
            \/ UNCHANGED ovars
    <2>1. UNCHANGED <<pads, made>>
        BY <1>10 DEF Unplug, Status, PeriodicSync, SyncStart, SyncLoad, SyncGivesUp, ovars, world
    <2>. QED BY <1>1, <2>1
<1>. QED BY <1>2, <1>3, <1>4, <1>5, <1>6, <1>8, <1>9, <1>10 DEF OwnNext

\* A pad of another install changes by its own presses only, until the user or
\* the rule takes it over.
THEOREM ForeignAlone == OwnConstants => (OwnSpec => ForeignPadsLeftAlone)
<1>. SUFFICES ASSUME OwnConstants PROVE OwnSpec => ForeignPadsLeftAlone
    OBVIOUS
<1>1. IInv /\ [OwnNext]_ovars => [ForeignLeftAlone]_ovars
    BY ForeignStep
<1>. QED BY <1>1, Inductive, PTL DEF OwnSpec, ForeignPadsLeftAlone
===============================================================================
