-------------------------- MODULE CounterSyncProofs ---------------------------
(***************************************************************************)
(* The safety of the counter synchronisation, for every set of keys, every *)
(* bound and every mix of requests, cuts, losses and crashes.              *)
(***************************************************************************)
EXTENDS CounterSync, FiniteSetTheorems, TLAPS

-----------------------------------------------------------------------------
(* The inductive invariant *)

\* Records of presses there were.  Every copy of the counters is one.
Fit == {r \in Records : \A key \in Keys : r.k[key] <= ledger[key]}

Frames   == [c : Fit, force : BOOLEAN, seq : Nat, by : {"sync", "ipc"}]
Events   == [what : {"hello", "status", "result", "gone"}, c : Fit]
Replies  == [got : BOOLEAN, ok : BOOLEAN, c : Fit]
Syncs    == [at : {"none", "poll", "load", "save", "send", "await", "fail",
                   "store", "publish"},
             by : {"runtime", "ipc"}, snap : Fit, rec : Fit,
             force : BOOLEAN, tries : 0..3, seq : Nat, reply : Replies]
Results  == [ok : BOOLEAN, c : Fit]
Requests == [op : {"none", "reset", "restore", "import"},
             at : {"none", "zero", "load", "save", "push", "publish"},
             snap : Fit, c : Fit]
Counters == [presses : Nat, requests : Nat, cuts : Nat, lost : Nat, crashes : Nat,
             of : Budgets]

HistoryOK == ledger \in [Keys -> Nat] /\ fell \in BOOLEAN /\ owed \in BOOLEAN
PadOK     == pad \in Fit /\ nvs \in Fit /\ idle \in BOOLEAN
LinkOK    == linked \in BOOLEAN /\ toPad \in Seq(Frames) /\ toHost \in Seq(Events)
CopiesOK  == mem \in Fit /\ row \in Fit /\ synced \in [Keys -> Nat]
FlagsOK   == /\ known \in BOOLEAN /\ connected \in BOOLEAN /\ pending \in BOOLEAN
             /\ mode \in {"idle", "playing", "sync"}
SyncOK    == /\ sync \in Syncs
             /\ sync.at \in {"none", "poll", "load", "save", "send"} => sync.tries < 3
QueueOK   == wanted \subseteq {"runtime", "ipc"} /\ done \in Seq(Results)
IpcOK     == ipc \in Requests
BoundsOK  == bounds \in Counters

\* TypeOK, with every record a fit one
FitOK == /\ HistoryOK /\ PadOK /\ LinkOK /\ CopiesOK /\ FlagsOK
         /\ SyncOK /\ QueueOK /\ IpcOK /\ BoundsOK

\* The frame the running attempt waits for is the last a sync has sent, it
\* carries what the sync reports, and it is gone when its answer is there
Delivery ==
    /\ sync.reply.ok => sync.reply.got
    /\ sync.at = "await" =>
        \A i \in 1..Len(toPad) :
            /\ toPad[i].seq = sync.seq =>
                /\ toPad[i].by = "sync" /\ toPad[i].c = sync.rec
                /\ ~sync.reply.got
                /\ \A j \in 1..Len(toPad) : toPad[j].seq = sync.seq => j = i
            /\ toPad[i].by = "sync" =>
                \E j \in i..Len(toPad) : toPad[j].seq = sync.seq
    /\ sync.at \in {"store", "publish"} =>
        \A i \in 1..Len(toPad) : toPad[i].by = "ipc"

\* The pad has accepted what the sync reports
Taken ==
    \/ sync.at = "await" /\ sync.reply.ok
    \/ sync.at \in {"store", "publish"}

PadHasIt == Taken /\ ~fell => AtLeast(pad, sync.rec)

\* A forced sync is for the queued reset, and pays for it when it is taken
ResetIsQueued ==
    Syncing /\ sync.force => pending /\ (Taken => ~owed)

\* Without a request, every record a sync may save is at least the row
RowFollows ==
    bounds.requests = 0 =>
        /\ ~known => row = NoRecord /\ sync.at = "none"
        /\ ~pending /\ ipc = NoIpc
        /\ Syncing => ~sync.force /\ AtLeast(sync.rec, row)

IInv == FitOK /\ Delivery /\ PadHasIt /\ ResetIsQueued /\ RowFollows

-----------------------------------------------------------------------------
(* Queues *)

\* The empty queue is a queue of anything.
LEMMA EmptyIn ==
    ASSUME NEW S
    PROVE  <<>> \in Seq(S)
OBVIOUS

\* A queue of some things is one of more things.
LEMMA SeqIn ==
    ASSUME NEW S, NEW T, S \subseteq T, NEW q \in Seq(S)
    PROVE  q \in Seq(T)
OBVIOUS

\* The first of a queue, and those behind it, one place nearer.
LEMMA TailIn ==
    ASSUME NEW S, NEW q \in Seq(S), q # <<>>
    PROVE  /\ Head(q) \in S /\ Tail(q) \in Seq(S)
           /\ Head(q) = q[1] /\ Len(q) >= 1 /\ Len(Tail(q)) = Len(q) - 1
           /\ \A i \in 1..Len(Tail(q)) : Tail(q)[i] = q[i + 1]
OBVIOUS

\* The last of a longer queue, and those before it, where they were.
LEMMA AppendIn ==
    ASSUME NEW S, NEW q \in Seq(S), NEW e \in S
    PROVE  /\ Append(q, e) \in Seq(S) /\ Len(Append(q, e)) = Len(q) + 1
           /\ \A i \in 1..Len(q) : Append(q, e)[i] = q[i]
           /\ Append(q, e)[Len(q) + 1] = e
OBVIOUS

-----------------------------------------------------------------------------
(* Records *)

\* One record at least another, and that at least a third: merges only add
\* (AtLeast, the order reconcile_counters moves a row in).
LEMMA AtLeastTransitive ==
    ASSUME NEW a \in Records, NEW b \in Records, NEW c \in Records,
           AtLeast(a, b), AtLeast(b, c)
    PROVE  AtLeast(a, c)
<1>1. CASE a.gen > b.gen \/ b.gen > c.gen
    BY <1>1 DEF AtLeast, Records
<1>2. CASE a.gen = b.gen /\ b.gen = c.gen
    <2>1. \A key \in Keys : a.k[key] >= b.k[key] /\ b.k[key] >= c.k[key]
        BY <1>2 DEF AtLeast, Records
    <2>2. \A key \in Keys : a.k[key] \in Nat /\ b.k[key] \in Nat /\ c.k[key] \in Nat
        BY DEF Records
    <2>3. ASSUME NEW key \in Keys PROVE a.k[key] >= c.k[key]
        BY <2>1, <2>2
    <2>. QED BY <1>2, <2>3 DEF AtLeast
<1>. QED BY <1>1, <1>2 DEF AtLeast, Records

\* A record is at least itself, and any is at least no record.
LEMMA AtLeastItself ==
    ASSUME NEW a \in Records
    PROVE  AtLeast(a, a) /\ AtLeast(a, NoRecord)
BY DEF AtLeast, Records, NoRecord, Zero

\* reconcile_counters is a record at least what the PC had.
LEMMA ReconcileAdvances ==
    ASSUME NEW a \in Records, NEW b \in Records
    PROVE  Reconcile(a, b) \in Records /\ AtLeast(Reconcile(a, b), a)
<1>1. CASE a.gen > b.gen
    BY <1>1, AtLeastItself DEF Reconcile
<1>2. CASE b.gen > a.gen
    BY <1>2 DEF Reconcile, AtLeast, Records
<1>3. CASE a.gen = b.gen
    <2>. DEFINE m == [key \in Keys |-> Higher(a.k[key], b.k[key])]
    <2>1. Reconcile(a, b) = [gen |-> a.gen, k |-> m]
        BY <1>3 DEF Reconcile, Records
    <2>2. \A key \in Keys : a.k[key] \in Nat /\ b.k[key] \in Nat
        BY DEF Records
    <2>3. m \in [Keys -> Nat] /\ \A key \in Keys : m[key] >= a.k[key]
        BY <2>2 DEF Higher
    <2>4. a.gen \in Nat
        BY DEF Records
    <2>. QED BY <2>1, <2>3, <2>4 DEF AtLeast, Records
<1>. QED BY <1>1, <1>2, <1>3 DEF Records

-----------------------------------------------------------------------------
(* Fit records *)

\* A fit record is a record.
LEMMA FitIsRecord == Fit \subseteq Records
BY DEF Fit

\* Counts there were make a fit record, under any generation.
LEMMA FitIf ==
    ASSUME NEW gen \in Nat, NEW f \in [Keys -> Nat],
           \A key \in Keys : f[key] <= ledger[key]
    PROVE  [gen |-> gen, k |-> f] \in Fit
BY DEF Fit, Records

\* The generation of a fit record may be any other.
LEMMA FitByKeys ==
    ASSUME NEW gen \in Nat, NEW r \in Fit
    PROVE  [gen |-> gen, k |-> r.k] \in Fit
BY DEF Fit, Records

\* Zeros are of presses there were, whatever their generation: no row, an
\* erased flash, and what counter_reset makes.
LEMMA ZerosFit ==
    ASSUME HistoryOK, NEW gen \in Nat
    PROVE  [gen |-> gen, k |-> Zero] \in Fit
<1>1. Zero \in [Keys -> Nat] /\ \A key \in Keys : Zero[key] = 0
    BY DEF Zero
<1>2. \A key \in Keys : ledger[key] \in Nat
    BY DEF HistoryOK
<1>. QED BY <1>1, <1>2 DEF Fit, Records

\* So no row and an erased flash are fit.
LEMMA NoRecordFits ==
    ASSUME HistoryOK
    PROVE  NoRecord \in Fit /\ Erased \in Fit
BY ZerosFit DEF NoRecord, Erased

\* counter_reset keeps no count, so it invents none.
LEMMA ResetFits ==
    ASSUME HistoryOK, NEW a \in Fit, NEW b \in Fit
    PROVE  CounterReset(a, b) \in Fit
<1>1. a.gen \in Nat /\ b.gen \in Nat
    BY FitIsRecord DEF Records
<1>2. Higher(a.gen, b.gen + 1) \in Nat
    BY <1>1 DEF Higher
<1>. QED BY <1>2, ZerosFit DEF CounterReset

\* A new baseline is one side's counts under a newer generation.
LEMMA BaselineFits ==
    ASSUME NEW a \in Fit, NEW b \in Fit, NEW c \in Fit
    PROVE  NewBaseline(a, b, c.k) \in Fit
<1>1. a.gen \in Nat /\ b.gen \in Nat
    BY FitIsRecord DEF Records
<1>2. Higher(a.gen, b.gen) + 1 \in Nat
    BY <1>1 DEF Higher
<1>. QED BY <1>2, FitByKeys DEF NewBaseline

\* The merge takes each count from one of the two sides, so it invents none.
LEMMA ReconcileFits ==
    ASSUME NEW a \in Fit, NEW b \in Fit
    PROVE  Reconcile(a, b) \in Fit
<1>1. CASE a.gen # b.gen
    BY <1>1, FitIsRecord DEF Reconcile, Records
<1>2. CASE a.gen = b.gen
    <2>. DEFINE m == [key \in Keys |-> Higher(a.k[key], b.k[key])]
    <2>1. Reconcile(a, b) = [gen |-> a.gen, k |-> m]
        BY <1>2, FitIsRecord DEF Reconcile, Records
    <2>2. \A key \in Keys : m[key] = a.k[key] \/ m[key] = b.k[key]
        BY DEF Higher
    <2>3. \A key \in Keys : /\ a.k[key] <= ledger[key] /\ b.k[key] <= ledger[key]
                            /\ a.k[key] \in Nat /\ b.k[key] \in Nat
        BY DEF Fit, Records
    <2>4. m \in [Keys -> Nat] /\ \A key \in Keys : m[key] <= ledger[key]
        BY <2>2, <2>3
    <2>5. a.gen \in Nat
        BY DEF Fit, Records
    <2>. QED BY <2>1, <2>4, <2>5, FitIf
<1>. QED BY <1>1, <1>2

-----------------------------------------------------------------------------
(* A sequence number of its own *)

\* There is always a sequence number no frame on its way has, and no sync waits
\* for: there are more numbers than frames.
LEMMA Fresh ==
    ASSUME LinkOK
    PROVE  /\ FreshSeq \in Nat /\ FreshSeq # sync.seq
           /\ \A i \in 1..Len(toPad) : toPad[i].seq # FreshSeq
<1>. DEFINE n == Len(toPad)
            taken == [i \in 1..(n + 1) |-> IF i = n + 1 THEN sync.seq ELSE toPad[i].seq]
            used == {taken[i] : i \in 1..(n + 1)}
<1>1. n \in Nat
    BY DEF LinkOK
<1>2. IsFiniteSet(1..(n + 1)) /\ Cardinality(1..(n + 1)) = n + 1
    BY <1>1, FS_Interval
<1>3. taken \in Surjection(1..(n + 1), used)
    BY DEF Surjection
<1>4. IsFiniteSet(used) /\ Cardinality(used) <= n + 1
    BY <1>2, <1>3, FS_Surjection
<1>5. Cardinality(1..(n + 2)) = n + 2 /\ IsFiniteSet(1..(n + 2))
    BY <1>1, FS_Interval
<1>6. ~(1..(n + 2) \subseteq used)
    <2>. SUFFICES ASSUME 1..(n + 2) \subseteq used PROVE FALSE
        OBVIOUS
    <2>1. Cardinality(1..(n + 2)) <= Cardinality(used)
        BY <1>4, FS_Subset
    <2>2. Cardinality(used) \in Nat
        BY <1>4, FS_CardinalityType
    <2>3. Cardinality(used) >= n + 2
        BY <1>1, <1>5, <2>1, <2>2
    <2>4. Cardinality(used) <= n + 1
        BY <1>2, <1>4
    <2>. HIDE DEF used, n
    <2>. QED BY <1>1, <2>2, <2>3, <2>4
<1>7. PICK s \in 1..(n + 2) : s \notin used
    BY <1>6
<1>8. s # sync.seq /\ \A i \in 1..n : toPad[i].seq # s
    <2>1. taken[n + 1] = sync.seq /\ \A i \in 1..n : taken[i] = toPad[i].seq
        BY <1>1
    <2>2. sync.seq \in used /\ \A i \in 1..n : toPad[i].seq \in used
        BY <1>1, <2>1
    <2>. QED BY <1>7, <2>2
<1>9. FreshSeq \in 1..(n + 2) /\ FreshSeq # sync.seq /\ \A i \in 1..n : toPad[i].seq # FreshSeq
    BY <1>8 DEF FreshSeq
<1>. QED BY <1>1, <1>9

-----------------------------------------------------------------------------
(* Types *)

\* A fit record, and none but fit ones, is one of TypeOK's.
LEMMA FitIsTyped == FitOK => TypeOK /\ NoPressInvented
<1>. SUFFICES ASSUME FitOK PROVE TypeOK /\ NoPressInvented
    OBVIOUS
<1>1. Fit \subseteq Records
    BY FitIsRecord
<1>2. pad \in Records /\ nvs \in Records /\ mem \in Records /\ row \in Records
    BY <1>1 DEF FitOK, PadOK, CopiesOK
<1>3. toPad \in Seq([c : Records, force : BOOLEAN, seq : Nat, by : {"sync", "ipc"}])
    <2>1. Frames \subseteq [c : Records, force : BOOLEAN, seq : Nat, by : {"sync", "ipc"}]
        BY <1>1 DEF Frames
    <2>. QED BY <2>1, SeqIn DEF FitOK, LinkOK
<1>4. toHost \in Seq([what : {"hello", "status", "result", "gone"}, c : Records])
    <2>1. Events \subseteq [what : {"hello", "status", "result", "gone"}, c : Records]
        BY <1>1 DEF Events
    <2>. QED BY <2>1, SeqIn DEF FitOK, LinkOK
<1>5. done \in Seq([ok : BOOLEAN, c : Records])
    <2>1. Results \subseteq [ok : BOOLEAN, c : Records]
        BY <1>1 DEF Results
    <2>. QED BY <2>1, SeqIn DEF FitOK, QueueOK
<1>6. sync \in [at : {"none", "poll", "load", "save", "send", "await", "fail",
                      "store", "publish"},
                by : {"runtime", "ipc"}, snap : Records, rec : Records,
                force : BOOLEAN, tries : 0..3, seq : Nat,
                reply : [got : BOOLEAN, ok : BOOLEAN, c : Records]]
    <2>1. Replies \subseteq [got : BOOLEAN, ok : BOOLEAN, c : Records]
        BY <1>1 DEF Replies
    <2>. QED BY <1>1, <2>1 DEF FitOK, SyncOK, Syncs
<1>7. ipc \in [op : {"none", "reset", "restore", "import"},
               at : {"none", "zero", "load", "save", "push", "publish"},
               snap : Records, c : Records]
    BY <1>1 DEF FitOK, IpcOK, Requests
<1>8. TypeOK
    BY <1>2, <1>3, <1>4, <1>5, <1>6, <1>7
       DEF TypeOK, FitOK, HistoryOK, PadOK, LinkOK, CopiesOK, FlagsOK, QueueOK, BoundsOK, Counters
<1>9. NoPressInvented
    BY DEF NoPressInvented, FitOK, PadOK, CopiesOK, Fit
<1>. QED BY <1>8, <1>9

\* A behaviour starts with records of what the keys read then.
LEMMA InitFit == Init => FitOK
<1>. SUFFICES ASSUME Init PROVE FitOK
    OBVIOUS
<1>1. PICK c \in [gen : {1}, k : [Keys -> 0..MaxCount]] :
          pad = c /\ nvs = c /\ ledger = c.k
    BY DEF Init
<1>2. c.k \in [Keys -> Nat] /\ c = [gen |-> 1, k |-> c.k]
    BY CountAssumption
<1>3. HistoryOK
    BY <1>1, <1>2 DEF HistoryOK, Init
<1>4. \A key \in Keys : c.k[key] <= ledger[key]
    BY <1>1, <1>2
<1>5. c \in Fit
    BY <1>2, <1>4, FitIf
<1>6. NoRecord \in Fit
    BY <1>3, NoRecordFits
<1>7. PadOK
    BY <1>1, <1>5 DEF Init, PadOK
<1>8. LinkOK
    <2>1. <<>> \in Seq(Frames) /\ <<>> \in Seq(Events)
        BY EmptyIn
    <2>. QED BY <2>1 DEF Init, LinkOK
<1>9. CopiesOK
    BY <1>1, <1>5, <1>6 DEF Init, CopiesOK, Zero
<1>10. FlagsOK
    BY DEF Init, FlagsOK
<1>11. QueueOK
    <2>1. <<>> \in Seq(Results)
        BY EmptyIn
    <2>. QED BY <2>1 DEF Init, QueueOK
<1>12. SyncOK
    BY <1>6 DEF Init, SyncOK, Syncs, Replies, NoSync, NoReply
<1>13. IpcOK
    BY <1>6 DEF Init, IpcOK, Requests, NoIpc
<1>14. BoundsOK
    BY DEF Init, BoundsOK, Counters
<1>. QED BY <1>3, <1>7, <1>8, <1>9, <1>10, <1>11, <1>12, <1>13, <1>14 DEF FitOK

\* Presses only make more records fit.
LEMMA FitGrows ==
    ASSUME HistoryOK, NEW key \in Keys, ledger' = [ledger EXCEPT ![key] = @ + 1]
    PROVE  Fit \subseteq Fit'
<1>1. \A k \in Keys : ledger[k] \in Nat /\ ledger'[k] >= ledger[k]
    BY DEF HistoryOK
<1>2. ASSUME NEW r \in Fit PROVE r \in Fit'
    <2>1. r \in Records /\ \A k \in Keys : r.k[k] \in Nat /\ r.k[k] <= ledger[k]
        BY DEF Fit, Records
    <2>2. ASSUME NEW k \in Keys PROVE r.k[k] <= ledger'[k]
        BY <1>1, <2>1
    <2>. QED BY <2>1, <2>2 DEF Fit
<1>. QED BY <1>2

\* Without a press, the fit records are the same.
LEMMA FitStays ==
    ASSUME UNCHANGED ledger
    PROVE  /\ Fit' = Fit /\ Frames' = Frames /\ Events' = Events /\ Replies' = Replies
           /\ Syncs' = Syncs /\ Results' = Results /\ Requests' = Requests
           /\ Counters' = Counters
<1>1. Fit' = Fit
    BY DEF Fit
<1>. QED BY <1>1 DEF Frames, Events, Replies, Syncs, Results, Requests, Counters

\* What a step leaves alone keeps its type.
LEMMA PartsStay ==
    ASSUME FitOK, UNCHANGED ledger
    PROVE  /\ fell' = fell /\ owed' = owed => HistoryOK'
           /\ pad' = pad /\ nvs' = nvs /\ idle' = idle => PadOK'
           /\ linked' = linked /\ toPad' = toPad /\ toHost' = toHost => LinkOK'
           /\ mem' = mem /\ row' = row /\ synced' = synced => CopiesOK'
           /\ (known' = known /\ connected' = connected /\ pending' = pending
               /\ mode' = mode => FlagsOK')
           /\ sync' = sync => SyncOK'
           /\ wanted' = wanted /\ done' = done => QueueOK'
           /\ ipc' = ipc => IpcOK'
           /\ bounds' = bounds => BoundsOK'
BY FitStays DEF FitOK, HistoryOK, PadOK, LinkOK, CopiesOK, FlagsOK, SyncOK, QueueOK, IpcOK, BoundsOK

-----------------------------------------------------------------------------
(* Each step keeps the types *)

\* The event handled next carries a fit record.
LEMMA HeadEvent ==
    ASSUME FitOK, toHost # <<>>
    PROVE  Head(toHost).c \in Fit
<1>1. Head(toHost) \in Events
    BY TailIn DEF FitOK, LinkOK
<1>. QED BY <1>1 DEF Events

\* The frame the pad takes next carries one.
LEMMA HeadFrame ==
    ASSUME FitOK, toPad # <<>>
    PROVE  Head(toPad) \in Frames /\ Head(toPad).c \in Fit /\ Head(toPad).force \in BOOLEAN
<1>1. Head(toPad) \in Frames
    BY TailIn DEF FitOK, LinkOK
<1>. QED BY <1>1 DEF Frames

\* The result handled next carries one.
LEMMA HeadResult ==
    ASSUME FitOK, done # <<>>
    PROVE  Head(done).c \in Fit
<1>1. Head(done) \in Results
    BY TailIn DEF FitOK, QueueOK
<1>. QED BY <1>1 DEF Results

\* Zero counts every key.
LEMMA ZeroIsCounts == Zero \in [Keys -> Nat]
BY DEF Zero

\* Nobody running and nothing answered, with no record.
LEMMA NoReplyFits ==
    ASSUME FitOK
    PROVE  NoReply \in Replies
BY NoRecordFits DEF FitOK, NoReply, Replies

\* No sync is a sync with no record.
LEMMA NoSyncFits ==
    ASSUME FitOK
    PROVE  NoSync \in Syncs /\ NoSync.tries = 0
BY NoRecordFits, NoReplyFits DEF FitOK, NoSync, Syncs

\* No request is a request with no record.
LEMMA NoIpcFits ==
    ASSUME FitOK
    PROVE  NoIpc \in Requests
BY NoRecordFits DEF FitOK, NoIpc, Requests

\* The running sync, some of its fields replaced.
SyncAt(at, rec, tries, seq, reply) ==
    [at |-> at, by |-> sync.by, snap |-> sync.snap, rec |-> rec, force |-> sync.force,
     tries |-> tries, seq |-> seq, reply |-> reply]

\* The running sync is made of its fields.
LEMMA SyncIs ==
    ASSUME sync \in Syncs
    PROVE  sync = SyncAt(sync.at, sync.rec, sync.tries, sync.seq, sync.reply)
BY DEF Syncs, SyncAt

\* And of others of their types.
LEMMA SyncAtFits ==
    ASSUME sync \in Syncs, NEW rec \in Fit, NEW tries \in 0..3, NEW seq \in Nat,
           NEW reply \in Replies,
           NEW at \in {"send", "await", "fail", "store"}
    PROVE  /\ SyncAt(at, rec, tries, seq, reply) \in Syncs
           /\ SyncAt(at, rec, tries, seq, reply).at = at
           /\ SyncAt(at, rec, tries, seq, reply).tries = tries
BY DEF Syncs, SyncAt

\* A press adds to the history what it adds to the pad.
LEMMA PressTypes ==
    ASSUME FitOK, NEW key \in Keys, Press(key)
    PROVE  FitOK'
<1>1. ledger' = [ledger EXCEPT ![key] = @ + 1]
    BY DEF Press
<1>2. Fit \subseteq Fit'
    BY <1>1, FitGrows DEF FitOK
<1>3. HistoryOK'
    BY <1>1 DEF Press, FitOK, HistoryOK
<1>4. PadOK'
    <2>1. pad.gen \in Nat /\ pad.k \in [Keys -> Nat] /\ \A k \in Keys : pad.k[k] <= ledger[k]
        BY DEF FitOK, PadOK, Fit, Records
    <2>2. pad' = [gen |-> pad.gen, k |-> [pad.k EXCEPT ![key] = @ + 1]]
        BY DEF Press, FitOK, PadOK, Fit, Records
    <2>3. /\ [pad.k EXCEPT ![key] = @ + 1] \in [Keys -> Nat]
          /\ \A k \in Keys : [pad.k EXCEPT ![key] = @ + 1][k] <= ledger'[k]
        BY <1>1, <2>1 DEF FitOK, HistoryOK
    <2>4. pad' \in Fit'
        BY <2>1, <2>2, <2>3 DEF Fit, Records
    <2>. QED BY <1>2, <2>4 DEF Press, FitOK, PadOK
<1>5. LinkOK'
    <2>1. Frames \subseteq Frames' /\ Events \subseteq Events'
        BY <1>2 DEF Frames, Events
    <2>2. UNCHANGED <<linked, toPad, toHost>>
        BY DEF Press, link
    <2>. QED BY <2>1, <2>2, SeqIn DEF FitOK, LinkOK
<1>6. CopiesOK'
    BY <1>2 DEF Press, host, FitOK, CopiesOK
<1>7. FlagsOK'
    BY DEF Press, host, FitOK, FlagsOK
<1>8. SyncOK'
    <2>1. Replies \subseteq Replies'
        BY <1>2 DEF Replies
    <2>2. Syncs \subseteq Syncs'
        BY <1>2, <2>1 DEF Syncs
    <2>. QED BY <2>2 DEF Press, FitOK, SyncOK
<1>9. QueueOK'
    <2>1. Results \subseteq Results'
        BY <1>2 DEF Results
    <2>2. UNCHANGED <<wanted, done>>
        BY DEF Press
    <2>. QED BY <2>1, <2>2, SeqIn DEF FitOK, QueueOK
<1>10. IpcOK'
    BY <1>2 DEF Press, FitOK, IpcOK, Requests
<1>11. BoundsOK'
    BY DEF Press, Count, FitOK, BoundsOK, Counters
<1>. QED BY <1>3, <1>4, <1>5, <1>6, <1>7, <1>8, <1>9, <1>10, <1>11 DEF FitOK

\* The port goes, and leaves the pad one of the records it had, or none.
LEMMA DownTypes ==
    ASSUME FitOK, NEW now \in Fit, NEW flash \in Fit, LinkDown(now, flash)
    PROVE  FitOK'
<1>1. UNCHANGED <<ledger, idle, host, wanted, sync, done, ipc, owed>>
    BY DEF LinkDown
<1>2. PadOK'
    BY <1>1, FitStays DEF LinkDown, FitOK, PadOK
<1>3. LinkOK'
    <2>1. <<>> \in Seq(Frames)
        BY EmptyIn
    <2>2. [what |-> "gone", c |-> NoRecord] \in Events
        BY NoRecordFits DEF FitOK, Events
    <2>3. toHost' \in Seq(Events)
        BY <2>2, AppendIn DEF LinkDown, FitOK, LinkOK
    <2>. QED BY <1>1, <2>1, <2>3, FitStays DEF LinkDown, LinkOK
<1>4. HistoryOK'
    BY <1>1 DEF LinkDown, FitOK, HistoryOK
<1>5. BoundsOK'
    BY <1>1, FitStays DEF LinkDown, Count, FitOK, BoundsOK, Counters
<1>. QED BY <1>1, <1>2, <1>3, <1>4, <1>5, PartsStay DEF FitOK, host

\* The pad's own steps: every record stays a fit one.
LEMMA PadTypes ==
    ASSUME FitOK, PadNext
    PROVE  FitOK'
<1>1. CASE PadCheckpoint
    <2>1. UNCHANGED ledger
        BY <1>1 DEF PadCheckpoint, history
    <2>2. PadOK'
        BY <1>1, <2>1, FitStays DEF PadCheckpoint, FitOK, PadOK, padVars
    <2>. QED BY <1>1, <2>1, <2>2, PartsStay DEF PadCheckpoint, FitOK, padVars, link, host, history
<1>2. CASE PadBusy
    <2>1. UNCHANGED ledger
        BY <1>2 DEF PadBusy, history
    <2>2. PadOK'
        BY <1>2, <2>1, FitStays DEF PadBusy, FitOK, PadOK, padVars
    <2>. QED BY <1>2, <2>1, <2>2, PartsStay DEF PadBusy, FitOK, padVars, link, host, history
<1>3. CASE PadIdle
    <2>1. UNCHANGED ledger
        BY <1>3 DEF PadIdle, history
    <2>2. PadOK'
        BY <1>3, <2>1, FitStays DEF PadIdle, FitOK, PadOK, padVars
    <2>. QED BY <1>3, <2>1, <2>2, PartsStay DEF PadIdle, FitOK, padVars, link, host, history
<1>4. CASE PadStatus
    <2>1. UNCHANGED ledger
        BY <1>4 DEF PadStatus, history
    <2>2. LinkOK'
        <3>1. [what |-> "status", c |-> [gen |-> 0, k |-> pad.k]] \in Events
            BY FitByKeys DEF Events, FitOK, PadOK
        <3>2. toHost' \in Seq(Events)
            BY <1>4, <3>1, AppendIn DEF PadStatus, FitOK, LinkOK
        <3>. QED BY <1>4, <2>1, <3>2, FitStays DEF PadStatus, FitOK, LinkOK
    <2>3. SyncOK'
        BY <1>4, <2>1, FitStays DEF PadStatus, FitOK, SyncOK, Syncs
    <2>. QED BY <1>4, <2>1, <2>2, <2>3, PartsStay DEF PadStatus, FitOK, padVars, link, host, history
<1>5. CASE \E heard \in BOOLEAN : PadSync(heard)
    <2>. PICK heard \in BOOLEAN : PadSync(heard)
        BY <1>5
    <2>1. UNCHANGED ledger
        BY DEF PadSync, history
    <2>2. PadOK'
        BY <2>1, FitStays, HeadFrame DEF PadSync, FitOK, PadOK, padVars
    <2>3. LinkOK'
        <3>1. toPad' \in Seq(Frames)
            BY TailIn DEF PadSync, FitOK, LinkOK
        <3>2. [what |-> "result", c |-> pad'] \in Events
            BY <2>1, <2>2, FitStays DEF PadOK, Events
        <3>3. toHost' = IF heard THEN Append(toHost, [what |-> "result", c |-> pad']) ELSE toHost
            BY DEF PadSync
        <3>4. toHost' \in Seq(Events)
            BY <3>2, <3>3, AppendIn DEF FitOK, LinkOK
        <3>5. linked' \in BOOLEAN
            BY DEF PadSync, FitOK, LinkOK
        <3>. QED BY <2>1, <3>1, <3>4, <3>5, FitStays DEF LinkOK
    <2>4. SyncOK'
        BY <2>1, FitStays, HeadFrame DEF PadSync, FitOK, SyncOK, Syncs, Replies, PadOK, Acceptable
    <2>5. HistoryOK'
        BY <2>1, FitStays DEF PadSync, FitOK, HistoryOK, history
    <2>6. BoundsOK'
        BY <2>1, FitStays DEF PadSync, FitOK, BoundsOK, Counters, Left, Count
    <2>7. CopiesOK'
        <3>1. UNCHANGED <<mem, row, synced>>
            BY DEF PadSync, host
        <3>. QED BY <2>1, <3>1, PartsStay
    <2>8. FlagsOK'
        <3>1. UNCHANGED <<known, connected, pending, mode>>
            BY DEF PadSync, host
        <3>. QED BY <2>1, <3>1, PartsStay
    <2>9. QueueOK'
        <3>1. UNCHANGED <<wanted, done>>
            BY DEF PadSync, host
        <3>. QED BY <2>1, <3>1, PartsStay
    <2>10. IpcOK'
        <3>1. UNCHANGED ipc
            BY DEF PadSync, host
        <3>. QED BY <2>1, <3>1, PartsStay
    <2>. QED BY <2>2, <2>3, <2>4, <2>5, <2>6, <2>7, <2>8, <2>9, <2>10 DEF FitOK
<1>6. CASE \E k \in Keys : Press(k)
    BY <1>6, PressTypes
<1>. QED BY <1>1, <1>2, <1>3, <1>4, <1>5, <1>6 DEF PadNext

\* The link comes and goes: every record stays a fit one.
LEMMA LinkTypes ==
    ASSUME FitOK, LinkNext
    PROVE  FitOK'
<1>1. CASE LinkUp
    <2>1. UNCHANGED ledger
        BY <1>1 DEF LinkUp, history
    <2>2. LinkOK'
        BY <1>1, <2>1, FitStays, AppendIn DEF LinkUp, FitOK, LinkOK, Events, Frames, PadOK, link, padVars
    <2>. QED BY <1>1, <2>1, <2>2, PartsStay DEF LinkUp, FitOK, padVars, link, host, history
<1>2. CASE PortLost
    <2>1. pad \in Fit /\ nvs \in Fit
        BY NoRecordFits DEF FitOK, PadOK
    <2>. QED BY <1>2, <2>1, DownTypes DEF PortLost
<1>3. CASE PowerCut
    <2>1. nvs \in Fit /\ nvs \in Fit
        BY NoRecordFits DEF FitOK, PadOK
    <2>. QED BY <1>3, <2>1, DownTypes DEF PowerCut
<1>4. CASE NvsErased
    <2>1. Erased \in Fit /\ Erased \in Fit
        BY NoRecordFits DEF FitOK, PadOK
    <2>. QED BY <1>4, <2>1, DownTypes DEF NvsErased
<1>5. CASE FrameLost
    <2>1. UNCHANGED ledger
        BY <1>5 DEF FrameLost, history
    <2>2. LinkOK'
        BY <1>5, <2>1, FitStays, TailIn DEF FrameLost, FitOK, LinkOK, Events, Frames, link, padVars
    <2>3. BoundsOK'
        BY <1>5, <2>1, FitStays DEF FrameLost, FitOK, BoundsOK, Counters, Left, Count
    <2>. QED BY <1>5, <2>1, <2>2, <2>3, PartsStay DEF FrameLost, FitOK, padVars, link, host, history
<1>. QED BY <1>1, <1>2, <1>3, <1>4, <1>5 DEF LinkNext

\* The event loop: every record stays a fit one.
LEMMA RuntimeTypes ==
    ASSUME FitOK, RuntimeNext
    PROVE  FitOK'
<1>1. CASE Hello
    <2>1. UNCHANGED ledger
        BY <1>1 DEF Hello, history
    <2>2. LinkOK'
        BY <1>1, <2>1, FitStays, TailIn DEF Hello, FitOK, LinkOK, Events, Frames, link, padVars
    <2>3. CopiesOK'
        BY <1>1, <2>1, FitStays, HeadEvent, FitIsRecord DEF Hello, FitOK, CopiesOK, Records, host
    <2>4. FlagsOK'
        BY <1>1, <2>1, FitStays DEF Hello, FitOK, FlagsOK, host
    <2>5. QueueOK'
        BY <1>1, <2>1, FitStays DEF Hello, FitOK, QueueOK
    <2>. QED BY <1>1, <2>1, <2>2, <2>3, <2>4, <2>5, PartsStay DEF Hello, FitOK, padVars, link, host, history
<1>2. CASE Status
    <2>1. UNCHANGED ledger
        BY <1>2 DEF Status, history
    <2>2. LinkOK'
        BY <1>2, <2>1, FitStays, TailIn DEF Status, FitOK, LinkOK, Events, Frames, link, padVars
    <2>3. CopiesOK'
        <3>1. Head(toHost).c \in Fit
            BY <1>2, HeadEvent DEF Status
        <3>2. mem \in Records
            BY FitIsRecord DEF FitOK, CopiesOK
        <3>3. mem.gen \in Nat /\ mem' = [gen |-> mem.gen, k |-> Head(toHost).c.k]
            BY <1>2, <3>2 DEF Status, Records
        <3>4. mem' \in Fit
            BY <3>1, <3>3, FitByKeys
        <3>. QED BY <1>2, <2>1, <3>4, FitStays DEF Status, FitOK, CopiesOK
    <2>. QED BY <1>2, <2>1, <2>2, <2>3, PartsStay DEF Status, FitOK, padVars, link, host, history
<1>3. CASE SyncResult
    <2>1. UNCHANGED ledger
        BY <1>3 DEF SyncResult, history
    <2>2. LinkOK'
        BY <1>3, <2>1, FitStays, TailIn DEF SyncResult, FitOK, LinkOK, Events, Frames, link, padVars
    <2>3. CopiesOK'
        BY <1>3, <2>1, FitStays, HeadEvent DEF SyncResult, FitOK, CopiesOK, host
    <2>. QED BY <1>3, <2>1, <2>2, <2>3, PartsStay DEF SyncResult, FitOK, padVars, link, host, history
<1>4. CASE Gone
    <2>1. UNCHANGED ledger
        BY <1>4 DEF Gone, history
    <2>2. LinkOK'
        BY <1>4, <2>1, FitStays, TailIn DEF Gone, FitOK, LinkOK, Events, Frames, link, padVars
    <2>3. FlagsOK'
        BY <1>4, <2>1, FitStays DEF Gone, FitOK, FlagsOK, host
    <2>. QED BY <1>4, <2>1, <2>2, <2>3, PartsStay DEF Gone, FitOK, padVars, link, host, history
<1>5. CASE MapStart
    <2>1. UNCHANGED ledger
        BY <1>5 DEF MapStart, history
    <2>2. FlagsOK'
        BY <1>5, <2>1, FitStays DEF MapStart, FitOK, FlagsOK, host
    <2>. QED BY <1>5, <2>1, <2>2, PartsStay DEF MapStart, FitOK, padVars, link, host, history
<1>6. CASE MapOver
    <2>1. UNCHANGED ledger
        BY <1>6 DEF MapOver, history
    <2>2. FlagsOK'
        BY <1>6, <2>1, FitStays DEF MapOver, FitOK, FlagsOK, host
    <2>3. QueueOK'
        BY <1>6, <2>1, FitStays DEF MapOver, FitOK, QueueOK
    <2>. QED BY <1>6, <2>1, <2>2, <2>3, PartsStay DEF MapOver, FitOK, padVars, link, host, history
<1>7. CASE PeriodicSync
    <2>1. UNCHANGED ledger
        BY <1>7 DEF PeriodicSync, history
    <2>2. QueueOK'
        BY <1>7, <2>1, FitStays DEF PeriodicSync, FitOK, QueueOK
    <2>. QED BY <1>7, <2>1, <2>2, PartsStay DEF PeriodicSync, FitOK, padVars, link, host, history
<1>8. CASE SyncCompleted
    <2>1. UNCHANGED ledger
        BY <1>8 DEF SyncCompleted, history
    <2>2. FlagsOK'
        BY <1>8, <2>1, FitStays DEF SyncCompleted, FitOK, FlagsOK, host
    <2>3. CopiesOK'
        BY <1>8, <2>1, FitStays, HeadResult, FitIsRecord DEF SyncCompleted, FitOK, CopiesOK, Records, host
    <2>4. QueueOK'
        BY <1>8, <2>1, FitStays, TailIn DEF SyncCompleted, FitOK, QueueOK
    <2>. QED BY <1>8, <2>1, <2>2, <2>3, <2>4, PartsStay DEF SyncCompleted, FitOK, padVars, link, host, history
<1>. QED BY <1>1, <1>2, <1>3, <1>4, <1>5, <1>6, <1>7, <1>8 DEF RuntimeNext

\* A result reported is of a fit record.
LEMMA ReportQueues ==
    ASSUME FitOK, UNCHANGED <<ledger, wanted>>, NEW ok \in BOOLEAN, NEW c \in Fit, Report(ok, c)
    PROVE  QueueOK'
<1>1. [ok |-> ok, c |-> c] \in Results
    BY DEF Results
<1>2. done \in Seq(Results) /\ wanted \subseteq {"runtime", "ipc"}
    BY DEF FitOK, QueueOK
<1>3. Append(done, [ok |-> ok, c |-> c]) \in Seq(Results)
    BY <1>1, <1>2, AppendIn
<1>4. done' = done \/ done' = Append(done, [ok |-> ok, c |-> c])
    BY DEF Report
<1>5. done' \in Seq(Results) /\ wanted' \subseteq {"runtime", "ipc"}
    BY <1>2, <1>3, <1>4
<1>6. Results' = Results
    BY FitStays
<1>. QED BY <1>5, <1>6 DEF QueueOK

\* perform_sync: every record stays a fit one.
LEMMA SyncTypes ==
    ASSUME FitOK, SyncNext
    PROVE  FitOK'
<1>1. CASE \E by \in {"runtime", "ipc"} : SyncStart(by)
    <2>. PICK by \in {"runtime", "ipc"} : SyncStart(by)
        BY <1>1
    <2>1. UNCHANGED ledger
        BY DEF SyncStart, history
    <2>2. QueueOK'
        <3>1. [ok |-> TRUE, c |-> mem] \in Results
            BY DEF FitOK, CopiesOK, Results
        <3>2. Append(done, [ok |-> TRUE, c |-> mem]) \in Seq(Results)
            BY <3>1, AppendIn DEF FitOK, QueueOK
        <3>3. done' \in Seq(Results) /\ wanted' \subseteq {"runtime", "ipc"}
            BY <3>2 DEF SyncStart, FitOK, QueueOK
        <3>. QED BY <2>1, <3>3, FitStays DEF QueueOK
    <2>3. SyncOK'
        <3>1. CASE sync' = sync
            BY <2>1, <3>1, PartsStay
        <3>2. CASE sync' = [NoSync EXCEPT !.at = "poll", !.by = by, !.snap = mem]
            <4>1. mem \in Fit /\ NoRecord \in Fit /\ NoReply \in Replies
                BY NoRecordFits, NoReplyFits DEF FitOK, CopiesOK
            <4>2. sync' = [at |-> "poll", by |-> by, snap |-> mem, rec |-> NoRecord,
                           force |-> FALSE, tries |-> 0, seq |-> 0, reply |-> NoReply]
                BY <3>2 DEF NoSync
            <4>3. sync' \in Syncs /\ sync'.tries = 0
                BY <4>1, <4>2 DEF Syncs
            <4>. QED BY <2>1, <4>3, FitStays DEF SyncOK
        <3>. QED BY <3>1, <3>2 DEF SyncStart
    <2>. QED BY <2>1, <2>2, <2>3, PartsStay DEF SyncStart, FitOK, padVars, link, host, history
<1>2. CASE SyncNotIdle
    <2>1. UNCHANGED ledger
        BY <1>2 DEF SyncNotIdle, Report, history
    <2>2. SyncOK'
        BY <1>2, <2>1, FitStays, NoSyncFits DEF SyncNotIdle, Report, FitOK, SyncOK, Syncs
    <2>3. QueueOK'
        <3>1. NoRecord \in Fit /\ UNCHANGED wanted /\ Report(FALSE, NoRecord)
            BY <1>2, NoRecordFits DEF SyncNotIdle, FitOK
        <3>. QED BY <2>1, <3>1, ReportQueues
    <2>4. HistoryOK'
        BY <1>2, <2>1, FitStays DEF SyncNotIdle, Report, FitOK, HistoryOK, history
    <2>. QED BY <1>2, <2>1, <2>2, <2>3, <2>4, PartsStay DEF SyncNotIdle, Report, FitOK, padVars, link, host, history
<1>3. CASE SyncFail
    <2>1. UNCHANGED ledger
        BY <1>3 DEF SyncFail, Report, history
    <2>2. SyncOK'
        BY <1>3, <2>1, FitStays, NoSyncFits DEF SyncFail, Report, FitOK, SyncOK, Syncs
    <2>3. QueueOK'
        <3>1. NoRecord \in Fit /\ UNCHANGED wanted /\ Report(FALSE, NoRecord)
            BY <1>3, NoRecordFits DEF SyncFail, FitOK
        <3>. QED BY <2>1, <3>1, ReportQueues
    <2>4. HistoryOK'
        BY <1>3, <2>1, FitStays DEF SyncFail, Report, FitOK, HistoryOK, history
    <2>. QED BY <1>3, <2>1, <2>2, <2>3, <2>4, PartsStay DEF SyncFail, Report, FitOK, padVars, link, host, history
<1>4. CASE SyncLoad
    <2>1. UNCHANGED ledger
        BY <1>4 DEF SyncLoad, history
    <2>2. SyncOK'
        <3>1. row \in Fit /\ sync.snap \in Fit /\ sync.by \in {"runtime", "ipc"} /\ pending \in BOOLEAN
            BY DEF FitOK, CopiesOK, FlagsOK, SyncOK, Syncs
        <3>2. Reconcile(row, sync.snap) \in Fit
            BY <3>1, ReconcileFits
        <3>3. CounterReset(Reconcile(row, sync.snap), sync.snap) \in Fit
            BY <3>1, <3>2, ResetFits DEF FitOK
        <3>4. NoSync \in Syncs
            BY NoSyncFits
        <3>5. sync' \in Syncs
            BY <1>4, <3>1, <3>2, <3>3, <3>4 DEF SyncLoad, Syncs
        <3>6. sync'.tries = 0
            BY <1>4, <3>4 DEF SyncLoad, Syncs, NoSync
        <3>. QED BY <2>1, <3>5, <3>6, FitStays DEF SyncOK
    <2>. QED BY <1>4, <2>1, <2>2, PartsStay DEF SyncLoad, FitOK, padVars, link, host, history
<1>5. CASE SyncSave
    <2>1. UNCHANGED ledger
        BY <1>5 DEF SyncSave, history
    <2>2. CopiesOK'
        BY <1>5, <2>1, FitStays DEF SyncSave, FitOK, CopiesOK, SyncOK, Syncs, Save, host
    <2>3. SyncOK'
        BY <1>5, <2>1, FitStays DEF SyncSave, FitOK, SyncOK, Syncs
    <2>. QED BY <1>5, <2>1, <2>2, <2>3, PartsStay DEF SyncSave, FitOK, padVars, link, host, history
<1>6. CASE SyncSend
    <2>1. UNCHANGED ledger
        BY <1>6 DEF SyncSend, history
    <2>2. LinkOK'
        <3>1. FreshSeq \in Nat
            BY Fresh DEF FitOK
        <3>2. [c |-> sync.rec, force |-> sync.force, seq |-> FreshSeq, by |-> "sync"] \in Frames
            BY <3>1 DEF FitOK, SyncOK, Syncs, Frames
        <3>3. Append(toPad, [c |-> sync.rec, force |-> sync.force, seq |-> FreshSeq,
                             by |-> "sync"]) \in Seq(Frames)
            BY <3>2, AppendIn DEF FitOK, LinkOK
        <3>4. toPad' \in Seq(Frames)
            BY <1>6, <3>3 DEF SyncSend, FitOK, LinkOK
        <3>. QED BY <1>6, <2>1, <3>4, FitStays DEF SyncSend, FitOK, LinkOK
    <2>3. SyncOK'
        <3>1. FreshSeq \in Nat /\ NoReply \in Replies
            BY Fresh, NoReplyFits DEF FitOK
        <3>2. sync \in Syncs /\ sync.tries < 3
            BY <1>6 DEF SyncSend, FitOK, SyncOK
        <3>3. sync' \in Syncs /\ (sync'.at = "send" => sync'.tries < 3)
            <4>1. sync.tries + 1 \in 0..3 /\ sync.rec \in Fit
                BY <3>2 DEF Syncs
            <4>2. CASE linked
                <5>1. sync' = SyncAt("await", sync.rec, sync.tries + 1, FreshSeq, NoReply)
                    BY <1>6, <3>2, <4>2, SyncIs DEF SyncSend, SyncAt
                <5>. QED BY <3>1, <3>2, <4>1, <5>1, SyncAtFits
            <4>3. CASE ~linked
                <5>1. sync' = SyncAt(IF sync.tries < 2 THEN "send" ELSE "fail", sync.rec,
                                     sync.tries + 1, sync.seq, sync.reply)
                    BY <1>6, <3>2, <4>3, SyncIs DEF SyncSend, SyncAt
                <5>2. sync.seq \in Nat /\ sync.reply \in Replies /\ sync.tries \in 0..3
                    BY <3>2 DEF Syncs
                <5>. QED BY <3>2, <4>1, <5>1, <5>2, SyncAtFits
            <4>. QED BY <4>2, <4>3
        <3>4. sync'.at \in {"send", "await", "fail"}
            BY <1>6, <3>2 DEF SyncSend, Syncs
        <3>. QED BY <2>1, <3>3, <3>4, FitStays DEF SyncOK
    <2>. QED BY <1>6, <2>1, <2>2, <2>3, PartsStay DEF SyncSend, FitOK, padVars, link, host, history
<1>7. CASE SyncTimeout
    <2>1. UNCHANGED ledger
        BY <1>7 DEF SyncTimeout, history
    <2>2. SyncOK'
        BY <1>7, <2>1, FitStays DEF SyncTimeout, FitOK, SyncOK, Syncs, NextTry
    <2>3. BoundsOK'
        BY <1>7, <2>1, FitStays DEF SyncTimeout, FitOK, BoundsOK, Counters, Left, Count
    <2>. QED BY <1>7, <2>1, <2>2, <2>3, PartsStay DEF SyncTimeout, FitOK, padVars, link, host, history
<1>8. CASE SyncAccepted
    <2>1. UNCHANGED ledger
        BY <1>8 DEF SyncAccepted, history
    <2>2. SyncOK'
        <3>1. sync \in Syncs /\ NoReply \in Replies
            BY NoReplyFits DEF FitOK, SyncOK
        <3>2. sync' \in Syncs
            <4>1. sync' = SyncAt("store", sync.rec, 0, 0, NoReply)
                BY <1>8, <3>1, SyncIs DEF SyncAccepted, SyncAt
            <4>. QED BY <3>1, <4>1, SyncAtFits DEF Syncs
        <3>3. sync'.at = "store"
            BY <1>8, <3>1 DEF SyncAccepted, Syncs
        <3>. QED BY <2>1, <3>2, <3>3, FitStays DEF SyncOK
    <2>. QED BY <1>8, <2>1, <2>2, PartsStay DEF SyncAccepted, FitOK, padVars, link, host, history
<1>9. CASE SyncRejected
    <2>1. UNCHANGED ledger
        BY <1>9 DEF SyncRejected, history
    <2>2. CopiesOK'
        BY <1>9, <2>1, FitStays, ReconcileFits DEF SyncRejected, FitOK, CopiesOK, SyncOK, Syncs, Replies, Save, host
    <2>3. SyncOK'
        <3>1. sync \in Syncs /\ NoReply \in Replies
            BY NoReplyFits DEF FitOK, SyncOK
        <3>2. Reconcile(sync.rec, sync.reply.c) \in Fit
            BY <3>1, ReconcileFits DEF Syncs, Replies
        <3>3. sync' = [sync EXCEPT !.at = NextTry, !.rec = Reconcile(sync.rec, sync.reply.c),
                                   !.seq = 0, !.reply = NoReply]
            BY <1>9 DEF SyncRejected
        <3>4. sync' \in Syncs
            <4>1. sync' = SyncAt(NextTry, Reconcile(sync.rec, sync.reply.c), sync.tries, 0, NoReply)
                BY <3>1, <3>3, SyncIs DEF SyncAt
            <4>. QED BY <3>1, <3>2, <4>1, SyncAtFits DEF Syncs, NextTry
        <3>5. sync'.at = "fail" \/ (sync'.at = "send" /\ sync'.tries < 3)
            <4>1. sync'.at = NextTry /\ sync'.tries = sync.tries
                BY <3>1, <3>3 DEF Syncs
            <4>. QED BY <4>1 DEF NextTry
        <3>. QED BY <2>1, <3>4, <3>5, FitStays DEF SyncOK
    <2>. QED BY <1>9, <2>1, <2>2, <2>3, PartsStay DEF SyncRejected, FitOK, padVars, link, host, history
<1>10. CASE SyncStore
    <2>1. UNCHANGED ledger
        BY <1>10 DEF SyncStore, history
    <2>2. CopiesOK'
        BY <1>10, <2>1, FitStays DEF SyncStore, FitOK, CopiesOK, SyncOK, Syncs, Save, host
    <2>3. SyncOK'
        BY <1>10, <2>1, FitStays DEF SyncStore, FitOK, SyncOK, Syncs
    <2>. QED BY <1>10, <2>1, <2>2, <2>3, PartsStay DEF SyncStore, FitOK, padVars, link, host, history
<1>11. CASE SyncPublish
    <2>1. UNCHANGED ledger
        BY <1>11 DEF SyncPublish, Report, history
    <2>2. FlagsOK'
        BY <1>11, <2>1, FitStays DEF SyncPublish, Report, FitOK, FlagsOK, SyncOK, Syncs, host
    <2>3. CopiesOK'
        BY <1>11, <2>1, FitStays DEF SyncPublish, Report, FitOK, CopiesOK, SyncOK, Syncs, host
    <2>4. SyncOK'
        BY <1>11, <2>1, FitStays, NoSyncFits DEF SyncPublish, Report, FitOK, SyncOK, Syncs
    <2>5. QueueOK'
        <3>1. sync.rec \in Fit /\ UNCHANGED wanted /\ Report(TRUE, sync.rec)
            BY <1>11 DEF SyncPublish, FitOK, SyncOK, Syncs
        <3>. QED BY <2>1, <3>1, ReportQueues
    <2>6. HistoryOK'
        BY <1>11, <2>1, FitStays DEF SyncPublish, Report, FitOK, HistoryOK, history
    <2>. QED BY <1>11, <2>1, <2>2, <2>3, <2>4, <2>5, <2>6, PartsStay DEF SyncPublish, Report, FitOK, padVars, link, host, history
<1>. QED BY <1>1, <1>2, <1>3, <1>4, <1>5, <1>6, <1>7, <1>8, <1>9, <1>10, <1>11 DEF SyncNext

\* The IPC requests: every record stays a fit one.
LEMMA IpcTypes ==
    ASSUME FitOK, IpcNext
    PROVE  FitOK'
<1>1. CASE ForceSync
    <2>1. UNCHANGED ledger
        BY <1>1 DEF ForceSync, Request, history
    <2>2. QueueOK'
        BY <1>1, <2>1, FitStays DEF ForceSync, Request, FitOK, QueueOK
    <2>3. BoundsOK'
        BY <1>1, <2>1, FitStays DEF ForceSync, Request, FitOK, BoundsOK, Counters, Left, Count
    <2>. QED BY <1>1, <2>1, <2>2, <2>3, PartsStay DEF ForceSync, Request, FitOK, padVars, link, host, history
<1>2. CASE Reset
    <2>1. UNCHANGED ledger
        BY <1>2 DEF Reset, Request, history
    <2>2. IpcOK'
        BY <1>2, <2>1, FitStays, NoIpcFits DEF Reset, Request, FitOK, IpcOK, Requests
    <2>3. BoundsOK'
        BY <1>2, <2>1, FitStays DEF Reset, Request, FitOK, BoundsOK, Counters, Left, Count
    <2>. QED BY <1>2, <2>1, <2>2, <2>3, PartsStay DEF Reset, Request, FitOK, padVars, link, host, history
<1>3. CASE ResetZero
    <2>1. UNCHANGED ledger
        BY <1>3 DEF ResetZero, history
    <2>2. CopiesOK'
        BY <1>3, <2>1, FitStays, ZerosFit, FitIsRecord DEF ResetZero, FitOK, CopiesOK, Save, Records, host
    <2>3. IpcOK'
        <3>1. mem' \in Fit
            BY <2>1, <2>2, FitStays DEF CopiesOK
        <3>2. ipc' \in Requests
            BY <1>3, <3>1 DEF ResetZero, FitOK, IpcOK, Requests
        <3>. QED BY <2>1, <3>2, FitStays DEF IpcOK
    <2>. QED BY <1>3, <2>1, <2>2, <2>3, PartsStay DEF ResetZero, FitOK, padVars, link, host, history
<1>4. CASE ResetPush
    <2>1. UNCHANGED ledger
        BY <1>4 DEF ResetPush, history
    <2>2. LinkOK'
        <3>1. FreshSeq \in Nat
            BY Fresh DEF FitOK
        <3>2. [c |-> ipc.c, force |-> TRUE, seq |-> FreshSeq, by |-> "ipc"] \in Frames
            BY <3>1 DEF FitOK, IpcOK, Requests, Frames
        <3>3. Append(toPad, [c |-> ipc.c, force |-> TRUE, seq |-> FreshSeq, by |-> "ipc"])
                  \in Seq(Frames)
            BY <3>2, AppendIn DEF FitOK, LinkOK
        <3>4. toPad' \in Seq(Frames)
            BY <1>4, <3>3 DEF ResetPush, Push, FitOK, LinkOK
        <3>. QED BY <1>4, <2>1, <3>4, FitStays DEF ResetPush, FitOK, LinkOK
    <2>3. FlagsOK'
        BY <1>4, <2>1, FitStays DEF ResetPush, FitOK, FlagsOK, host
    <2>4. IpcOK'
        BY <1>4, <2>1, FitStays, NoIpcFits DEF ResetPush, FitOK, IpcOK, Requests
    <2>5. HistoryOK'
        BY <1>4, <2>1, FitStays DEF ResetPush, FitOK, HistoryOK, FlagsOK, history
    <2>. QED BY <1>4, <2>1, <2>2, <2>3, <2>4, <2>5, PartsStay DEF ResetPush, FitOK, padVars, link, host, history
<1>5. CASE \E op \in {"restore", "import"} : Rebase(op)
    <2>. PICK op \in {"restore", "import"} : Rebase(op)
        BY <1>5
    <2>1. UNCHANGED ledger
        BY DEF Rebase, Request, history
    <2>2. IpcOK'
        BY <2>1, FitStays, NoRecordFits DEF Rebase, Request, FitOK, IpcOK, Requests, CopiesOK
    <2>3. BoundsOK'
        BY <2>1, FitStays DEF Rebase, Request, FitOK, BoundsOK, Counters, Left, Count
    <2>. QED BY <2>1, <2>2, <2>3, PartsStay DEF Rebase, Request, FitOK, padVars, link, host, history
<1>6. CASE RebaseLoad
    <2>1. UNCHANGED ledger
        BY <1>6 DEF RebaseLoad, history
    <2>2. IpcOK'
        <3>1. ipc \in Requests /\ ipc.snap \in Fit /\ row \in Fit
            BY DEF FitOK, IpcOK, CopiesOK, Requests
        <3>2. NewBaseline(row, ipc.snap, row.k) \in Fit /\ NewBaseline(row, ipc.snap, ipc.snap.k) \in Fit
            BY <3>1, BaselineFits
        <3>3. NoIpc \in Requests
            BY NoIpcFits
        <3>4. ipc' \in Requests
            BY <1>6, <3>1, <3>2, <3>3 DEF RebaseLoad, Requests
        <3>. QED BY <2>1, <3>4, FitStays DEF IpcOK
    <2>. QED BY <1>6, <2>1, <2>2, PartsStay DEF RebaseLoad, FitOK, padVars, link, host, history
<1>7. CASE RebaseSave
    <2>1. UNCHANGED ledger
        BY <1>7 DEF RebaseSave, history
    <2>2. CopiesOK'
        BY <1>7, <2>1, FitStays DEF RebaseSave, FitOK, CopiesOK, IpcOK, Requests, Save, host
    <2>3. IpcOK'
        BY <1>7, <2>1, FitStays DEF RebaseSave, FitOK, IpcOK, Requests
    <2>. QED BY <1>7, <2>1, <2>2, <2>3, PartsStay DEF RebaseSave, FitOK, padVars, link, host, history
<1>8. CASE RebasePush
    <2>1. UNCHANGED ledger
        BY <1>8 DEF RebasePush, history
    <2>2. LinkOK'
        <3>1. FreshSeq \in Nat
            BY Fresh DEF FitOK
        <3>2. [c |-> ipc.c, force |-> TRUE, seq |-> FreshSeq, by |-> "ipc"] \in Frames
            BY <3>1 DEF FitOK, IpcOK, Requests, Frames
        <3>3. Append(toPad, [c |-> ipc.c, force |-> TRUE, seq |-> FreshSeq, by |-> "ipc"])
                  \in Seq(Frames)
            BY <3>2, AppendIn DEF FitOK, LinkOK
        <3>4. toPad' \in Seq(Frames)
            BY <1>8, <3>3 DEF RebasePush, Push, FitOK, LinkOK
        <3>. QED BY <1>8, <2>1, <3>4, FitStays DEF RebasePush, FitOK, LinkOK
    <2>3. IpcOK'
        BY <1>8, <2>1, FitStays DEF RebasePush, FitOK, IpcOK, Requests
    <2>. QED BY <1>8, <2>1, <2>2, <2>3, PartsStay DEF RebasePush, FitOK, padVars, link, host, history
<1>9. CASE RebasePublish
    <2>1. UNCHANGED ledger
        BY <1>9 DEF RebasePublish, history
    <2>2. CopiesOK'
        BY <1>9, <2>1, FitStays DEF RebasePublish, FitOK, CopiesOK, IpcOK, Requests, host
    <2>3. IpcOK'
        BY <1>9, <2>1, FitStays, NoIpcFits DEF RebasePublish, FitOK, IpcOK, Requests
    <2>. QED BY <1>9, <2>1, <2>2, <2>3, PartsStay DEF RebasePublish, FitOK, padVars, link, host, history
<1>. QED BY <1>1, <1>2, <1>3, <1>4, <1>5, <1>6, <1>7, <1>8, <1>9 DEF IpcNext

\* A crash: every record stays a fit one.
LEMMA CrashTypes ==
    ASSUME FitOK, DaemonCrash
    PROVE  FitOK'
<1>1. CASE DaemonCrash
    <2>1. UNCHANGED ledger
        BY <1>1 DEF DaemonCrash, history
    <2>2. LinkOK'
        BY <1>1, <2>1, FitStays, EmptyIn DEF DaemonCrash, FitOK, LinkOK, Events, Frames, link, padVars
    <2>3. CopiesOK'
        BY <1>1, <2>1, FitStays, ZeroIsCounts DEF DaemonCrash, FitOK, CopiesOK, host
    <2>4. FlagsOK'
        BY <1>1, <2>1, FitStays DEF DaemonCrash, FitOK, FlagsOK, host
    <2>5. SyncOK'
        BY <1>1, <2>1, FitStays, NoSyncFits DEF DaemonCrash, FitOK, SyncOK, Syncs
    <2>6. QueueOK'
        BY <1>1, <2>1, FitStays, EmptyIn DEF DaemonCrash, FitOK, QueueOK
    <2>7. IpcOK'
        BY <1>1, <2>1, FitStays, NoIpcFits DEF DaemonCrash, FitOK, IpcOK, Requests
    <2>8. HistoryOK'
        BY <1>1, <2>1, FitStays DEF DaemonCrash, FitOK, HistoryOK, history
    <2>9. BoundsOK'
        BY <1>1, <2>1, FitStays DEF DaemonCrash, FitOK, BoundsOK, Counters, Left, Count
    <2>. QED BY <1>1, <2>1, <2>2, <2>3, <2>4, <2>5, <2>6, <2>7, <2>8, <2>9, PartsStay DEF DaemonCrash, FitOK, padVars, link, host, history
<1>. QED BY <1>1

\* Every step keeps every record a fit one.
LEMMA TypeStep ==
    ASSUME FitOK, [Next]_vars
    PROVE  FitOK'
<1>1. CASE UNCHANGED vars
    <2>1. UNCHANGED ledger
        BY <1>1 DEF vars, history
    <2>2. HistoryOK' /\ PadOK' /\ LinkOK'
        BY <1>1, <2>1, PartsStay DEF vars, history, padVars, link
    <2>3. CopiesOK' /\ FlagsOK'
        BY <1>1, <2>1, PartsStay DEF vars, host
    <2>4. SyncOK' /\ QueueOK' /\ IpcOK' /\ BoundsOK'
        BY <1>1, <2>1, PartsStay DEF vars
    <2>. QED BY <2>2, <2>3, <2>4 DEF FitOK
<1>. QED BY <1>1, PadTypes, LinkTypes, RuntimeTypes, SyncTypes, IpcTypes, CrashTypes DEF Next

-----------------------------------------------------------------------------
(* Which steps move what the invariant is about *)

Requests0 == bounds.requests = 0

\* What a sync sends, what the pad has of it, and what it is for
Moved == <<pad, toPad, sync, row, known, pending, ipc, fell, owed>>

LinkGoes == PortLost \/ PowerCut \/ NvsErased

\* The event loop moves nothing of a running sync, but for a first hello.
LEMMA WhoMoves ==
    ASSUME FitOK, [Next]_vars
    PROVE  \/ UNCHANGED Moved /\ (Requests0' => Requests0)
           \/ \E k \in Keys : Press(k)
           \/ PadStatus
           \/ \E heard \in BOOLEAN : PadSync(heard)
           \/ LinkGoes \/ FrameLost \/ Hello \/ SyncNext \/ IpcNext \/ DaemonCrash
<1>1. CASE UNCHANGED vars
    BY <1>1 DEF vars, padVars, link, host, history, Moved, Requests0
<1>2. CASE PadCheckpoint
    BY <1>2 DEF PadCheckpoint, link, host, history, Moved, Requests0
<1>3. CASE PadBusy \/ PadIdle
    BY <1>3 DEF PadBusy, PadIdle, link, host, history, Moved, Requests0
<1>4. CASE LinkUp
    BY <1>4 DEF LinkUp, padVars, host, history, Moved, Requests0
<1>5. CASE Status \/ SyncResult \/ Gone
    BY <1>5 DEF Status, SyncResult, Gone, padVars, history, Moved, Requests0
<1>6. CASE MapStart \/ MapOver \/ PeriodicSync \/ SyncCompleted
    BY <1>6 DEF MapStart, MapOver, PeriodicSync, SyncCompleted, padVars, link, host, history,
                Moved, Requests0
<1>. QED BY <1>1, <1>2, <1>3, <1>4, <1>5, <1>6
         DEF Next, PadNext, LinkNext, RuntimeNext, LinkGoes

\* Requests are counted, nothing else is counted as one.
LEMMA RequestsCount ==
    ASSUME FitOK
    PROVE  /\ \A what \in {"presses", "cuts", "lost", "crashes"} :
                  Count(what) => Requests0' = Requests0
           /\ Request => ~Requests0'
BY DEF FitOK, BoundsOK, Counters, Count, Request, Requests0

-----------------------------------------------------------------------------
(* Delivery *)

\* A sync that waits for nothing expects nothing of the queue.
LEMMA NoneAwaited ==
    ASSUME sync'.at \notin {"await", "store", "publish"},
           sync'.reply.ok => sync'.reply.got
    PROVE  Delivery' /\ ~Taken'
BY DEF Delivery, Taken

\* A frame leaves the front of the queue, unanswered.
LEMMA Popped ==
    ASSUME FitOK, Delivery, toPad # <<>>, toPad' = Tail(toPad), UNCHANGED sync
    PROVE  Delivery'
<1>. DEFINE n == Len(toPad)
            m == Len(toPad')
<1>1. /\ n \in Nat /\ m \in Nat /\ n = m + 1
      /\ \A i \in 1..m : toPad'[i] = toPad[i + 1]
    BY TailIn DEF FitOK, LinkOK
<1>2. ASSUME sync.at = "await", NEW i \in 1..m
      PROVE  /\ toPad'[i].seq = sync.seq =>
                  /\ toPad'[i].by = "sync" /\ toPad'[i].c = sync.rec /\ ~sync.reply.got
                  /\ \A j \in 1..m : toPad'[j].seq = sync.seq => j = i
             /\ toPad'[i].by = "sync" => \E j \in i..m : toPad'[j].seq = sync.seq
    <2>1. i + 1 \in 1..n /\ toPad'[i] = toPad[i + 1]
        BY <1>1
    <2>2. \A j \in 1..m : j + 1 \in 1..n /\ toPad'[j] = toPad[j + 1]
        BY <1>1
    <2>3. ASSUME toPad'[i].seq = sync.seq
          PROVE  /\ toPad'[i].by = "sync" /\ toPad'[i].c = sync.rec /\ ~sync.reply.got
                 /\ \A j \in 1..m : toPad'[j].seq = sync.seq => j = i
        <3>1. /\ toPad'[i].by = "sync" /\ toPad'[i].c = sync.rec /\ ~sync.reply.got
              /\ \A j \in 1..n : toPad[j].seq = sync.seq => j = i + 1
            BY <1>2, <2>1, <2>3 DEF Delivery
        <3>2. ASSUME NEW j \in 1..m, toPad'[j].seq = sync.seq PROVE j = i
            BY <1>1, <2>2, <3>1, <3>2
        <3>. QED BY <3>1, <3>2
    <2>4. ASSUME toPad'[i].by = "sync"
          PROVE  \E j \in i..m : toPad'[j].seq = sync.seq
        <3>1. PICK j \in (i + 1)..n : toPad[j].seq = sync.seq
            BY <1>2, <2>1, <2>4 DEF Delivery
        <3>2. j - 1 \in i..m /\ j - 1 \in 1..m /\ (j - 1) + 1 = j
            BY <1>1, <3>1
        <3>. QED BY <2>2, <3>1, <3>2
    <2>. QED BY <2>3, <2>4
<1>3. ASSUME sync.at \in {"store", "publish"}, NEW i \in 1..m
      PROVE  toPad'[i].by = "ipc"
    <2>1. i + 1 \in 1..n /\ toPad'[i] = toPad[i + 1]
        BY <1>1
    <2>. QED BY <1>3, <2>1 DEF Delivery
<1>4. sync.reply.ok => sync.reply.got
    BY DEF Delivery
<1>. HIDE DEF n
<1>. QED BY <1>2, <1>3, <1>4 DEF Delivery

\* A frame with a number of its own joins the end of the queue, which no sync
\* waits for.
LEMMA Pushed ==
    ASSUME FitOK, Delivery, NEW f \in Frames, f.by = "ipc", f.seq = FreshSeq,
           toPad' = Append(toPad, f), UNCHANGED sync
    PROVE  Delivery'
<1>. DEFINE n == Len(toPad)
<1>1. /\ n \in Nat /\ Len(toPad') = n + 1 /\ toPad'[n + 1] = f
      /\ \A i \in 1..n : toPad'[i] = toPad[i]
    BY AppendIn DEF FitOK, LinkOK
<1>2. f.seq # sync.seq /\ f.by # "sync"
    BY Fresh DEF FitOK
<1>3. ASSUME sync.at = "await", NEW i \in 1..(n + 1)
      PROVE  /\ toPad'[i].seq = sync.seq =>
                  /\ toPad'[i].by = "sync" /\ toPad'[i].c = sync.rec /\ ~sync.reply.got
                  /\ \A j \in 1..(n + 1) : toPad'[j].seq = sync.seq => j = i
             /\ toPad'[i].by = "sync" => \E j \in i..(n + 1) : toPad'[j].seq = sync.seq
    <2>1. CASE i = n + 1
        BY <1>1, <1>2, <2>1
    <2>2. CASE i \in 1..n
        <3>1. toPad'[i].seq = sync.seq =>
                  /\ toPad'[i].by = "sync" /\ toPad'[i].c = sync.rec /\ ~sync.reply.got
                  /\ \A j \in 1..n : toPad'[j].seq = sync.seq => j = i
            BY <1>1, <1>3, <2>2 DEF Delivery
        <3>2. \A j \in 1..(n + 1) : toPad'[j].seq = sync.seq => j \in 1..n
            BY <1>1, <1>2
        <3>3. toPad'[i].by = "sync" => \E j \in i..(n + 1) : toPad'[j].seq = sync.seq
            BY <1>1, <1>3, <2>2 DEF Delivery
        <3>. QED BY <3>1, <3>2, <3>3
    <2>. QED BY <1>1, <2>1, <2>2
<1>4. ASSUME sync.at \in {"store", "publish"}, NEW i \in 1..(n + 1)
      PROVE  toPad'[i].by = "ipc"
    <2>1. CASE i = n + 1
        BY <1>1, <2>1
    <2>2. CASE i \in 1..n
        BY <1>1, <1>4, <2>2 DEF Delivery
    <2>. QED BY <1>1, <2>1, <2>2
<1>5. Len(toPad') = n + 1 /\ (sync.reply.ok => sync.reply.got)
    BY <1>1 DEF Delivery
<1>. HIDE DEF n
<1>. QED BY <1>3, <1>4, <1>5 DEF Delivery

\* Numbered frames reach the pad in order, so a sync waits for none but its last.
LEMMA DeliveryStep ==
    ASSUME FitOK, Delivery, [Next]_vars
    PROVE  Delivery'
<1>1. CASE UNCHANGED <<toPad, sync>>
    BY <1>1 DEF Delivery
<1>2. CASE PadStatus
    <2>1. CASE sync.at = "poll" /\ idle
        <3>1. sync'.at = "load" /\ sync'.reply = sync.reply
            BY <1>2, <2>1 DEF PadStatus, FitOK, SyncOK, Syncs
        <3>. QED BY <3>1, NoneAwaited DEF Delivery
    <2>2. CASE ~(sync.at = "poll" /\ idle)
        <3>1. sync' = [sync EXCEPT !.at = sync.at] /\ toPad' = toPad
            BY <1>2, <2>2 DEF PadStatus
        <3>2. sync' = sync
            BY <3>1 DEF FitOK, SyncOK, Syncs
        <3>. QED BY <1>1, <3>1, <3>2
    <2>. QED BY <2>1, <2>2
<1>3. ASSUME NEW heard \in BOOLEAN, PadSync(heard) PROVE Delivery'
    <2>. DEFINE m == Head(toPad)
    <2>1. toPad # <<>> /\ toPad' = Tail(toPad)
        BY <1>3 DEF PadSync
    <2>2. CASE ~(heard /\ Answers(m))
        <3>1. sync' = sync
            BY <1>3, <2>2 DEF PadSync
        <3>. QED BY <2>1, <3>1, Popped
    <2>3. CASE heard /\ Answers(m)
        <3>1. sync.at = "await" /\ m.seq = sync.seq
            BY <2>3 DEF Answers
        <3>2. /\ Len(toPad) \in Nat /\ Len(toPad') \in Nat /\ Len(toPad) = Len(toPad') + 1
              /\ m = toPad[1] /\ \A i \in 1..Len(toPad') : toPad'[i] = toPad[i + 1]
            BY <2>1, TailIn DEF FitOK, LinkOK
        <3>3. \A i \in 2..Len(toPad) : toPad[i].seq # sync.seq
            <4>1. 1 \in 1..Len(toPad) /\ \A i \in 2..Len(toPad) : i \in 1..Len(toPad) /\ i # 1
                BY <3>2
            <4>. QED BY <3>1, <3>2, <4>1 DEF Delivery
        <3>4. \A i \in 2..Len(toPad) : toPad[i].by # "sync"
            <4>. SUFFICES ASSUME NEW i \in 2..Len(toPad), toPad[i].by = "sync" PROVE FALSE
                OBVIOUS
            <4>1. i \in 1..Len(toPad) /\ \A j \in i..Len(toPad) : j \in 2..Len(toPad)
                BY <3>2
            <4>2. PICK j \in i..Len(toPad) : toPad[j].seq = sync.seq
                BY <3>1, <4>1 DEF Delivery
            <4>. QED BY <3>3, <4>1, <4>2
        <3>5. ASSUME NEW i \in 1..Len(toPad')
              PROVE  toPad'[i].seq # sync.seq /\ toPad'[i].by # "sync"
            <4>1. i + 1 \in 2..Len(toPad) /\ toPad'[i] = toPad[i + 1]
                BY <3>2
            <4>. QED BY <3>3, <3>4, <4>1
        <3>6. /\ sync'.at = sync.at /\ sync'.seq = sync.seq /\ sync'.rec = sync.rec
              /\ sync'.reply.got
            BY <1>3, <2>3 DEF PadSync, FitOK, SyncOK, Syncs
        <3>. QED BY <3>1, <3>5, <3>6 DEF Delivery
    <2>. QED BY <2>2, <2>3
<1>4. CASE LinkGoes
    <2>1. toPad' = <<>> /\ sync' = sync
        BY <1>4 DEF LinkGoes, PortLost, PowerCut, NvsErased, LinkDown
    <2>2. \A i \in 1..Len(<<>>) : FALSE
        OBVIOUS
    <2>. QED BY <2>1, <2>2 DEF Delivery
<1>5. CASE FrameLost
    BY <1>5, Popped DEF FrameLost
<1>6. CASE \E by \in {"runtime", "ipc"} : SyncStart(by)
    <2>. PICK by \in {"runtime", "ipc"} : SyncStart(by)
        BY <1>6
    <2>1. CASE sync' = sync
        BY <1>1, <2>1 DEF SyncStart, link
    <2>2. CASE sync' = [NoSync EXCEPT !.at = "poll", !.by = by, !.snap = mem]
        <3>1. sync'.at = "poll" /\ ~sync'.reply.ok
            BY <2>2 DEF NoSync, NoReply
        <3>. QED BY <3>1, NoneAwaited
    <2>. QED BY <2>1, <2>2 DEF SyncStart
<1>7. CASE SyncNotIdle \/ SyncFail \/ SyncPublish \/ DaemonCrash
    <2>1. sync' = NoSync
        BY <1>7 DEF SyncNotIdle, SyncFail, SyncPublish, DaemonCrash, Report
    <2>. QED BY <2>1, NoneAwaited DEF NoSync, NoReply
<1>8. CASE SyncLoad
    <2>1. sync'.at = "save" /\ sync'.reply = NoReply
        BY <1>8 DEF SyncLoad, NoSync
    <2>. QED BY <2>1, NoneAwaited DEF NoReply
<1>9. CASE SyncSave
    <2>1. sync'.at = "send" /\ sync'.reply = sync.reply
        BY <1>9 DEF SyncSave, FitOK, SyncOK, Syncs
    <2>. QED BY <2>1, NoneAwaited DEF Delivery
<1>10. CASE SyncSend
    <2>1. CASE linked
        <3>. DEFINE f == [c |-> sync.rec, force |-> sync.force, seq |-> FreshSeq, by |-> "sync"]
        <3>1. toPad' = Append(toPad, f)
            BY <1>10, <2>1 DEF SyncSend
        <3>2. /\ sync'.at = "await" /\ sync'.seq = FreshSeq /\ sync'.rec = sync.rec
              /\ sync'.reply = NoReply
            BY <1>10, <2>1 DEF SyncSend, FitOK, SyncOK, Syncs
        <3>3. f \in Frames
            BY Fresh DEF FitOK, SyncOK, Syncs, Frames
        <3>4. /\ Len(toPad) \in Nat /\ Len(toPad') = Len(toPad) + 1
              /\ toPad'[Len(toPad) + 1] = f
              /\ \A i \in 1..Len(toPad) : toPad'[i] = toPad[i]
            BY <3>1, <3>3, AppendIn DEF FitOK, LinkOK
        <3>5. \A i \in 1..Len(toPad) : toPad'[i].seq # FreshSeq
            BY <3>4, Fresh DEF FitOK
        <3>6. f.by = "sync" /\ f.c = sync.rec /\ f.seq = FreshSeq
            OBVIOUS
        <3>. DEFINE n == Len(toPad')
        <3>7. /\ n \in 1..n /\ toPad'[n] = f /\ \A i \in 1..n : n \in i..n
              /\ \A i \in 1..n : toPad'[i].seq = FreshSeq => i = n
            BY <3>4, <3>5
        <3>. HIDE DEF f, n
        <3>8. ~sync'.reply.got /\ ~sync'.reply.ok
            BY <3>2 DEF NoReply
        <3>9. ASSUME NEW i \in 1..n
              PROVE  /\ toPad'[i].seq = FreshSeq =>
                          /\ toPad'[i].by = "sync" /\ toPad'[i].c = sync.rec
                          /\ \A j \in 1..n : toPad'[j].seq = FreshSeq => j = i
                     /\ \E j \in i..n : toPad'[j].seq = FreshSeq
            BY <3>6, <3>7
        <3>. QED BY <3>2, <3>8, <3>9 DEF Delivery, n
    <2>2. CASE ~linked
        <3>1. sync'.at \in {"send", "fail"} /\ sync'.reply = sync.reply
            BY <1>10, <2>2 DEF SyncSend, FitOK, SyncOK, Syncs
        <3>. QED BY <3>1, NoneAwaited DEF Delivery
    <2>. QED BY <2>1, <2>2
<1>11. CASE SyncTimeout
    <2>1. sync'.at \in {"send", "fail"} /\ sync'.reply = sync.reply
        BY <1>11 DEF SyncTimeout, NextTry, FitOK, SyncOK, Syncs
    <2>. QED BY <2>1, NoneAwaited DEF Delivery
<1>12. CASE SyncAccepted
    <2>1. sync'.at = "store" /\ sync'.reply = NoReply /\ toPad' = toPad
        BY <1>12 DEF SyncAccepted, FitOK, SyncOK, Syncs, link
    <2>2. sync.at = "await" /\ sync.reply.got
        BY <1>12 DEF SyncAccepted, Delivery
    <2>3. ASSUME NEW i \in 1..Len(toPad) PROVE toPad[i].by = "ipc"
        <3>1. toPad[i].by \in {"sync", "ipc"}
            <4>1. toPad \in Seq(Frames)
                BY DEF FitOK, LinkOK
            <4>2. toPad[i] \in Frames
                BY <4>1
            <4>. QED BY <4>2 DEF Frames
        <3>2. Len(toPad) \in Nat
            BY DEF FitOK, LinkOK
        <3>3. \A j \in i..Len(toPad) : j \in 1..Len(toPad)
            BY <3>2
        <3>4. \A j \in 1..Len(toPad) : toPad[j].seq # sync.seq
            BY <2>2 DEF Delivery
        <3>5. toPad[i].by # "sync"
            BY <2>2, <3>3, <3>4 DEF Delivery
        <3>. QED BY <3>1, <3>5
    <2>. QED BY <2>1, <2>3 DEF Delivery, NoReply
<1>13. CASE SyncRejected
    <2>1. sync'.at \in {"send", "fail"} /\ sync'.reply = NoReply
        BY <1>13 DEF SyncRejected, NextTry, FitOK, SyncOK, Syncs
    <2>. QED BY <2>1, NoneAwaited DEF NoReply
<1>14. CASE SyncStore
    <2>1. sync.at = "store" /\ sync'.at = "publish" /\ sync'.reply = sync.reply /\ toPad' = toPad
        BY <1>14 DEF SyncStore, FitOK, SyncOK, Syncs, link
    <2>. QED BY <2>1 DEF Delivery
<1>15. CASE ResetPush \/ RebasePush
    <2>. DEFINE f == [c |-> ipc.c, force |-> TRUE, seq |-> FreshSeq, by |-> "ipc"]
    <2>1. f \in Frames
        BY Fresh DEF FitOK, IpcOK, Requests, Frames
    <2>2. f.by = "ipc" /\ f.seq = FreshSeq
        OBVIOUS
    <2>3. sync' = sync /\ (toPad' = toPad \/ toPad' = Append(toPad, f))
        BY <1>15 DEF ResetPush, RebasePush, Push
    <2>. HIDE DEF f
    <2>4. CASE toPad' = toPad
        BY <1>1, <2>3, <2>4
    <2>5. CASE toPad' = Append(toPad, f)
        BY <2>1, <2>2, <2>3, <2>5, Pushed
    <2>. QED BY <2>3, <2>4, <2>5
<1>16. CASE (\E k \in Keys : Press(k)) \/ Hello
    BY <1>1, <1>16 DEF Press, Hello, link
<1>17. CASE ForceSync \/ Reset \/ ResetZero \/ RebaseLoad \/ RebaseSave \/ RebasePublish
            \/ \E op \in {"restore", "import"} : Rebase(op)
    BY <1>1, <1>17 DEF ForceSync, Reset, ResetZero, RebaseLoad, RebaseSave, RebasePublish,
                       Rebase, link
<1>. QED BY <1>1, <1>2, <1>3, <1>4, <1>5, <1>6, <1>7, <1>8, <1>9, <1>10, <1>11, <1>12, <1>13,
            <1>14, <1>15, <1>16, <1>17, WhoMoves DEF SyncNext, IpcNext, Moved

-----------------------------------------------------------------------------
(* What the pad has *)

\* Once a sync has its answer, what still comes to the pad is an IPC request's.
LEMMA TakenThenIpc ==
    ASSUME FitOK, Delivery, Taken, toPad # <<>>
    PROVE  Head(toPad).by = "ipc"
<1>1. Head(toPad) = toPad[1] /\ Len(toPad) \in Nat /\ 1 \in 1..Len(toPad)
    BY TailIn DEF FitOK, LinkOK
<1>2. toPad[1].by \in {"sync", "ipc"}
    BY HeadFrame, <1>1 DEF Frames
<1>3. CASE sync.at = "await" /\ sync.reply.ok
    <2>1. sync.reply.got
        BY <1>3 DEF Delivery
    <2>2. \A j \in 1..Len(toPad) : toPad[j].seq # sync.seq
        BY <1>3, <2>1 DEF Delivery
    <2>3. toPad[1].by # "sync"
        BY <1>1, <1>3, <2>2 DEF Delivery
    <2>. QED BY <1>1, <1>2, <2>2, <2>3
<1>4. CASE sync.at \in {"store", "publish"}
    BY <1>1, <1>4 DEF Delivery
<1>. QED BY <1>3, <1>4 DEF Taken

\* What a sync reports, the pad took, and has or has been forced from.
LEMMA PadHasItStep ==
    ASSUME FitOK, Delivery, PadHasIt, [Next]_vars
    PROVE  PadHasIt'
<1>. SUFFICES ASSUME Taken', ~fell' PROVE AtLeast(pad', sync'.rec)
    BY DEF PadHasIt
<1>0. pad \in Records /\ sync.rec \in Records /\ sync \in Syncs
    BY FitIsRecord DEF FitOK, PadOK, SyncOK, Syncs
<1>1. CASE UNCHANGED <<sync, pad, fell>>
    BY <1>1 DEF PadHasIt, Taken
<1>2. ASSUME NEW k \in Keys, Press(k) PROVE AtLeast(pad', sync'.rec)
    <2>1. sync' = sync /\ fell' = fell
        BY <1>2 DEF Press
    <2>2. AtLeast(pad, sync.rec)
        BY <2>1 DEF PadHasIt, Taken
    <2>3. pad' = [gen |-> pad.gen, k |-> [pad.k EXCEPT ![k] = @ + 1]]
        BY <1>0, <1>2 DEF Press, Records
    <2>4. pad' \in Records /\ AtLeast(pad', pad)
        BY <1>0, <2>3 DEF Records, AtLeast
    <2>. QED BY <1>0, <2>1, <2>2, <2>4, AtLeastTransitive
<1>3. CASE PadStatus
    <2>1. pad' = pad /\ fell' = fell /\ sync'.rec = sync.rec /\ sync'.reply = sync.reply
        BY <1>0, <1>3 DEF PadStatus, padVars, history, Syncs
    <2>2. sync'.at \in {"await", "store", "publish"}
        BY DEF Taken
    <2>3. sync'.at = sync.at
        BY <1>0, <1>3, <2>2 DEF PadStatus, Syncs
    <2>. QED BY <2>1, <2>3 DEF PadHasIt, Taken
<1>4. ASSUME NEW heard \in BOOLEAN, PadSync(heard) PROVE AtLeast(pad', sync'.rec)
    <2>. DEFINE m == Head(toPad)
                ok == idle /\ Acceptable(pad, m.c, m.force)
    <2>1. /\ toPad # <<>>
          /\ pad' = IF ok THEN m.c ELSE pad
          /\ fell' = (fell \/ (Syncing /\ ok /\ m.by = "ipc"))
          /\ sync' = IF heard /\ Answers(m)
                        THEN [sync EXCEPT !.reply = [got |-> TRUE, ok |-> ok, c |-> pad']]
                        ELSE sync
        BY <1>4 DEF PadSync
    <2>. HIDE DEF ok
    <2>2. CASE heard /\ Answers(m)
        <3>1. sync.at = "await" /\ m.seq = sync.seq
            BY <2>2 DEF Answers
        <3>2. sync'.at = "await" /\ sync'.rec = sync.rec /\ (sync'.reply.ok <=> ok)
            BY <1>0, <2>1, <2>2, <3>1 DEF Syncs
        <3>3. ok
            BY <3>2 DEF Taken
        <3>4. m = toPad[1] /\ 1 \in 1..Len(toPad)
            BY <2>1, TailIn DEF FitOK, LinkOK
        <3>5. m.c = sync.rec
            BY <3>1, <3>4 DEF Delivery
        <3>. QED BY <1>0, <2>1, <3>2, <3>3, <3>5, AtLeastItself
    <2>3. CASE ~(heard /\ Answers(m))
        <3>1. sync' = sync /\ Taken
            BY <2>1, <2>3 DEF Taken
        <3>2. m.by = "ipc" /\ Syncing
            BY <2>1, <3>1, TakenThenIpc DEF Taken, Syncing
        <3>3. ~ok /\ ~fell
            BY <2>1, <3>2
        <3>. QED BY <2>1, <3>1, <3>3 DEF PadHasIt
    <2>. QED BY <2>2, <2>3
<1>5. CASE LinkGoes
    <2>1. PICK now, flash : LinkDown(now, flash)
        BY <1>5 DEF LinkGoes, PortLost, PowerCut, NvsErased
    <2>2. sync' = sync /\ fell' = (fell \/ (Syncing /\ pad' # pad))
        BY <2>1 DEF LinkDown
    <2>3. Taken /\ Syncing
        BY <2>2 DEF Taken, Syncing
    <2>. QED BY <2>2, <2>3 DEF PadHasIt
<1>6. CASE FrameLost
    BY <1>1, <1>6 DEF FrameLost, padVars, history
<1>7. CASE Hello
    BY <1>1, <1>7 DEF Hello, padVars, history
<1>8. CASE SyncNext
    <2>1. CASE SyncAccepted
        <3>1. sync'.rec = sync.rec /\ Taken /\ fell' = fell /\ pad' = pad
            BY <1>0, <2>1 DEF SyncAccepted, Syncs, Taken, history, padVars
        <3>. QED BY <3>1 DEF PadHasIt
    <2>2. CASE SyncStore
        <3>1. sync'.rec = sync.rec /\ Taken /\ fell' = fell /\ pad' = pad
            BY <1>0, <2>2 DEF SyncStore, Syncs, Taken, history, padVars
        <3>. QED BY <3>1 DEF PadHasIt
    <2>3. CASE SyncSend
        <3>1. CASE linked
            <4>1. sync'.at = "await" /\ sync'.reply = NoReply
                BY <1>0, <2>3, <3>1 DEF SyncSend, Syncs
            <4>. QED BY <4>1 DEF Taken, NoReply
        <3>2. CASE ~linked
            <4>1. sync'.at \in {"send", "fail"}
                BY <1>0, <2>3, <3>2 DEF SyncSend, Syncs
            <4>. QED BY <4>1 DEF Taken
        <3>. QED BY <3>1, <3>2
    <2>4. CASE SyncLoad \/ SyncSave
        <3>1. sync'.at \in {"save", "send"}
            BY <1>0, <2>4 DEF SyncLoad, SyncSave, NoSync, Syncs
        <3>. QED BY <3>1 DEF Taken
    <2>5. CASE SyncTimeout \/ SyncRejected
        <3>1. sync'.at \in {"send", "fail"}
            BY <1>0, <2>5 DEF SyncTimeout, SyncRejected, NextTry, Syncs
        <3>. QED BY <3>1 DEF Taken
    <2>6. CASE SyncNotIdle \/ SyncFail \/ SyncPublish
        <3>1. sync'.at = "none"
            BY <2>6 DEF SyncNotIdle, SyncFail, SyncPublish, Report, NoSync
        <3>. QED BY <3>1 DEF Taken
    <2>7. CASE \E by \in {"runtime", "ipc"} : SyncStart(by)
        <3>. PICK by \in {"runtime", "ipc"} : SyncStart(by)
            BY <2>7
        <3>1. sync'.at \in {"none", "poll"}
            BY DEF SyncStart, NoSync
        <3>. QED BY <3>1 DEF Taken
    <2>. QED BY <1>8, <2>1, <2>2, <2>3, <2>4, <2>5, <2>6, <2>7 DEF SyncNext
<1>9. CASE IpcNext
    <2>1. CASE ForceSync \/ Reset \/ ResetZero \/ ResetPush
        BY <1>1, <2>1 DEF ForceSync, Reset, ResetZero, ResetPush, padVars, history
    <2>2. CASE RebaseLoad \/ RebaseSave \/ RebasePush \/ RebasePublish
               \/ \E op \in {"restore", "import"} : Rebase(op)
        BY <1>1, <2>2 DEF RebaseLoad, RebaseSave, RebasePush, RebasePublish, Rebase, padVars,
                          history
    <2>. QED BY <1>9, <2>1, <2>2 DEF IpcNext
<1>10. CASE DaemonCrash
    <2>1. sync'.at = "none"
        BY <1>10 DEF DaemonCrash, NoSync
    <2>. QED BY <2>1 DEF Taken
<1>. QED BY <1>1, <1>2, <1>3, <1>4, <1>5, <1>6, <1>7, <1>8, <1>9, <1>10, WhoMoves DEF Moved

-----------------------------------------------------------------------------
(* The queued reset *)

\* A sync is forced for a reset that is still queued, and settles it when taken.
LEMMA ResetStep ==
    ASSUME FitOK, Delivery, ResetIsQueued, [Next]_vars
    PROVE  ResetIsQueued'
<1>. SUFFICES ASSUME Syncing', sync'.force PROVE pending' /\ (Taken' => ~owed')
    BY DEF ResetIsQueued
<1>0. /\ sync \in Syncs /\ pending \in BOOLEAN /\ owed \in BOOLEAN
      /\ sync.reply.ok => sync.reply.got
    BY DEF FitOK, SyncOK, FlagsOK, HistoryOK, Delivery
<1>1. CASE UNCHANGED <<sync, pending, owed>>
    BY <1>1 DEF ResetIsQueued, Syncing, Taken
<1>2. CASE PadStatus
    <2>1. /\ pending' = pending /\ owed' = owed /\ sync'.force = sync.force
          /\ sync'.reply = sync.reply
        BY <1>0, <1>2 DEF PadStatus, host, history, Syncs
    <2>2. sync'.at \notin {"none", "poll", "load"}
        BY DEF Syncing
    <2>3. sync'.at = sync.at
        BY <1>0, <1>2, <2>2 DEF PadStatus, Syncs
    <2>. QED BY <2>1, <2>3 DEF ResetIsQueued, Syncing, Taken
<1>3. ASSUME NEW heard \in BOOLEAN, PadSync(heard) PROVE pending' /\ (Taken' => ~owed')
    <2>. DEFINE m == Head(toPad)
                ok == idle /\ Acceptable(pad, m.c, m.force)
    <2>1. /\ owed' = IF ok /\ Answers(m) /\ sync.force THEN FALSE ELSE owed
          /\ sync' = IF heard /\ Answers(m)
                        THEN [sync EXCEPT !.reply = [got |-> TRUE, ok |-> ok, c |-> pad']]
                        ELSE sync
          /\ pending' = pending
        BY <1>3 DEF PadSync, host
    <2>. HIDE DEF ok
    <2>2. sync'.at = sync.at /\ sync'.force = sync.force
        BY <1>0, <2>1 DEF Syncs
    <2>3. pending /\ (Taken => ~owed) /\ sync.force
        BY <2>2 DEF ResetIsQueued, Syncing
    <2>4. CASE heard /\ Answers(m)
        <3>1. sync.at = "await"
            BY <2>4 DEF Answers
        <3>2. sync'.reply.ok <=> ok
            BY <1>0, <2>1, <2>4 DEF Syncs
        <3>3. Taken' => ok
            BY <2>2, <3>1, <3>2 DEF Taken
        <3>. QED BY <2>1, <2>3, <2>4, <3>3
    <2>5. CASE ~(heard /\ Answers(m))
        <3>1. sync' = sync
            BY <2>1, <2>5
        <3>. QED BY <2>1, <2>3, <3>1 DEF Taken
    <2>. QED BY <2>4, <2>5
<1>4. CASE (\E k \in Keys : Press(k)) \/ LinkGoes \/ FrameLost \/ Hello
    <2>1. UNCHANGED <<sync, pending, owed>>
        BY <1>4 DEF Press, LinkGoes, PortLost, PowerCut, NvsErased, LinkDown, FrameLost, Hello,
                    host, history
    <2>. QED BY <1>1, <2>1
<1>5. CASE SyncNext
    <2>1. CASE SyncLoad
        <3>1. /\ sync'.force = pending /\ sync'.at = "save"
              /\ pending' = pending
            BY <2>1 DEF SyncLoad, NoSync, host
        <3>. QED BY <3>1 DEF Taken
    <2>2. CASE SyncSave \/ SyncTimeout \/ SyncRejected
        <3>1. /\ sync'.at \in {"send", "fail"} /\ sync'.force = sync.force
              /\ pending' = pending
              /\ sync.at \notin {"none", "poll", "load"}
            BY <1>0, <2>2 DEF SyncSave, SyncTimeout, SyncRejected, NextTry, Syncs, host
        <3>. QED BY <3>1 DEF ResetIsQueued, Syncing, Taken
    <2>3. CASE SyncSend
        <3>1. /\ sync'.force = sync.force /\ pending' = pending /\ sync.at = "send"
            BY <1>0, <2>3 DEF SyncSend, Syncs, host
        <3>2. CASE linked
            <4>1. sync'.at = "await" /\ sync'.reply = NoReply
                BY <1>0, <2>3, <3>2 DEF SyncSend, Syncs
            <4>. QED BY <3>1, <4>1 DEF ResetIsQueued, Syncing, Taken, NoReply
        <3>3. CASE ~linked
            <4>1. sync'.at \in {"send", "fail"}
                BY <1>0, <2>3, <3>3 DEF SyncSend, Syncs
            <4>. QED BY <3>1, <4>1 DEF ResetIsQueued, Syncing, Taken
        <3>. QED BY <3>2, <3>3
    <2>4. CASE SyncAccepted \/ SyncStore
        <3>1. /\ Taken /\ Syncing /\ sync'.force = sync.force /\ UNCHANGED <<pending, owed>>
            BY <1>0, <2>4 DEF SyncAccepted, SyncStore, Syncs, host, history, Taken, Syncing
        <3>. QED BY <3>1 DEF ResetIsQueued
    <2>5. CASE SyncNotIdle \/ SyncFail \/ SyncPublish
        <3>1. sync'.at = "none"
            BY <2>5 DEF SyncNotIdle, SyncFail, SyncPublish, Report, NoSync
        <3>. QED BY <3>1 DEF Syncing
    <2>6. CASE \E by \in {"runtime", "ipc"} : SyncStart(by)
        <3>. PICK by \in {"runtime", "ipc"} : SyncStart(by)
            BY <2>6
        <3>1. sync'.at \in {"none", "poll"}
            BY DEF SyncStart, NoSync
        <3>. QED BY <3>1 DEF Syncing
    <2>. QED BY <1>5, <2>1, <2>2, <2>3, <2>4, <2>5, <2>6 DEF SyncNext
<1>6. CASE IpcNext
    <2>1. CASE ResetPush
        <3>1. sync' = sync /\ Syncing /\ sync.force
            BY <2>1 DEF ResetPush, Syncing
        <3>2. pending /\ (Taken => ~owed)
            BY <3>1 DEF ResetIsQueued
        <3>3. pending' /\ owed' = owed
            BY <2>1, <3>2, <1>0 DEF ResetPush
        <3>. QED BY <3>1, <3>2, <3>3 DEF Taken
    <2>2. CASE ForceSync \/ Reset \/ ResetZero
        BY <1>1, <2>2 DEF ForceSync, Reset, ResetZero, host, history
    <2>3. CASE RebaseLoad \/ RebaseSave \/ RebasePush \/ RebasePublish
               \/ \E op \in {"restore", "import"} : Rebase(op)
        BY <1>1, <2>3 DEF RebaseLoad, RebaseSave, RebasePush, RebasePublish, Rebase, host, history
    <2>. QED BY <1>6, <2>1, <2>2, <2>3 DEF IpcNext
<1>7. CASE DaemonCrash
    <2>1. sync'.at = "none"
        BY <1>7 DEF DaemonCrash, NoSync
    <2>. QED BY <2>1 DEF Syncing
<1>. QED BY <1>1, <1>2, <1>3, <1>4, <1>5, <1>6, <1>7, WhoMoves DEF Moved

-----------------------------------------------------------------------------
(* The row, while nobody asks for anything *)

\* What the row becomes is what it was, or a record a sync merged from it.
LEMMA RowStep ==
    ASSUME FitOK, RowFollows, [Next]_vars, Requests0'
    PROVE  RowFollows' /\ AtLeast(row', row)
<1>0. /\ sync \in Syncs /\ row \in Records /\ mem \in Records
      /\ sync.snap \in Records /\ sync.rec \in Records /\ sync.reply.c \in Records
      /\ known \in BOOLEAN /\ pending \in BOOLEAN /\ bounds.requests \in Nat
    BY FitIsRecord DEF FitOK, SyncOK, Syncs, Replies, CopiesOK, FlagsOK, BoundsOK, Counters
<1>1. CASE Requests0 /\ UNCHANGED <<sync, row, known, pending, ipc>>
    <2>1. AtLeast(row', row)
        BY <1>0, <1>1, AtLeastItself
    <2>. QED BY <1>1, <2>1 DEF RowFollows, Requests0, Syncing
<1>2. ASSUME Requests0
      PROVE  /\ ~known => row = NoRecord /\ sync.at = "none"
             /\ ~pending /\ ipc = NoIpc
             /\ Syncing => ~sync.force /\ AtLeast(sync.rec, row)
    BY <1>2 DEF RowFollows, Requests0
<1>3. CASE PadStatus
    <2>1. /\ Requests0 /\ UNCHANGED <<row, known, pending, ipc>>
          /\ sync'.rec = sync.rec /\ sync'.force = sync.force
          /\ sync'.at = sync.at \/ (sync.at = "poll" /\ sync'.at = "load")
        BY <1>0, <1>3 DEF PadStatus, host, Syncs, Requests0
    <2>2. AtLeast(row', row)
        BY <1>0, <2>1, AtLeastItself
    <2>. QED BY <1>2, <2>1, <2>2 DEF RowFollows, Syncing
<1>4. ASSUME NEW heard \in BOOLEAN, PadSync(heard)
      PROVE  RowFollows' /\ AtLeast(row', row)
    <2>1. /\ UNCHANGED <<row, known, pending, ipc>>
          /\ sync'.rec = sync.rec /\ sync'.force = sync.force /\ sync'.at = sync.at
        BY <1>0, <1>4 DEF PadSync, host, Syncs
    <2>2. Requests0
        BY <1>4, RequestsCount DEF PadSync, Requests0
    <2>3. AtLeast(row', row)
        BY <1>0, <2>1, AtLeastItself
    <2>. QED BY <1>2, <2>1, <2>2, <2>3 DEF RowFollows, Syncing
<1>5. CASE (\E k \in Keys : Press(k)) \/ LinkGoes \/ FrameLost
    <2>1. UNCHANGED <<sync, row, known, pending, ipc>>
        BY <1>5 DEF Press, LinkGoes, PortLost, PowerCut, NvsErased, LinkDown, FrameLost, host
    <2>2. Requests0
        BY <1>5, RequestsCount DEF Press, LinkGoes, PortLost, PowerCut, NvsErased, LinkDown, FrameLost
    <2>. QED BY <1>1, <2>1, <2>2
<1>6. CASE Hello
    <2>1. Requests0 /\ UNCHANGED <<sync, pending, ipc>> /\ known' /\ (known => row' = row)
        BY <1>6 DEF Hello, Requests0
    <2>2. CASE known
        <3>1. row' = row /\ AtLeast(row', row)
            BY <1>0, <2>1, <2>2, AtLeastItself
        <3>. QED BY <1>2, <2>1, <3>1 DEF RowFollows, Syncing
    <2>3. CASE ~known
        <3>1. row = NoRecord /\ sync.at = "none"
            BY <1>2, <2>1, <2>3
        <3>2. row' = row \/ row' = mem'
            BY <1>6 DEF Hello
        <3>3. mem' \in Records
            BY <1>6, HeadEvent, FitIsRecord DEF Hello
        <3>4. AtLeast(row', row)
            BY <1>0, <3>1, <3>2, <3>3, AtLeastItself
        <3>. QED BY <1>2, <2>1, <3>1, <3>4 DEF RowFollows, Syncing
    <2>. QED BY <2>2, <2>3
<1>7. CASE SyncNext
    <2>0. Requests0 /\ UNCHANGED <<known, ipc>>
        <3>1. CASE SyncTimeout
            BY <3>1, RequestsCount DEF SyncTimeout, host, Requests0
        <3>2. CASE \E by \in {"runtime", "ipc"} : SyncStart(by)
            BY <3>2 DEF SyncStart, host, Requests0
        <3>3. CASE SyncNotIdle \/ SyncLoad \/ SyncSave \/ SyncSend
            BY <3>3 DEF SyncNotIdle, SyncLoad, SyncSave, SyncSend, host, Requests0
        <3>4. CASE SyncAccepted \/ SyncRejected \/ SyncFail \/ SyncStore \/ SyncPublish
            BY <3>4 DEF SyncAccepted, SyncRejected, SyncFail, SyncStore, SyncPublish, host, Requests0
        <3>. QED BY <1>7, <3>1, <3>2, <3>3, <3>4 DEF SyncNext
    <2>1. CASE SyncLoad
        <3>1. ~pending /\ UNCHANGED <<row, pending>>
            BY <1>2, <2>0, <2>1 DEF SyncLoad, host
        <3>2. sync'.force = FALSE /\ sync'.rec = Reconcile(row, sync.snap)
            BY <2>1, <3>1 DEF SyncLoad, NoSync
        <3>3. AtLeast(sync'.rec, row') /\ AtLeast(row', row)
            BY <1>0, <3>1, <3>2, ReconcileAdvances, AtLeastItself
        <3>4. known
            BY <1>2, <2>0, <2>1 DEF SyncLoad
        <3>. QED BY <1>2, <2>0, <3>1, <3>2, <3>3, <3>4 DEF RowFollows
    <2>2. CASE SyncSave \/ SyncStore
        <3>1. /\ pending' = pending /\ sync'.force = sync.force /\ sync'.rec = sync.rec
              /\ Syncing /\ sync.at # "none" /\ (row' = row \/ row' = sync.rec)
            BY <1>0, <2>2 DEF SyncSave, SyncStore, Save, Syncing, Syncs
        <3>2. ~sync.force /\ AtLeast(sync.rec, row) /\ known
            BY <1>2, <2>0, <3>1
        <3>3. AtLeast(row', row) /\ AtLeast(sync'.rec, row')
            BY <1>0, <3>1, <3>2, AtLeastItself
        <3>. QED BY <1>2, <2>0, <3>1, <3>2, <3>3 DEF RowFollows
    <2>3. CASE SyncSend \/ SyncTimeout \/ SyncAccepted
        <3>1. /\ UNCHANGED <<row, pending>> /\ sync'.force = sync.force
              /\ sync'.rec = sync.rec /\ Syncing /\ sync.at # "none"
            BY <1>0, <2>3 DEF SyncSend, SyncTimeout, SyncAccepted, Syncing, Syncs, host
        <3>2. AtLeast(row', row)
            BY <1>0, <3>1, AtLeastItself
        <3>. QED BY <1>2, <2>0, <3>1, <3>2 DEF RowFollows
    <2>4. CASE SyncRejected
        <3>. DEFINE rec == Reconcile(sync.rec, sync.reply.c)
        <3>1. /\ pending' = pending /\ sync'.force = sync.force /\ sync'.rec = rec
              /\ Syncing /\ sync.at # "none" /\ (row' = row \/ row' = rec)
            BY <1>0, <2>4 DEF SyncRejected, Save, Syncing, Syncs
        <3>2. rec \in Records /\ AtLeast(rec, sync.rec)
            BY <1>0, ReconcileAdvances
        <3>3. ~sync.force /\ AtLeast(sync.rec, row) /\ known
            BY <1>2, <2>0, <3>1
        <3>. HIDE DEF rec
        <3>4. AtLeast(rec, row)
            BY <1>0, <3>2, <3>3, AtLeastTransitive
        <3>5. AtLeast(row', row) /\ AtLeast(sync'.rec, row')
            BY <1>0, <3>1, <3>2, <3>4, AtLeastItself
        <3>. QED BY <1>2, <2>0, <3>1, <3>3, <3>5 DEF RowFollows
    <2>5. CASE SyncNotIdle \/ SyncFail \/ SyncPublish
        <3>1. sync'.at = "none" /\ row' = row /\ (pending' => pending)
            BY <1>0, <2>5 DEF SyncNotIdle, SyncFail, SyncPublish, Report, NoSync, host
        <3>2. AtLeast(row', row)
            BY <1>0, <3>1, AtLeastItself
        <3>. QED BY <1>2, <2>0, <3>1, <3>2 DEF RowFollows, Syncing
    <2>6. CASE \E by \in {"runtime", "ipc"} : SyncStart(by)
        <3>. PICK by \in {"runtime", "ipc"} : SyncStart(by)
            BY <2>6
        <3>1. /\ UNCHANGED <<row, pending>>
              /\ sync'.at = "none" \/ (sync'.at = "poll" /\ known)
            BY DEF SyncStart, NoSync, host
        <3>2. AtLeast(row', row)
            BY <1>0, <3>1, AtLeastItself
        <3>. QED BY <1>2, <2>0, <3>1, <3>2 DEF RowFollows, Syncing
    <2>. QED BY <1>7, <2>1, <2>2, <2>3, <2>4, <2>5, <2>6 DEF SyncNext
<1>8. CASE IpcNext
    <2>1. CASE ForceSync \/ Reset \/ \E op \in {"restore", "import"} : Rebase(op)
        BY <2>1, RequestsCount DEF ForceSync, Reset, Rebase
    <2>2. CASE ResetZero \/ ResetPush \/ RebaseLoad \/ RebaseSave \/ RebasePush \/ RebasePublish
        <3>1. Requests0 /\ ipc # NoIpc
            BY <2>2 DEF ResetZero, ResetPush, RebaseLoad, RebaseSave, RebasePush, RebasePublish,
                        NoIpc, Requests0
        <3>. QED BY <1>2, <3>1
    <2>. QED BY <1>8, <2>1, <2>2 DEF IpcNext
<1>9. CASE DaemonCrash
    <2>1. /\ row' = row /\ (~known' => row' = NoRecord) /\ sync'.at = "none" /\ ~pending'
          /\ ipc' = NoIpc
        BY <1>9 DEF DaemonCrash, NoSync
    <2>2. AtLeast(row', row)
        BY <1>0, <2>1, AtLeastItself
    <2>. QED BY <2>1, <2>2 DEF RowFollows, Syncing
<1>10. CASE UNCHANGED Moved /\ (Requests0' => Requests0)
    BY <1>1, <1>10 DEF Moved
<1>. QED BY <1>3, <1>4, <1>5, <1>6, <1>7, <1>8, <1>9, <1>10, WhoMoves

-----------------------------------------------------------------------------
(* Theorems *)

\* The inductive invariant.
THEOREM Invariant == Spec => []IInv
<1>1. Init => IInv
    <2>. SUFFICES ASSUME Init PROVE IInv
        OBVIOUS
    <2>1. sync.at = "none" /\ ~sync.reply.ok
        BY DEF Init, NoSync, NoReply
    <2>2. ~known => row = NoRecord
        BY DEF Init
    <2>. QED BY <2>1, <2>2, InitFit
         DEF Init, IInv, Delivery, PadHasIt, Taken, ResetIsQueued, Syncing, RowFollows
<1>2. IInv /\ [Next]_vars => IInv'
    <2>. SUFFICES ASSUME IInv, [Next]_vars PROVE IInv'
        OBVIOUS
    <2>1. FitOK /\ Delivery /\ PadHasIt /\ ResetIsQueued /\ RowFollows
        BY DEF IInv
    <2>2. RowFollows'
        BY <2>1, RowStep DEF RowFollows, Requests0
    <2>. QED BY <2>1, <2>2, TypeStep, DeliveryStep, PadHasItStep, ResetStep DEF IInv
<1>. QED BY <1>1, <1>2, PTL DEF Spec

\* Every variable keeps its type.
THEOREM TypeCorrect == Spec => []TypeOK
<1>1. IInv => TypeOK
    BY FitIsTyped DEF IInv
<1>. QED BY <1>1, Invariant, PTL

\* No copy of a counter ever shows more than the presses there were
\* (reconcile_counters, perform_sync, the IPC restores).
THEOREM NoneInvented == Spec => []NoPressInvented
<1>1. IInv => NoPressInvented
    BY FitIsTyped DEF IInv
<1>. QED BY <1>1, Invariant, PTL

\* A sync that reports success tells the truth about the pad (perform_sync).
THEOREM SyncHolds == Spec => []SyncedPadHasIt
<1>1. IInv => SyncedPadHasIt
    BY DEF IInv, PadHasIt, Taken, SyncedPadHasIt
<1>. QED BY <1>1, Invariant, PTL

\* A reset queued while the pad is away leaves the queue only when the pad has
\* taken it, or with the daemon (PendingCounterReset, perform_sync).
THEOREM ResetIsPushed == Spec => QueuedResetIsPushed
<1>1. IInv /\ [Next]_vars => [pending /\ ~pending' => ~owed \/ DaemonCrash]_vars
    <2>. SUFFICES ASSUME IInv, [Next]_vars, pending, ~pending', ~DaemonCrash PROVE ~owed
        OBVIOUS
    <2>0. FitOK /\ ResetIsQueued
        BY DEF IInv
    <2>1. CASE pending' = pending
        BY <2>1
    <2>2. CASE SyncPublish
        <3>1. Syncing /\ sync.force /\ Taken
            BY <2>0, <2>2 DEF SyncPublish, Syncing, Taken, FitOK, FlagsOK, SyncOK, Syncs
        <3>. QED BY <2>0, <3>1 DEF ResetIsQueued
    <2>3. CASE ResetPush
        BY <2>3 DEF ResetPush
    <2>4. CASE SyncNext /\ ~SyncPublish
        <3>1. pending' = pending
            BY <2>4 DEF SyncNext, SyncStart, SyncNotIdle, SyncLoad, SyncSave, SyncSend, SyncTimeout,
                        SyncAccepted, SyncRejected, SyncFail, SyncStore, host
        <3>. QED BY <2>1, <3>1
    <2>5. CASE IpcNext /\ ~ResetPush
        <3>1. pending' = pending
            BY <2>5 DEF IpcNext, ForceSync, Reset, ResetZero, Rebase, RebaseLoad, RebaseSave,
                        RebasePush, RebasePublish, host
        <3>. QED BY <2>1, <3>1
    <2>6. CASE \/ \E k \in Keys : Press(k)
               \/ PadStatus \/ (\E heard \in BOOLEAN : PadSync(heard))
               \/ LinkGoes \/ FrameLost \/ Hello
        <3>1. pending' = pending
            BY <2>6 DEF Press, PadStatus, PadSync, LinkGoes, PortLost, PowerCut, NvsErased, LinkDown,
                        FrameLost, Hello, host
        <3>. QED BY <2>1, <3>1
    <2>. QED BY <2>0, <2>1, <2>2, <2>3, <2>4, <2>5, <2>6, WhoMoves DEF Moved
<1>. QED BY <1>1, Invariant, PTL DEF Spec, QueuedResetIsPushed

\* Until the user resets, restores or imports, the row never forgets
\* (reconcile_counters).
THEOREM RowIsKept == Spec => RowNeverForgets
<1>1. IInv /\ [Next]_vars => [bounds'.requests = 0 => AtLeast(row', row)]_vars
    BY RowStep DEF IInv, Requests0
<1>. QED BY <1>1, Invariant, PTL DEF Spec, RowNeverForgets
=============================================================================
