----------------------------- MODULE CounterSync ------------------------------
(***************************************************************************)
(* One pad, the daemon and its SQLite row: who holds which lifetime        *)
(* counters, and how a synchronisation, a reset or a restore moves them.   *)
(*                                                                         *)
(* The pad counts in RAM and checkpoints to NVS.  The daemon's event loop  *)
(* copies what the pad reports into its state (`mem`).  perform_sync runs  *)
(* in a task of its own, one at a time, and gives up its locks between its *)
(* steps; so do the IPC handlers.  A map, a lost frame, a late answer, a   *)
(* power cut and a daemon crash come between any two of them.              *)
(*                                                                         *)
(* Abstractions.  The pad answers a CounterSync in one step (PadRuntime    *)
(* takes it apart).  Sending from the pad and the daemon's broadcast       *)
(* channel are one queue, `toHost`.  PLAYING and COOLDOWN of the daemon    *)
(* are one mode, "playing": both refuse the same, and the storage's write  *)
(* guard moves with the mode.  The pad is ours, and it is the only one     *)
(* this PC knows.                                                          *)
(***************************************************************************)
EXTENDS CounterRules, Sequences

CONSTANTS
    Budgets,      \* bounds: the presses, requests (resets, restores, imports and
                  \*   forced syncs), cuts, losses and crashes of a behaviour, and
                  \*   whether its PC may start without a row for the pad
    MaxCount,     \* bound: counts of the records a behaviour starts from
    MaxQueue      \* bound: statuses and answers, and sync results, not yet handled

ASSUME CountAssumption == MaxCount \in Nat

VARIABLES
    pad,        \* the pad's counters, in RAM
    nvs,        \* the pad's counters, in flash
    idle,       \* the pad's state is IDLE
    linked,     \* the serial link is up and the handshake done
    toPad,      \* CounterSync frames on their way
    toHost,     \* device events the daemon's loop has still to handle
    mem,        \* DaemonState.counters
    row,        \* the pad's device_state row in SQLite
    known,      \* DaemonState.device_info is set
    connected,  \* DaemonState.device_connected
    mode,       \* RuntimeMode
    pending,    \* PendingOperations.pending_device_push
    synced,     \* last_synced_counters
    wanted,     \* who waits for perform_sync: the runtime, an IPC client
    sync,       \* the perform_sync that is running
    done,       \* results of the runtime's syncs still to handle
    ipc,        \* the IPC request that is running
    bounds,     \* presses, requests, cuts, losses and crashes so far
    ledger,     \* history: per key, what it read at the start and its presses
    fell,       \* history: the pad lost counts since the running sync loaded
    owed        \* history: the pad has yet to take the reset that was queued

padVars  == <<pad, nvs, idle>>
link     == <<linked, toPad, toHost>>
host     == <<mem, row, known, connected, mode, pending, synced>>
history  == <<ledger, fell, owed>>
vars     == <<padVars, link, host, wanted, sync, done, ipc, bounds, history>>

NoReply  == [got |-> FALSE, ok |-> FALSE, c |-> NoRecord]
NoSync   == [at |-> "none", by |-> "runtime", snap |-> NoRecord, rec |-> NoRecord,
             force |-> FALSE, tries |-> 0, seq |-> 0, reply |-> NoReply]
NoIpc    == [op |-> "none", at |-> "none", snap |-> NoRecord, c |-> NoRecord]
Erased   == [gen |-> 1, k |-> Zero]

\* perform_sync has chosen what to send
Syncing == sync.at \notin {"none", "poll", "load"}

Left(what)  == bounds[what] < bounds.of[what]
Count(what) == bounds' = [bounds EXCEPT ![what] = @ + 1]

\* save_device_state: refused while the write guard is on
Save(c) == row' = IF mode = "playing" THEN row ELSE c

Init ==
    /\ \E b \in Budgets :
           bounds = [presses |-> 0, requests |-> 0, cuts |-> 0, lost |-> 0,
                     crashes |-> 0, of |-> b]
    /\ \E c \in [gen : {1}, k : [Keys -> 0..MaxCount]] :
           pad = c /\ nvs = c /\ ledger = c.k
    /\ row \in IF bounds.of.newPC THEN {NoRecord, pad} ELSE {pad}
    /\ idle = TRUE /\ linked = FALSE /\ toPad = <<>> /\ toHost = <<>>
    /\ mem = row /\ known = (row # NoRecord) /\ connected = FALSE
    /\ mode = "idle" /\ pending = FALSE /\ synced = Zero
    /\ wanted = {} /\ sync = NoSync /\ done = <<>> /\ ipc = NoIpc
    /\ fell = FALSE /\ owed = FALSE

-----------------------------------------------------------------------------
(* The pad *)

Press(k) ==
    /\ Left("presses")
    /\ Count("presses")
    /\ pad' = [pad EXCEPT !.k[k] = @ + 1]
    /\ ledger' = [ledger EXCEPT ![k] = @ + 1]
    /\ UNCHANGED <<nvs, idle, link, host, wanted, sync, done, ipc, fell, owed>>

PadCheckpoint ==
    /\ idle /\ nvs # pad
    /\ nvs' = pad
    /\ UNCHANGED <<pad, idle, link, host, wanted, sync, done, ipc, bounds, history>>

\* The pad hears of a map, and is IDLE again some time after it
PadBusy ==
    /\ linked /\ mode = "playing" /\ idle
    /\ idle' = FALSE
    /\ UNCHANGED <<pad, nvs, link, host, wanted, sync, done, ipc, bounds, history>>

PadIdle ==
    /\ ~idle /\ (mode # "playing" \/ ~linked)
    /\ idle' = TRUE
    /\ UNCHANGED <<pad, nvs, link, host, wanted, sync, done, ipc, bounds, history>>

\* A status answers a poll.  perform_sync goes on when it says IDLE; the event
\* loop gets its counts, in an event that names no device and no generation.
PadStatus ==
    /\ linked /\ Len(toHost) < MaxQueue
    /\ toHost' = Append(toHost, [what |-> "status", c |-> [gen |-> 0, k |-> pad.k]])
    /\ sync' = [sync EXCEPT !.at = IF @ = "poll" /\ idle THEN "load" ELSE @]
    /\ UNCHANGED <<padVars, linked, toPad, host, wanted, done, ipc, bounds, history>>

\* Mutant: any answer will do
AnswersAnything(m) == sync.at = "await"

\* An answer is the running attempt's if it has its sequence number
Answers(m) == sync.at = "await" /\ sync.seq = m.seq

\* counters_sync_from_host, and the reply that carries the pad's counters; a
\* reply that fails its CRC is heard by neither the sync nor the event loop
PadSync(heard) ==
    /\ toPad # <<>> /\ Len(toHost) < MaxQueue
    /\ IF heard THEN UNCHANGED bounds ELSE Left("lost") /\ Count("lost")
    /\ LET m   == Head(toPad)
           ok  == idle /\ Acceptable(pad, m.c, m.force)
           now == IF ok THEN m.c ELSE pad
       IN  /\ pad' = now
           /\ nvs' = IF ok THEN now ELSE nvs
           /\ toHost' = IF heard THEN Append(toHost, [what |-> "result", c |-> now]) ELSE toHost
           /\ sync' = IF heard /\ Answers(m)
                         THEN [sync EXCEPT !.reply = [got |-> TRUE, ok |-> ok, c |-> now]]
                         ELSE sync
           /\ fell' = (fell \/ (Syncing /\ ok /\ m.by = "ipc"))
           /\ owed' = IF ok /\ Answers(m) /\ sync.force THEN FALSE ELSE owed
    /\ toPad' = Tail(toPad)
    /\ UNCHANGED <<idle, linked, host, wanted, done, ipc, ledger>>

-----------------------------------------------------------------------------
(* The link *)

\* HelloAck: the counters and who sent them
LinkUp ==
    /\ ~linked
    /\ linked' = TRUE
    /\ toHost' = Append(toHost, [what |-> "hello", c |-> pad])
    /\ UNCHANGED <<padVars, toPad, host, wanted, sync, done, ipc, bounds, history>>

\* The port goes, and maybe the power and with it the RAM
LinkDown(now, flash) ==
    /\ linked /\ Left("cuts")
    /\ Count("cuts")
    /\ linked' = FALSE /\ toPad' = <<>>
    /\ toHost' = Append(toHost, [what |-> "gone", c |-> NoRecord])
    /\ pad' = now /\ nvs' = flash
    /\ fell' = (fell \/ (Syncing /\ now # pad))
    /\ UNCHANGED <<idle, host, wanted, sync, done, ipc, ledger, owed>>

PortLost  == LinkDown(pad, nvs)
PowerCut  == LinkDown(nvs, nvs)
NvsErased == LinkDown(Erased, Erased)

\* A frame fails its CRC on the way to the pad
FrameLost ==
    /\ toPad # <<>> /\ Left("lost")
    /\ Count("lost")
    /\ toPad' = Tail(toPad)
    /\ UNCHANGED <<padVars, linked, toHost, host, wanted, sync, done, ipc, history>>

-----------------------------------------------------------------------------
(* The daemon's event loop: RuntimeController.on_event *)

\* HelloAck: Counters, then DeviceConnected.  A pad not seen before is saved.
Hello ==
    /\ toHost # <<>> /\ Head(toHost).what = "hello"
    /\ toHost' = Tail(toHost)
    /\ mem' = Head(toHost).c /\ synced' = mem'.k
    /\ known' = TRUE /\ connected' = TRUE
    /\ row' = IF ~known /\ mode = "idle" THEN mem' ELSE row
    /\ wanted' = IF mode = "idle" THEN wanted \cup {"runtime"} ELSE wanted
    /\ UNCHANGED <<padVars, linked, toPad, mode, pending, sync, done, ipc, bounds, history>>

\* A status event moves the counts but keeps the generation held before
Status ==
    /\ toHost # <<>> /\ Head(toHost).what = "status"
    /\ toHost' = Tail(toHost)
    /\ mem' = [mem EXCEPT !.k = Head(toHost).c.k]
    /\ UNCHANGED <<padVars, linked, toPad, row, known, connected, mode, pending,
                   synced, wanted, sync, done, ipc, bounds, history>>

SyncResult ==
    /\ toHost # <<>> /\ Head(toHost).what = "result"
    /\ toHost' = Tail(toHost)
    /\ mem' = Head(toHost).c
    /\ UNCHANGED <<padVars, linked, toPad, row, known, connected, mode, pending,
                   synced, wanted, sync, done, ipc, bounds, history>>

Gone ==
    /\ toHost # <<>> /\ Head(toHost).what = "gone"
    /\ toHost' = Tail(toHost)
    /\ connected' = FALSE
    /\ UNCHANGED <<padVars, linked, toPad, mem, row, known, mode, pending, synced,
                   wanted, sync, done, ipc, bounds, history>>

MapStart ==
    /\ mode # "playing"
    /\ mode' = "playing"
    /\ UNCHANGED <<padVars, link, mem, row, known, connected, pending, synced,
                   wanted, sync, done, ipc, bounds, history>>

\* Mutant: SYNC mode is entered, and nobody is asked to sync
MapOverSilent ==
    /\ mode = "playing"
    /\ mode' = "sync"
    /\ UNCHANGED <<padVars, link, mem, row, known, connected, pending, synced,
                   wanted, sync, done, ipc, bounds, history>>

\* The cooldown after a map is over: writes are allowed again, and a sync
MapOver ==
    /\ mode = "playing"
    /\ mode' = "sync" /\ wanted' = wanted \cup {"runtime"}
    /\ UNCHANGED <<padVars, link, mem, row, known, connected, pending, synced,
                   sync, done, ipc, bounds, history>>

\* Tick, every 300 s: only if the counts moved since the last sync
PeriodicSync ==
    /\ connected /\ mode = "idle" /\ mem.k # synced /\ "runtime" \notin wanted
    /\ wanted' = wanted \cup {"runtime"}
    /\ UNCHANGED <<padVars, link, host, sync, done, ipc, bounds, history>>

SyncCompleted ==
    /\ done # <<>>
    /\ done' = Tail(done)
    /\ mode' = IF mode = "sync" THEN "idle" ELSE mode
    /\ IF Head(done).ok
          THEN mem' = Head(done).c /\ synced' = mem'.k
          ELSE UNCHANGED <<mem, synced>>
    /\ UNCHANGED <<padVars, link, row, known, connected, pending, wanted, sync, ipc,
                   bounds, history>>

-----------------------------------------------------------------------------
(* perform_sync *)

\* The runtime hears the result; an IPC client gets it in its response
Report(ok, c) ==
    /\ sync' = NoSync /\ fell' = FALSE
    /\ done' = IF sync.by = "runtime" THEN Append(done, [ok |-> ok, c |-> c]) ELSE done

\* SYNC_LOCK is free: snapshot; without a pad there is nothing to do
SyncStart(by) ==
    /\ sync.at = "none" /\ by \in wanted /\ Len(done) < MaxQueue
    /\ wanted' = wanted \ {by}
    /\ IF known /\ connected
          THEN /\ sync' = [NoSync EXCEPT !.at = "poll", !.by = by, !.snap = mem]
               /\ UNCHANGED done
          ELSE /\ done' = IF by = "runtime" THEN Append(done, [ok |-> TRUE, c |-> mem])
                                            ELSE done
               /\ UNCHANGED sync
    /\ UNCHANGED <<padVars, link, host, ipc, bounds, history>>

\* 3 s of polling and no IDLE
SyncNotIdle ==
    /\ sync.at = "poll" /\ (~idle \/ ~linked)
    /\ Report(FALSE, NoRecord)
    /\ UNCHANGED <<padVars, link, host, wanted, ipc, bounds, ledger, owed>>

\* Mutant: the queued reset is taken off the queue when the sync begins
LoadTakesReset ==
    /\ sync.at = "load"
    /\ LET rec == Reconcile(row, sync.snap)
       IN  sync' = [NoSync EXCEPT !.at = "save", !.by = sync.by, !.force = pending,
                        !.rec = IF pending THEN CounterReset(rec, sync.snap) ELSE rec]
    /\ pending' = FALSE
    /\ UNCHANGED <<padVars, link, mem, row, known, connected, mode, synced, wanted,
                   done, ipc, bounds, history>>

\* A reset made while the pad was away wins, however the rest reconciles
SyncLoad ==
    /\ sync.at = "load"
    /\ LET rec == Reconcile(row, sync.snap)
       IN  sync' = [NoSync EXCEPT !.at = "save", !.by = sync.by, !.force = pending,
                        !.rec = IF pending THEN CounterReset(rec, sync.snap) ELSE rec]
    /\ UNCHANGED <<padVars, link, host, wanted, done, ipc, bounds, history>>

SyncSave ==
    /\ sync.at = "save"
    /\ Save(sync.rec)
    /\ sync' = [sync EXCEPT !.at = "send"]
    /\ UNCHANGED <<padVars, link, mem, known, connected, mode, pending, synced,
                   wanted, done, ipc, bounds, history>>

\* Mutant: a fourth attempt
NextTryOneMore == IF sync.tries < 4 THEN "send" ELSE "fail"

NextTry == IF sync.tries < 3 THEN "send" ELSE "fail"

\* A sequence number of its own: no frame on its way has it, and no sync waits
\* for its answer
FreshSeq ==
    CHOOSE s \in 1..(Len(toPad) + 2) :
        s # sync.seq /\ \A i \in 1..Len(toPad) : toPad[i].seq # s

\* Each of up to three attempts has a sequence number of its own
SyncSend ==
    /\ sync.at = "send"
    /\ IF linked
          THEN /\ toPad' = Append(toPad, [c |-> sync.rec, force |-> sync.force,
                                          seq |-> FreshSeq, by |-> "sync"])
               /\ sync' = [sync EXCEPT !.at = "await", !.tries = @ + 1,
                                       !.seq = FreshSeq, !.reply = NoReply]
          ELSE /\ sync' = [sync EXCEPT !.tries = @ + 1,
                                       !.at = IF sync.tries < 2 THEN "send" ELSE "fail"]
               /\ UNCHANGED toPad
    /\ UNCHANGED <<padVars, linked, toHost, host, wanted, done, ipc, bounds, history>>

\* 2 s and no matching answer: it, or the request, is lost or still on its way
SyncTimeout ==
    /\ sync.at = "await" /\ ~sync.reply.got
    /\ IF \E i \in 1..Len(toPad) : toPad[i].seq = sync.seq
          THEN Left("lost") /\ Count("lost")
          ELSE UNCHANGED bounds
    /\ sync' = [sync EXCEPT !.at = NextTry, !.seq = 0]
    /\ UNCHANGED <<padVars, link, host, wanted, done, ipc, history>>

SyncAccepted ==
    /\ sync.at = "await" /\ sync.reply.ok
    /\ sync' = [sync EXCEPT !.at = "store", !.tries = 0, !.seq = 0, !.reply = NoReply]
    /\ UNCHANGED <<padVars, link, host, wanted, done, ipc, bounds, history>>

\* The refusal says what the pad has now: reconcile again, save, try again
SyncRejected ==
    /\ sync.at = "await" /\ sync.reply.got /\ ~sync.reply.ok
    /\ LET rec == Reconcile(sync.rec, sync.reply.c)
       IN  /\ sync' = [sync EXCEPT !.at = NextTry, !.rec = rec, !.seq = 0, !.reply = NoReply]
           /\ IF rec # sync.rec THEN Save(rec) ELSE UNCHANGED row
    /\ UNCHANGED <<padVars, link, mem, known, connected, mode, pending, synced,
                   wanted, done, ipc, bounds, history>>

\* Three attempts failed: the row keeps what was saved, mem what was reported
SyncFail ==
    /\ sync.at = "fail"
    /\ Report(FALSE, NoRecord)
    /\ UNCHANGED <<padVars, link, host, wanted, ipc, bounds, ledger, owed>>

SyncStore ==
    /\ sync.at = "store"
    /\ Save(sync.rec)
    /\ sync' = [sync EXCEPT !.at = "publish"]
    /\ UNCHANGED <<padVars, link, mem, known, connected, mode, pending, synced,
                   wanted, done, ipc, bounds, history>>

\* The queued reset is removed when it equals the one delivered
SyncPublish ==
    /\ sync.at = "publish"
    /\ pending' = (pending /\ ~sync.force)
    /\ mem' = sync.rec
    /\ Report(TRUE, sync.rec)
    /\ UNCHANGED <<padVars, link, row, known, connected, mode, synced, wanted, ipc,
                   bounds, ledger, owed>>

-----------------------------------------------------------------------------
(* IPC requests, each refused during a map *)

Request == /\ mode # "playing" /\ Left("requests")
           /\ Count("requests")

ForceSync ==
    /\ Request
    /\ wanted' = wanted \cup {"ipc"}
    /\ UNCHANGED <<padVars, link, host, sync, done, ipc, history>>

\* ResetCounters: the mode is looked at first
Reset ==
    /\ Request /\ ipc = NoIpc
    /\ ipc' = [NoIpc EXCEPT !.op = "reset", !.at = "zero"]
    /\ UNCHANGED <<padVars, link, host, wanted, sync, done, history>>

\* Then mem takes a new generation of zeros and, for a known pad, the row
ResetZero ==
    /\ ipc.at = "zero"
    /\ mem' = [gen |-> mem.gen + 1, k |-> Zero]
    /\ IF known THEN Save(mem') ELSE UNCHANGED row
    /\ ipc' = [ipc EXCEPT !.at = "push", !.c = mem']
    /\ UNCHANGED <<padVars, link, known, connected, mode, pending, synced, wanted,
                   sync, done, bounds, history>>

\* send_counter_sync with force; nobody waits for the answer
Push(c) ==
    toPad' = IF linked
                THEN Append(toPad, [c |-> c, force |-> TRUE, seq |-> FreshSeq, by |-> "ipc"])
                ELSE toPad

\* Connected, it is sent; away, it is queued, in the place of one queued before
ResetPush ==
    /\ ipc.op = "reset" /\ ipc.at = "push"
    /\ IF connected
          THEN Push(ipc.c) /\ UNCHANGED <<pending, owed>>
          ELSE /\ pending' = TRUE
               /\ owed' = (~pending \/ owed)
               /\ UNCHANGED toPad
    /\ ipc' = NoIpc
    /\ UNCHANGED <<padVars, linked, toHost, mem, row, known, connected, mode, synced,
                   wanted, sync, done, bounds, ledger, fell>>

\* RestoreDeviceFromPc and ImportPcFromDevice: the row's counts, or mem's
Rebase(op) ==
    /\ Request /\ ipc = NoIpc
    /\ known /\ connected
    /\ ipc' = [op |-> op, at |-> "load", snap |-> mem, c |-> NoRecord]
    /\ UNCHANGED <<padVars, link, host, wanted, sync, done, history>>

RebaseLoad ==
    /\ ipc.at = "load"
    /\ ipc' = IF ipc.op = "restore" /\ row = NoRecord
                 THEN NoIpc
                 ELSE [ipc EXCEPT !.at = "save", !.c = NewBaseline(row, ipc.snap,
                           IF ipc.op = "restore" THEN row.k ELSE ipc.snap.k)]
    /\ UNCHANGED <<padVars, link, host, wanted, sync, done, bounds, history>>

RebaseSave ==
    /\ ipc.at = "save"
    /\ Save(ipc.c)
    /\ ipc' = [ipc EXCEPT !.at = "push"]
    /\ UNCHANGED <<padVars, link, mem, known, connected, mode, pending, synced,
                   wanted, sync, done, bounds, history>>

RebasePush ==
    /\ ipc.op \in {"restore", "import"} /\ ipc.at = "push"
    /\ Push(ipc.c)
    /\ ipc' = [ipc EXCEPT !.at = "publish"]
    /\ UNCHANGED <<padVars, linked, toHost, host, wanted, sync, done, bounds, history>>

RebasePublish ==
    /\ ipc.at = "publish"
    /\ mem' = ipc.c /\ ipc' = NoIpc
    /\ UNCHANGED <<padVars, link, row, known, connected, mode, pending, synced,
                   wanted, sync, done, bounds, history>>

-----------------------------------------------------------------------------
\* The daemon dies and starts again from the row; the port was its own
DaemonCrash ==
    /\ Left("crashes")
    /\ Count("crashes")
    /\ linked' = FALSE /\ toPad' = <<>> /\ toHost' = <<>>
    /\ mem' = row /\ known' = (row # NoRecord) /\ connected' = FALSE
    /\ mode' = "idle" /\ pending' = FALSE /\ synced' = Zero
    /\ wanted' = {} /\ sync' = NoSync /\ done' = <<>> /\ ipc' = NoIpc
    /\ fell' = FALSE /\ owed' = FALSE
    /\ UNCHANGED <<padVars, row, ledger>>

PadNext ==
    \/ \E k \in Keys : Press(k)
    \/ PadCheckpoint \/ PadBusy \/ PadIdle \/ PadStatus
    \/ \E heard \in BOOLEAN : PadSync(heard)

LinkNext ==
    \/ LinkUp \/ PortLost \/ PowerCut \/ NvsErased \/ FrameLost

RuntimeNext ==
    \/ Hello \/ Status \/ SyncResult \/ Gone
    \/ MapStart \/ MapOver \/ PeriodicSync \/ SyncCompleted

SyncNext ==
    \/ \E by \in {"runtime", "ipc"} : SyncStart(by)
    \/ SyncNotIdle \/ SyncLoad \/ SyncSave \/ SyncSend
    \/ SyncTimeout \/ SyncAccepted \/ SyncRejected \/ SyncFail
    \/ SyncStore \/ SyncPublish

IpcNext ==
    \/ ForceSync \/ Reset \/ ResetZero \/ ResetPush
    \/ \E op \in {"restore", "import"} : Rebase(op)
    \/ RebaseLoad \/ RebaseSave \/ RebasePush \/ RebasePublish

Next == PadNext \/ LinkNext \/ RuntimeNext \/ SyncNext \/ IpcNext \/ DaemonCrash

Spec == Init /\ [][Next]_vars

-----------------------------------------------------------------------------

(* Type invariant *)
TypeOK ==
    /\ pad \in Records /\ nvs \in Records /\ idle \in BOOLEAN
    /\ linked \in BOOLEAN
    /\ toPad \in Seq([c : Records, force : BOOLEAN, seq : Nat, by : {"sync", "ipc"}])
    /\ toHost \in Seq([what : {"hello", "status", "result", "gone"}, c : Records])
    /\ mem \in Records /\ row \in Records
    /\ known \in BOOLEAN /\ connected \in BOOLEAN
    /\ mode \in {"idle", "playing", "sync"}
    /\ pending \in BOOLEAN /\ synced \in [Keys -> Nat]
    /\ wanted \subseteq {"runtime", "ipc"}
    /\ sync \in [at : {"none", "poll", "load", "save", "send", "await", "fail",
                       "store", "publish"},
                 by : {"runtime", "ipc"}, snap : Records, rec : Records,
                 force : BOOLEAN, tries : 0..3, seq : Nat,
                 reply : [got : BOOLEAN, ok : BOOLEAN, c : Records]]
    /\ done \in Seq([ok : BOOLEAN, c : Records])
    /\ ipc \in [op : {"none", "reset", "restore", "import"},
                at : {"none", "zero", "load", "save", "push", "publish"},
                snap : Records, c : Records]
    /\ bounds \in [presses : Nat, requests : Nat, cuts : Nat, lost : Nat, crashes : Nat,
                   of : Budgets]
    /\ ledger \in [Keys -> Nat] /\ fell \in BOOLEAN
    /\ owed \in BOOLEAN

(***************************************************************************)
(* Nothing is ever counted twice: however merges, resets, restores and     *)
(* reconnects interleave, no copy of a counter shows more than the presses *)
(* there were (reconcile_counters, perform_sync, the IPC restores).        *)
(***************************************************************************)
NoPressInvented ==
    \A k \in Keys : /\ pad.k[k] <= ledger[k] /\ nvs.k[k] <= ledger[k]
                    /\ row.k[k] <= ledger[k] /\ mem.k[k] <= ledger[k]

(***************************************************************************)
(* When perform_sync reports success, the pad holds what it reports or     *)
(* more, unless it lost power or was forced to something else meanwhile: a *)
(* late answer to an earlier attempt is never taken for the answer to the  *)
(* present one.                                                            *)
(***************************************************************************)
SyncedPadHasIt ==
    sync.at \in {"store", "publish"} /\ ~fell => AtLeast(pad, sync.rec)

(***************************************************************************)
(* The queue of a reset made while the pad is away is emptied only once    *)
(* the pad has accepted a forced sync that started after it was queued, or *)
(* by a crash, whatever refuses, fails or disconnects in between           *)
(* (PendingCounterReset, perform_sync).                                    *)
(***************************************************************************)
QueuedResetIsPushed ==
    [][pending /\ ~pending' => ~owed \/ DaemonCrash]_vars

(***************************************************************************)
(* Until the user resets, restores or imports, the row never forgets: not  *)
(* when the pad comes back from a power cut with older counts, nor with an *)
(* erased flash, nor when syncs are cut short (reconcile_counters).        *)
(***************************************************************************)
RowNeverForgets ==
    [][bounds'.requests = 0 => AtLeast(row', row)]_vars
=============================================================================
