------------------------------- MODULE PadLink --------------------------------
(***************************************************************************)
(* The link to the pad: the serial worker of DeviceManager with its Hello  *)
(* handshake, the calls other threads make on DeviceManager, the broadcast *)
(* of device events to the daemon's loop, the device actor in front of the *)
(* command queue, and the flashers that take the port.                     *)
(*                                                                         *)
(* Abstractions.  The worker's loop is cut where another thread can see    *)
(* the difference: at the pause check, before each write, before a read.   *)
(* A pad that listens answers a Hello in its own framing before the next   *)
(* read; one that does not is "stuck" in a half read frame, which closing  *)
(* the port (DTR) ends, or "hung", which only unplugging ends.  HELLO_RETRY *)
(* is `due`.  The values shown are one number.  Other frames of the pad    *)
(* change nothing here.  HelloAck's four events are one.                   *)
(***************************************************************************)
EXTENDS Naturals, Sequences

CONSTANTS
    Flashers,           \* IPC clients, and the firmware updater
    Marked, Legacy,     \* Framing
    None,               \* no framing known, nothing sent
    HellosBeforeReopen,
    QueueMax,           \* capacity of the command channel
    EventMax,           \* EVENT_BUFFER
    ActorMax,           \* QUEUE_DEPTH
    LinkBudgets             \* bounds: new values, statuses, failed writes, unplugs,
                        \*   deaf spells, flashes, and releases that come early

\* What the proofs ask of the sizes
LinkConstants == /\ {HellosBeforeReopen, QueueMax, EventMax, ActorMax} \subseteq Nat
                 /\ EventMax > 0

VARIABLES
    at,       \* where the worker is
    hello,    \* Handshake: answered, framing, unanswered, and its timer
    held,     \* the connection is held over a reopen
    dm,       \* the atomics: connected, paused, open, rehello, lost
    cmds,     \* the command channel
    pad,      \* plugged, its framing, what ails it, the value it shows
    rx,       \* on the wire: a HelloAck, half a frame; or the open port is "gone"
    events,   \* DeviceEvents the loop has not received; lagged
    daemon,   \* device_connected, DataSync's latest and sent, resend_data
    actor,    \* the device actor: its queue, and the command it is sending
    flash,    \* what each flasher is at
    early,    \* history: a release came before the worker saw its pause
    bounds

workerVars == <<at, hello, held, rx>>
vars == <<at, hello, held, dm, cmds, pad, rx, events, daemon, actor, flash, 
          early, bounds>>

Fresh == [answered |-> FALSE, framing |-> None, unanswered |-> 0, due |-> TRUE]

Spend(what) ==
    /\ bounds[what] > 0
    /\ bounds' = [bounds EXCEPT ![what] = @ - 1]

\* A full channel drops its oldest event and tells the receiver so
Emit(q, ev) ==
    IF Len(q.list) < EventMax THEN [q EXCEPT !.list = Append(@, ev)]
    ELSE [list |-> Append(Tail(q.list), ev), lagged |-> TRUE]

Init ==
    /\ bounds \in LinkBudgets
    /\ at = "top" /\ hello = Fresh /\ held = FALSE /\ rx = "none"
    /\ dm = [connected |-> FALSE, paused |-> FALSE, open |-> FALSE,
             rehello |-> FALSE, lost |-> FALSE]
    /\ cmds = <<>>
    /\ \E f \in {Marked, Legacy} :
           pad = [plugged |-> TRUE, framing |-> f, ails |-> "no", shows |-> None]
    /\ events = [list |-> <<>>, lagged |-> FALSE]
    /\ daemon = [dev |-> FALSE, latest |-> 0, sent |-> None, resend |-> FALSE]
    /\ actor = [q |-> <<>>, doing |-> None]
    /\ flash = [f \in Flashers |-> "no"]
    /\ early = FALSE

-----------------------------------------------------------------------------
(* The worker *)

\* mutant: nobody is told
DropHeldSilently == held' = FALSE /\ UNCHANGED <<dm, cmds, events>>

\* A held connection that cannot be reopened is gone
DropHeld ==
    /\ held' = FALSE
    /\ IF held /\ dm.connected
       THEN /\ dm' = [dm EXCEPT !.connected = FALSE]
            /\ cmds' = <<>>
            /\ events' = Emit(events, "disconnected")
       ELSE UNCHANGED <<dm, cmds, events>>

Paused ==
    /\ at = "top" /\ dm.paused
    /\ held' = FALSE
    /\ UNCHANGED <<at, hello, rx, dm, cmds, pad, events, daemon, actor, flash, early, bounds>>

Discover ==
    /\ at = "top" /\ ~dm.paused
    /\ IF pad.plugged
       THEN at' = "opening" /\ UNCHANGED <<held, dm, cmds, events>>
       ELSE DropHeld /\ UNCHANGED at
    /\ UNCHANGED <<hello, rx, pad, daemon, actor, flash, early, bounds>>

\* The port opens for one program at a time
Open ==
    /\ at = "opening"
    /\ IF pad.plugged /\ \A f \in Flashers : flash[f] # "holding"
       THEN /\ at' = "loop" /\ hello' = Fresh
            /\ dm' = [dm EXCEPT !.open = TRUE]
            /\ UNCHANGED <<held, cmds, events>>
       ELSE at' = "top" /\ DropHeld /\ UNCHANGED hello
    /\ UNCHANGED <<rx, pad, daemon, actor, flash, early, bounds>>

\* The framing of the next Hello
HelloFraming ==
    IF hello.framing # None THEN hello.framing
    ELSE IF hello.unanswered % 2 = 0 THEN Marked ELSE Legacy

\* mutant: the pad is not asked again
RestartedByTimer(h) == [h EXCEPT !.due = TRUE]

\* The handshake after a rehandshake request or a torn stream
Restarted(h) == [h EXCEPT !.answered = FALSE, !.due = TRUE]

Listening == pad.plugged /\ pad.ails = "no" /\ rx # "gone"

SendHello(h) ==
    /\ hello' = [h EXCEPT !.due = FALSE, !.unanswered = @ + 1]
    /\ rx' = IF Listening /\ pad.framing = HelloFraming THEN "ack"
             ELSE IF rx = "half" THEN "none" ELSE rx
    /\ at' = "drain"

\* The top of the inner loop: pause, partial frame, rehello, Hello
Step ==
    /\ at = "loop"
    /\ LET torn == rx = "half"
           h == IF torn \/ dm.rehello THEN Restarted(hello) ELSE hello
       IN IF dm.paused
          THEN at' = "close" /\ UNCHANGED <<hello, rx, dm>>
          ELSE /\ dm' = [dm EXCEPT !.rehello = FALSE]
               /\ IF h.answered \/ ~h.due
                  THEN /\ hello' = h /\ at' = "drain"
                       /\ rx' = IF torn THEN "none" ELSE rx
                  ELSE IF h.unanswered < HellosBeforeReopen THEN SendHello(h)
                  ELSE /\ at' = IF dm.connected /\ ~held THEN "reopen" ELSE "close"
                       /\ hello' = h /\ UNCHANGED rx
    /\ UNCHANGED <<held, cmds, pad, events, daemon, actor, flash, early, bounds>>

\* HELLO_RETRY has passed
HelloRetry ==
    /\ ~hello.answered /\ ~hello.due
    /\ hello' = [hello EXCEPT !.due = TRUE]
    /\ UNCHANGED <<at, held, rx, dm, cmds, pad, events, daemon, actor, flash, early, bounds>>

\* One command goes out; a failed write loses it and ends the drain
Write ==
    /\ at = "drain" /\ hello.framing # None /\ cmds # <<>>
    /\ cmds' = Tail(cmds)
    /\ \/ /\ rx # "gone"
          /\ pad' = IF Listening THEN [pad EXCEPT !.shows = cmds[1]] ELSE pad
          /\ UNCHANGED <<at, dm, bounds>>
       \/ /\ IF rx = "gone" THEN UNCHANGED bounds ELSE Spend("losses")
          /\ dm' = [dm EXCEPT !.lost = TRUE]
          /\ at' = "read"
          /\ UNCHANGED <<pad>>
    /\ UNCHANGED <<hello, held, rx, events, daemon, actor, flash, early>>

Drained ==
    /\ at = "drain" /\ (hello.framing = None \/ cmds = <<>>)
    /\ at' = "read"
    /\ UNCHANGED <<hello, held, rx, dm, cmds, pad, events, daemon, actor, flash, early, bounds>>

HelloAck ==
    /\ rx' = "none" /\ held' = FALSE
    /\ hello' = [hello EXCEPT !.answered = TRUE, !.unanswered = 0,
                              !.framing = IF @ = None THEN pad.framing ELSE @]
    /\ dm' = [dm EXCEPT !.connected = TRUE]
    /\ UNCHANGED <<cmds, actor>>
    /\ events' = Emit(events, "connected")
    /\ early' = FALSE
    /\ at' = "loop"

\* Half a frame waits at the top of the loop; nothing read leaves all alone
Read ==
    /\ at = "read"
    /\ IF rx = "gone"
       THEN at' = "close" /\ UNCHANGED <<hello, held, rx, dm, cmds, events, actor, early>>
       ELSE IF rx = "ack" THEN HelloAck
       ELSE at' = "loop" /\ UNCHANGED <<hello, held, rx, dm, cmds, events, actor, early>>
    /\ UNCHANGED <<pad, daemon, flash, bounds>>

\* A status, from a pad that has been handshaken with
ReadStatus ==
    /\ at = "read" /\ rx = "none" /\ Listening
    /\ hello.answered \/ (dm.connected /\ hello.framing # None)
    /\ Spend("statuses")
    /\ events' = Emit(events, "status")
    /\ at' = "loop"
    /\ UNCHANGED <<hello, held, rx, dm, cmds, pad, daemon, actor, flash, early>>

\* mutant: the worker goes on with the closed port
ClosePortLate == rx' = "none" /\ at' = "loop" /\ UNCHANGED pad

\* Closing the port drops DTR, which frees a stuck parser
ClosePort ==
    /\ rx' = "none" /\ at' = "top"
    /\ pad' = IF pad.ails = "stuck" THEN [pad EXCEPT !.ails = "no"] ELSE pad

Reopen ==
    /\ at = "reopen"
    /\ ClosePort
    /\ held' = TRUE
    /\ dm' = [dm EXCEPT !.open = FALSE]
    /\ UNCHANGED <<hello, cmds, events, daemon, actor, flash, early, bounds>>

Disconnect(q) == IF dm.connected THEN Emit(q, "disconnected") ELSE q

Close ==
    /\ at = "close"
    /\ ClosePort
    /\ held' = FALSE
    /\ dm' = [dm EXCEPT !.open = FALSE, !.connected = FALSE]
    /\ cmds' = <<>>
    /\ events' = Disconnect(events)
    /\ early' = FALSE
    /\ UNCHANGED <<hello, daemon, actor, flash, bounds>>

Worker == \/ Paused \/ Discover \/ Open \/ Step \/ Write \/ Drained \/ Read
          \/ ReadStatus \/ Reopen \/ Close

-----------------------------------------------------------------------------
(* The daemon's loop and the device actor *)

\* The loop takes an event.  Behind an overflow it first asks the pad to
\* announce itself again; it takes the next event sooner than the pad answers.
Receive ==
    /\ events.list # <<>>
    /\ events' = [list |-> Tail(events.list), lagged |-> FALSE]
    /\ dm' = [dm EXCEPT !.rehello = @ \/ events.lagged]
    /\ daemon' = CASE Head(events.list) = "connected" ->
                         [daemon EXCEPT !.dev = TRUE, !.sent = None]
                   [] Head(events.list) = "disconnected" ->
                         [daemon EXCEPT !.dev = FALSE]
                   [] OTHER -> daemon
    /\ UNCHANGED <<at, hello, held, rx, cmds, pad, actor, flash, early,
                   bounds>>

\* A tosu frame
Ingest ==
    /\ Spend("values")
    /\ daemon' = [daemon EXCEPT !.latest = @ + 1]
    /\ UNCHANGED <<at, hello, held, rx, dm, cmds, pad, events, actor, flash, early>>

\* mutant: failed writes are not asked about
ResendWhenFull == daemon.resend

\* Something was dropped at the full channel, or lost on the wire
Resend == daemon.resend \/ dm.lost

\* The tick: what was lost is sent again, and then what changed
Tick ==
    /\ LET sent == IF Resend THEN None ELSE daemon.sent
           flush == daemon.dev /\ sent # daemon.latest
       IN /\ flush \/ dm.lost \/ daemon.resend
          /\ daemon' = [daemon EXCEPT !.resend = FALSE,
                                      !.sent = IF flush THEN daemon.latest ELSE sent]
          /\ actor' = IF flush THEN [actor EXCEPT !.q = Append(@, daemon.latest)] ELSE actor
          /\ Len(actor.q) < ActorMax
    /\ dm' = [dm EXCEPT !.lost = FALSE]
    /\ UNCHANGED <<at, hello, held, rx, cmds, pad, events, flash, early,
                   bounds>>

\* send_msg looks whether the pad is connected...
ActorLook ==
    /\ actor.doing = None /\ actor.q # <<>>
    /\ actor' = [q |-> Tail(actor.q),
                 doing |-> IF dm.connected THEN actor.q[1] ELSE None]
    /\ UNCHANGED <<at, hello, held, rx, dm, cmds, pad, events, daemon, flash, early, bounds>>

\* ...and puts the command into the channel, or drops it when that is full
ActorSend ==
    /\ actor.doing # None
    /\ actor' = [actor EXCEPT !.doing = None]
    /\ IF Len(cmds) < QueueMax
       THEN /\ cmds' = Append(cmds, actor.doing)
            /\ UNCHANGED daemon
       ELSE /\ daemon' = [daemon EXCEPT !.resend = TRUE]
            /\ UNCHANGED cmds
    /\ UNCHANGED <<at, hello, held, rx, dm, pad, events, flash, early,
                   bounds>>

-----------------------------------------------------------------------------
(* The flashers *)

\* PrepareFlash and the updater: pause, then wait for the port
Pause(f) ==
    /\ flash[f] = "no" /\ Spend("flashes")
    /\ flash' = [flash EXCEPT ![f] = "waiting"]
    /\ dm' = [dm EXCEPT !.paused = TRUE, !.connected = FALSE]
    /\ events' = Emit(events, "disconnected")
    /\ UNCHANGED <<at, hello, held, rx, cmds, pad, daemon, actor, early>>

Released(f) ==
    /\ flash[f] = "waiting" /\ ~dm.open
    /\ flash' = [flash EXCEPT ![f] = "holding"]
    /\ daemon' = [daemon EXCEPT !.dev = FALSE]
    /\ UNCHANGED <<at, hello, held, rx, dm, cmds, pad, events, actor, early, bounds>>

Resume(f) ==
    /\ flash' = [flash EXCEPT ![f] = "no"]
    /\ dm' = [dm EXCEPT !.paused = FALSE]
    /\ early' = (early \/ (dm.paused /\ dm.open /\ hello.answered))
    /\ UNCHANGED <<at, hello, held, rx, cmds, pad, events, daemon, actor>>

\* FinishFlash, ResumeDevice, the end of a firmware update, a client that dies
Done(f) == flash[f] = "holding" /\ Resume(f) /\ UNCHANGED bounds

\* Two seconds: the worker is still in its writes
TimedOut(f) ==
    /\ flash[f] = "waiting" /\ dm.open
    /\ IF dm.paused THEN Spend("early") ELSE UNCHANGED bounds
    /\ Resume(f)

\* ResumeDevice of a client that holds nothing
ResumeDevice(f) == flash[f] = "no" /\ dm.paused /\ Spend("early") /\ Resume(f)

-----------------------------------------------------------------------------
(* The pad and its cable *)

Unplug ==
    /\ pad.plugged /\ Spend("unplugs")
    /\ pad' = [pad EXCEPT !.plugged = FALSE, !.ails = "no", !.shows = None]
    /\ rx' = IF dm.open THEN "gone" ELSE rx
    /\ UNCHANGED <<at, hello, held, dm, cmds, events, daemon, actor, flash, early>>

Plug ==
    /\ ~pad.plugged
    /\ pad' = [pad EXCEPT !.plugged = TRUE]
    /\ UNCHANGED <<at, hello, held, rx, dm, cmds, events, daemon, actor, flash, early, bounds>>

\* Half a frame stays in the pad's parser, or the firmware hangs
Ail ==
    /\ Listening /\ Spend("deaf")
    /\ \E ails \in {"stuck", "hung"} : pad' = [pad EXCEPT !.ails = ails]
    /\ rx' = "half"
    /\ UNCHANGED <<at, hello, held, dm, cmds, events, daemon, actor, flash, early>>
-----------------------------------------------------------------------------
FlashNext == \E f \in Flashers :
    Pause(f) \/ Released(f) \/ Done(f) \/ TimedOut(f) \/ ResumeDevice(f)

Next == \/ Worker \/ HelloRetry \/ Receive \/ Ingest \/ Tick \/ ActorLook \/ ActorSend
        \/ FlashNext \/ Unplug \/ Plug \/ Ail

(***************************************************************************)
(* Fairness: the worker's thread, the loop, the actor and the timers run;  *)
(* a flasher that has the port hands it back.  Nobody has to plug a pad.   *)
(***************************************************************************)
Fairness ==
    /\ WF_vars(Worker) /\ WF_vars(HelloRetry) /\ WF_vars(Receive) /\ WF_vars(Tick)
    /\ WF_vars(ActorLook) /\ WF_vars(ActorSend)
    /\ \A f \in Flashers : WF_vars(Released(f)) /\ WF_vars(Done(f))

Spec == Init /\ [][Next]_vars /\ Fairness

-----------------------------------------------------------------------------
TypeOK ==
    /\ at \in {"top", "opening", "loop", "drain", "read", "reopen", "close"}
    /\ hello \in [answered : BOOLEAN, framing : {None, Marked, Legacy},
                  unanswered : 0..HellosBeforeReopen, due : BOOLEAN]
    /\ held \in BOOLEAN /\ rx \in {"none", "ack", "half", "gone"}
    /\ Len(cmds) <= QueueMax /\ Len(events.list) <= EventMax /\ Len(actor.q) <= ActorMax
    /\ dm.open <=> at \in {"loop", "drain", "read", "reopen", "close"}
    /\ flash \in [Flashers -> {"no", "waiting", "holding"}]

(***************************************************************************)
(* A pad that is plugged in, listens and is not taken by a flasher ends up *)
(* connected in the daemon's eyes, whatever its framing, and whatever torn *)
(* frames, held reopens, pauses and overflows of the event channel came    *)
(* before (Handshake, rehandshake on Lagged).  A release that comes before *)
(* the worker saw the pause is excepted: the worker then never asks again. *)
(***************************************************************************)
Seen == daemon.dev \/ ~pad.plugged \/ pad.ails = "hung" \/ dm.paused \/ early

(***************************************************************************)
(* A pad that went away, or hangs, is not shown as connected for ever: a   *)
(* connection is held over one reopen, not over a second (hello_due,       *)
(* drop_held).                                                             *)
(***************************************************************************)
NoGhost == ~daemon.dev \/ (pad.plugged /\ pad.ails # "hung")

(***************************************************************************)
(* What a connected pad shows catches up with the newest values, although  *)
(* a diff is never sent twice by itself: full queues, failed writes and    *)
(* reconnects all lead to a full resend (resend_data, take_lost_writes,    *)
(* reset_sent).                                                            *)
(***************************************************************************)
UpToDate == \/ pad.shows = daemon.latest
            \/ ~pad.plugged \/ pad.ails # "no" \/ dm.paused \/ early
===============================================================================
