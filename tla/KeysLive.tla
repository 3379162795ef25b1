------------------------------- MODULE KeysLive -------------------------------
(***************************************************************************)
(* The Keys page's live view of a Hall effect pad.  Nobody says stop: the  *)
(* page polls the daemon while it is open, a poll asks the pad again once  *)
(* KeepAlive has passed, and the pad streams until the Lease of the last   *)
(* request runs out.  A lost request is not repeated before its time.      *)
(*                                                                         *)
(* One step of time is half a second, Fresh being the part of it in which  *)
(* a sample counts as current.  A poll, a request and the stream's next    *)
(* sample take no time: a step of time waits for them.  The smoothing of   *)
(* the drawn stems is left out.                                            *)
(***************************************************************************)
EXTENDS Naturals

CONSTANTS None,
          KeepAlive, Lease,  \* HE_LIVE_KEEPALIVE, HE_LIVE_KEEPALIVE_US
          LiveBudgets        \* records: visits, maps, drops, losses

\* A poll keeps the stream going as long as it asks again in time
LiveConstants == /\ KeepAlive \in Nat \ {0} /\ Lease \in Nat /\ KeepAlive < Lease
                 /\ None \notin Nat

VARIABLES
    open,       \* the Keys page is shown
    view,       \* KeysState.live: "sample" or None
    polling,    \* live_inflight
    carried,    \* the HelloAck of a Hall effect pad came: HeLiveState.supported
    latest,     \* the newest sample's age
    requested,  \* requested_at: how long ago
    asking,     \* HeLiveView on its way to the pad
    lease,      \* s_live_until_us: what is left of it, 0 for off
    inmap,      \* the pad is not in IDLE
    polled,     \* a poll was made this half second, after its sample if any
    kept,       \* history: the stream was asked for, and nothing came between
    nbounds

nvars == <<open, view, polling, carried, latest, requested, asking, lease, inmap,
           polled, kept, nbounds>>

LiveInit ==
    /\ open = FALSE /\ view = None /\ polling = FALSE
    /\ carried = TRUE /\ latest = None /\ requested = None /\ asking = FALSE
    /\ lease = 0 /\ inmap = FALSE
    /\ polled = FALSE /\ kept = FALSE
    /\ nbounds \in LiveBudgets

Visit(what) == nbounds[what] > 0 /\ nbounds' = [nbounds EXCEPT ![what] = @ - 1]

-----------------------------------------------------------------------------
(* The page *)

Opens ==
    /\ ~open /\ open' = TRUE /\ Visit("visits")
    /\ polled' = FALSE
    /\ UNCHANGED <<view, polling, carried, latest, requested, asking, lease, inmap, kept>>

\* stop_live.  An answer on its way is taken after it.
Leaves ==
    /\ open /\ open' = FALSE
    /\ view' = None /\ polling' = FALSE /\ kept' = FALSE
    /\ UNCHANGED <<carried, latest, requested, asking, lease, inmap, polled, nbounds>>

\* PollLive: one at a time, and not while the daemon reports no pad
PollLive ==
    /\ open /\ ~polled /\ carried
    /\ polled' = TRUE /\ polling' = TRUE
    /\ UNCHANGED <<open, view, carried, latest, requested, asking, lease, inmap, kept, nbounds>>

\* Mutant: asked once, and never again
DueOnce == requested = None

Due == requested = None \/ requested >= KeepAlive

\* he_live_poll: the time is noted even if the request is then lost
Asks(lost) ==
    IF Due
       THEN /\ requested' = 0 /\ asking' = ~lost
            /\ kept' = (kept /\ ~lost)
       ELSE /\ ~lost /\ UNCHANGED <<requested, asking, kept>>

\* Only a sample of the last 300 ms counts
Current == IF latest = 0 THEN "sample" ELSE None

\* take_sample: what the stems are drawn from
TakeSample(sample) == view' = sample

\* GetHeLive: a pad that does not stream has no sample
HeLive ==
    IF ~carried
       THEN TakeSample(None) /\ UNCHANGED <<requested, asking, kept, nbounds>>
       ELSE /\ TakeSample(Current)
            /\ \/ Asks(FALSE) /\ UNCHANGED nbounds
               \/ Asks(TRUE) /\ Visit("losses")

\* The daemon's answer, Live
Serves ==
    /\ polling /\ polling' = FALSE
    /\ HeLive
    /\ UNCHANGED <<open, carried, latest, lease, inmap, polled>>

-----------------------------------------------------------------------------
(* The pad *)

\* he_live_view
Renews ==
    /\ asking /\ asking' = FALSE
    /\ lease' = Lease /\ kept' = open
    /\ UNCHANGED <<open, view, polling, carried, latest, requested, inmap, polled, nbounds>>

\* protocol_poll_he_live: a sample every 20 ms, none outside IDLE
Streams ==
    /\ carried /\ lease > 0 /\ ~inmap /\ latest # 0
    /\ latest' = 0 /\ polled' = FALSE
    /\ UNCHANGED <<open, view, polling, carried, requested, asking, lease, inmap, kept, nbounds>>

MapStarts ==
    /\ ~inmap /\ inmap' = TRUE /\ Visit("maps")
    /\ UNCHANGED <<open, view, polling, carried, latest, requested, asking, lease, polled, kept>>

MapOver ==
    /\ inmap /\ inmap' = FALSE
    /\ UNCHANGED <<open, view, polling, carried, latest, requested, asking, lease, polled, kept,
                   nbounds>>

\* The port closes: both ends forget the view
Drops ==
    /\ carried /\ carried' = FALSE /\ Visit("drops")
    /\ latest' = None /\ requested' = None /\ asking' = FALSE
    /\ lease' = 0 /\ kept' = FALSE
    /\ UNCHANGED <<open, view, polling, inmap, polled>>

\* A status poll finds the pad gone: stop_live
Noticed ==
    /\ ~carried /\ (polling \/ view # None)
    /\ view' = None /\ polling' = FALSE
    /\ UNCHANGED <<open, carried, latest, requested, asking, lease, inmap, polled, kept, nbounds>>

\* HelloAck
Returns ==
    /\ ~carried /\ carried' = TRUE
    /\ UNCHANGED <<open, view, polling, latest, requested, asking, lease, inmap, polled, kept,
                   nbounds>>

-----------------------------------------------------------------------------
Older(age) == IF age = None THEN None ELSE IF age < Lease THEN age + 1 ELSE age

HalfSecond ==
    /\ ~polling /\ ~asking /\ (open /\ carried => polled)
    /\ (carried /\ lease > 0 /\ ~inmap => latest = 0)
    /\ requested' = Older(requested) /\ latest' = Older(latest)
    /\ lease' = IF lease > 0 THEN lease - 1 ELSE 0
    /\ polled' = FALSE
    /\ UNCHANGED <<open, view, polling, carried, asking, inmap, kept, nbounds>>

LiveNext ==
    \/ Opens \/ Leaves \/ PollLive \/ Serves \/ Renews \/ Streams
    \/ MapStarts \/ MapOver \/ Drops \/ Noticed \/ Returns \/ HalfSecond

\* Time passes, the page's timer fires while it is open, both programs serve
\* what reaches them, a map ends and the cable comes back.
LiveFairness ==
    /\ WF_nvars(PollLive) /\ WF_nvars(Serves) /\ WF_nvars(Renews) /\ WF_nvars(Streams)
    /\ WF_nvars(MapOver) /\ WF_nvars(Returns) /\ WF_nvars(HalfSecond)

LiveSpec == LiveInit /\ [][LiveNext]_nvars /\ LiveFairness

-----------------------------------------------------------------------------
Ages == {None} \union 0 .. Lease

LiveTypeOK ==
    /\ {open, polling, carried, asking, inmap, polled, kept} \subseteq BOOLEAN
    /\ view \in {"sample", None}
    /\ {latest, requested} \subseteq Ages /\ lease \in 0 .. Lease

\* Once asked for, the stream is kept going by the polls alone: it runs out
\* under an open page only after a lost request or a lost pad.
StreamIsKept == kept => lease > 0

\* A page that stays open shows the keys again, whatever was lost and however
\* often the pad went away, outside a map.
Shows == IF open THEN view = "sample" ELSE lease = 0
=============================================================================
