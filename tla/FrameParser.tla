------------------------------ MODULE FrameParser ------------------------------
(***************************************************************************)
(* The serial line's framing, seen from one receiving end: the daemon's    *)
(* reader ("pc") or the pad's parser ("pad").  Frames reach it cut into    *)
(* arbitrary reads, behind boot chatter and behind frames cut short, in    *)
(* either of two framings it tells apart only by looking.                  *)
(*                                                                         *)
(* Scaled: a header has three bytes, [A, M, length] or [length, 0, 0], and *)
(* a payload at most three.  A payload decodes when it is a message's: what *)
(* protobuf makes of other bytes is taken for an error.  Half a second of   *)
(* silence stands for both ends' stale timers; bytes that keep coming are   *)
(* faster than that.                                                        *)
(***************************************************************************)
EXTENDS Naturals, Sequences, FiniteSetsExt

CONSTANTS None,
          FrameBudgets       \* records: frames, noises, quiets

VARIABLES
    side,       \* the end that receives: "pc" or "pad"
    framing,    \* what the other end writes: "marked" or "legacy"
    line,       \* bytes on their way
    buf,        \* read_buf, rx_buf
    accept,     \* the framing it is locked to, None until it is known
    sent, got,  \* history since the last silence: payloads written, handled
    noisy,      \* history since the last silence: something else was written
    fbudget

fpvars == <<side, framing, line, buf, accept, sent, got, noisy, fbudget>>

A == 9
M == 8
HeaderBytes == 3
MaxPayload == 3
LegacyMin == 2

\* HelloAck or Hello, a message like it, and one that reads as a header
Hello == <<1, 1>>
Payloads == {Hello, <<1, 5>>, <<A, M, 1>>}

\* encode_frame, frame_write_header
Encode(payload) ==
    (IF framing = "marked" THEN <<A, M, Len(payload)>> ELSE <<Len(payload), 0, 0>>) \o payload

Prefixes(s) == {SubSeq(s, 1, n) : n \in 1 .. Len(s) - 1}

\* The ROM's text, a lost byte, a frame whose writer went away
Noise == {<<1, 2>>, <<A>>, <<A, M>>, <<2, 0, 0>>} \union UNION {Prefixes(Encode(p)) : p \in Payloads}

-----------------------------------------------------------------------------
\* header: the framing and length at the front of b, if it can be one
Header(b, locked) ==
    IF b[1] = A /\ b[2] = M
       THEN IF locked # "legacy" /\ b[3] <= MaxPayload
               THEN [as |-> "marked", length |-> b[3]] ELSE None
       ELSE IF locked # "marked" /\ b[2] = 0 /\ b[3] = 0 /\ b[1] \in LegacyMin .. MaxPayload
               THEN [as |-> "legacy", length |-> b[1]] ELSE None

\* resync: up to the first header, or to what may still become one.  Locked to
\* the marker the daemon keeps nothing that does not start with it.
Resync(b, locked) ==
    LET Rest(i) == SubSeq(b, i, Len(b))
        Stops(i) == /\ (side = "pc" /\ locked = "marked" => b[i] = A)
                    /\ (Len(b) - i + 1 >= HeaderBytes => Header(Rest(i), locked) # None)
        starts == {i \in DOMAIN b : Stops(i)}
    IN  IF starts = {} THEN <<>> ELSE Rest(Min(starts))

\* Mutant: the daemon skips a frame that does not decode, as the pad does
SkipsAll(length) == HeaderBytes + length

\* A frame that does not decode was a false start: the daemon skips its first
\* byte and looks again, the pad skips all of it
Skips(length) == IF side = "pc" THEN 1 ELSE HeaderBytes + length

\* A message teaches the framing: to the daemon only the answer to its Hello
Locks(locked, payload, as) ==
    IF locked = None /\ (side = "pad" \/ payload = Hello) THEN as ELSE locked

\* decode_frame: one frame or false start
Decoded(r) ==
    LET b == Resync(r.buf, r.accept)
        head == Header(b, r.accept)
        size == HeaderBytes + head.length
        payload == SubSeq(b, HeaderBytes + 1, size)
        After(n) == SubSeq(b, n + 1, Len(b))
    IN  IF Len(b) < HeaderBytes \/ Len(b) < size THEN [r EXCEPT !.buf = b]
        ELSE IF payload \in Payloads
        THEN [buf |-> After(size), accept |-> Locks(r.accept, payload, head.as),
              got |-> Append(r.got, payload)]
        ELSE [r EXCEPT !.buf = After(Skips(head.length))]

\* The loop around it, frame_parser_feed: each pass takes a byte at least
Parsed(r) == FoldSet(LAMBDA pass, so : Decoded(so), r, DOMAIN r.buf)

-----------------------------------------------------------------------------
FrameInit ==
    /\ side \in {"pc", "pad"} /\ framing \in {"marked", "legacy"}
    /\ line = <<>> /\ buf = <<>> /\ accept = None
    /\ sent = <<>> /\ got = <<>> /\ noisy = FALSE
    /\ fbudget \in FrameBudgets

Uses(what) == fbudget[what] > 0 /\ fbudget' = [fbudget EXCEPT ![what] = @ - 1]

Writes ==
    /\ Uses("frames")
    /\ \E p \in Payloads : line' = line \o Encode(p) /\ sent' = Append(sent, p)
    /\ UNCHANGED <<side, framing, buf, accept, got, noisy>>

Disturbs ==
    /\ Uses("noises")
    /\ \E n \in Noise : line' = line \o n
    /\ noisy' = TRUE
    /\ UNCHANGED <<side, framing, buf, accept, sent, got>>

\* One read of whatever has arrived, and the frames it completes
Reads ==
    \E n \in DOMAIN line :
        LET r == Parsed([buf |-> buf \o SubSeq(line, 1, n), accept |-> accept, got |-> got])
        IN  /\ line' = SubSeq(line, n + 1, Len(line))
            /\ buf' = r.buf /\ accept' = r.accept /\ got' = r.got
            /\ UNCHANGED <<side, framing, sent, noisy, fbudget>>

\* Mutant: what is left of a frame waits for the rest of it for good
Keeps == UNCHANGED buf

\* A partial frame is dropped
Expires == buf' = <<>>

\* expire_stale_partial, partial_since
Silence ==
    /\ line = <<>> /\ (sent # <<>> \/ noisy) /\ Uses("quiets")
    /\ Expires
    /\ sent' = <<>> /\ got' = <<>> /\ noisy' = FALSE
    /\ UNCHANGED <<side, framing, line, accept>>

\* protocol_reset_rx, a reopened port: the next host may frame differently
PortReopened ==
    /\ Uses("quiets")
    /\ framing' \in {"marked", "legacy"}
    /\ line' = <<>> /\ buf' = <<>> /\ accept' = None
    /\ sent' = <<>> /\ got' = <<>> /\ noisy' = FALSE
    /\ UNCHANGED side

FrameNext == Writes \/ Disturbs \/ Reads \/ Silence \/ PortReopened

FrameSpec == FrameInit /\ [][FrameNext]_fpvars

-----------------------------------------------------------------------------
FrameTypeOK ==
    /\ side \in {"pc", "pad"} /\ framing \in {"marked", "legacy"}
    /\ accept \in {None, "marked", "legacy"}
    /\ \A i \in DOMAIN got : got[i] \in Payloads

\* After a silence, whatever came before it, each frame written whole is
\* handled once and in order, however the reads cut it and whichever framing
\* it has, as long as nothing else is written.
CleanLineLosesNothing ==
    ~noisy /\ line = <<>> => got = sent /\ buf = <<>>

\* Behind noise too the daemon loses no frame: what it has not handled still
\* waits in the buffer, unless the pad's framing turned out to be another.
DaemonLosesNothing ==
    side = "pc" /\ line = <<>> /\ buf = <<>> => got = sent
=============================================================================
