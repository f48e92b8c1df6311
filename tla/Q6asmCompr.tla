----------------------------- MODULE Q6asmCompr ----------------------------
(***************************************************************************)
(* A compressed playback stream of q6asm-dai.c: the client's thread, the   *)
(* event handler in the receive worker (both under prtd->lock), and the    *)
(* DSP. Bytes are counted, not stored. The client writes whole fragments,  *)
(* except for the end of a track.                                          *)
(***************************************************************************)
EXTENDS Naturals, Sequences

CONSTANTS
    Fragment,    \* prtd->pcm_count, in bytes
    Fragments,   \* prtd->periods
    MaxBytes,    \* bound: bytes written in a run
    WaitsForDrain, \* does the client drain a track before it writes the next one
    ReportsEachEos, \* does the DSP report an EOS that follows another directly
    ComprQueueMax     \* bound: commands and events waiting when the client triggers

ASSUME ComprAssumption ==
    /\ Fragment \in Nat \ {0} /\ Fragments \in Nat \ {0}
    /\ MaxBytes \in Nat /\ WaitsForDrain \in BOOLEAN
    /\ ReportsEachEos \in BOOLEAN /\ ComprQueueMax \in Nat

Size == Fragment * Fragments
Align(n) == ((n + Fragment - 1) \div Fragment) * Fragment

VARIABLES
    cstate,      \* the state the compress core keeps
    total,     \* the core's total_bytes_available
    partial,   \* substream->partial_drain
    p,         \* prtd: state, received, sent, copied, sid, nextSid, nextTrack, drain
    dspBuf,    \* port->dsp_buf
    ccmds,      \* commands on their way to the DSP
    cevts,      \* events on their way to the handler
    cdsp,       \* the DSP: open streams, running, buffers and EOS it holds, ended streams
    switched   \* a partial drain has made the announced stream the active one

comprVars == <<cstate, total, partial, p, dspBuf, ccmds, cevts, cdsp, switched>>
coreVars == <<cstate, total, partial, switched>>

ComprInit ==
    /\ cstate = "open" /\ total = 0 /\ partial = FALSE /\ switched = FALSE
    /\ p = [state |-> "IDLE", received |-> 0, sent |-> 0, copied |-> 0, sid |-> 1,
            nextSid |-> 0, nextTrack |-> FALSE, drain |-> FALSE]
    /\ dspBuf = 0 /\ ccmds = <<>> /\ cevts = <<>>
    /\ cdsp = [open |-> {}, running |-> FALSE, held |-> <<>>, ended |-> {}]

Cmd(op, len) == [op |-> op, sid |-> p.sid, len |-> len, at |-> p.sent, slot |-> dspBuf]

OtherCounts(sid) == sid + 1   \* mutant: the ids are not toggled
Other(sid) == IF sid = 1 THEN 2 ELSE 1

\* q6asm_write_async(): takes the next period of the ring, whatever the length.
WriteAsync(len) ==
    /\ ccmds' = Append(ccmds, Cmd("WRITE", len))
    /\ dspBuf' = (dspBuf + 1) % Fragments

-----------------------------------------------------------------------------
\* q6asm_dai_compr_set_params(): open, format and map, all waited for. A refusal
\* frees the client and the stream can only be freed.
SetParams ==
    /\ cstate = "open"
    /\ \/ /\ cstate' = "setup" /\ p' = [p EXCEPT !.state = "RUNNING"]
          /\ cdsp' = [cdsp EXCEPT !.open = {p.sid}]
       \/ cstate' = "failed" /\ UNCHANGED <<p, cdsp>>
    /\ UNCHANGED <<total, partial, dspBuf, ccmds, cevts, switched>>

\* q6asm_dai_compr_pointer(). (Mutant: what has been sent, not what was played.)
PointerSent == p.sent
Pointer == p.copied

\* The core's room in the ring (external): it counts what it was given.
CoreRoom == IF total >= Pointer THEN Size - (total - Pointer) ELSE Size

\* Mutant: bytes_sent is left where the last track ended.
CopyUnaligned(count) ==
    LET align == IF p.nextTrack THEN Align(p.received) ELSE p.received
        copied == IF p.nextTrack THEN Align(p.copied) ELSE p.copied
        received == align + count
        kick == p.state = "RUNNING" /\ p.received = p.copied
        avail == received - p.sent
        len == IF avail < Fragment THEN avail ELSE Fragment
    IN /\ p' = [p EXCEPT !.received = received, !.copied = copied, !.nextTrack = FALSE,
                         !.sent = IF kick THEN @ + len ELSE @]
       /\ IF kick THEN WriteAsync(len) ELSE UNCHANGED <<ccmds, dspBuf>>

\* Mutant: the stream is kicked only when it has never been written.
CopyFirstOnly(count) ==
    LET received == (IF p.nextTrack THEN Align(p.received) ELSE p.received) + count
        sent == IF p.nextTrack THEN Align(p.sent) ELSE p.sent
        copied == IF p.nextTrack THEN Align(p.copied) ELSE p.copied
        kick == p.state = "RUNNING" /\ p.received = 0
        len == IF received - sent < Fragment THEN received - sent ELSE Fragment
    IN /\ p' = [p EXCEPT !.received = received, !.copied = copied, !.nextTrack = FALSE,
                         !.sent = IF kick THEN sent + len ELSE sent]
       /\ IF kick THEN /\ ccmds' = Append(ccmds, [Cmd("WRITE", len) EXCEPT !.at = sent])
                       /\ dspBuf' = (dspBuf + 1) % Fragments
                  ELSE UNCHANGED <<ccmds, dspBuf>>

\* q6asm_compr_copy(): a next track starts at a fragment, and a DSP with nothing in
\* flight is given a buffer.
Copy(count) ==
    LET received == (IF p.nextTrack THEN Align(p.received) ELSE p.received) + count
        sent == IF p.nextTrack THEN Align(p.sent) ELSE p.sent
        copied == IF p.nextTrack THEN Align(p.copied) ELSE p.copied
        kick == p.state = "RUNNING" /\ p.received = p.copied
        len == IF received - sent < Fragment THEN received - sent ELSE Fragment
    IN /\ p' = [p EXCEPT !.received = received, !.copied = copied, !.nextTrack = FALSE,
                         !.sent = IF kick THEN sent + len ELSE sent]
       /\ IF kick THEN /\ ccmds' = Append(ccmds, [Cmd("WRITE", len) EXCEPT !.at = sent])
                       /\ dspBuf' = (dspBuf + 1) % Fragments
                  ELSE UNCHANGED <<ccmds, dspBuf>>

Write ==
    /\ cstate \in {"setup", "prepared", "running"}
    /\ IF p.nextTrack THEN WaitsForDrain => switched ELSE p.received % Fragment = 0
    /\ \E count \in 1 .. CoreRoom :
         /\ total + count <= MaxBytes
         /\ total' = total + count /\ Copy(count)
    /\ cstate' = IF cstate = "setup" THEN "prepared" ELSE cstate
    /\ UNCHANGED <<partial, cevts, cdsp, switched>>

\* q6asm_dai_compr_trigger().
ComprTrigger(from, to, op) ==
    /\ cstate \in from /\ cstate' = to /\ Len(ccmds) + Len(cevts) < ComprQueueMax
    /\ ccmds' = Append(ccmds, Cmd(op, 0))
    /\ UNCHANGED <<dspBuf, cevts, cdsp>>

Run == /\ ComprTrigger({"prepared", "paused"}, "running", "RUN")
       /\ UNCHANGED <<total, partial, p, switched>>

ComprPause == /\ ComprTrigger({"running"}, "paused", "PAUSE")
         /\ UNCHANGED <<total, partial, p, switched>>

\* The core ends a drain that is waited for and forgets its counts.
ComprStop == /\ ComprTrigger({"running", "paused", "draining"}, "stopped", "EOS")
        /\ p' = [p EXCEPT !.state = "STOPPED"]
        /\ partial' = FALSE /\ UNCHANGED <<total, switched>>

NextTrack ==
    /\ cstate = "running" /\ p.nextSid = 0 /\ ~p.nextTrack
    /\ p' = [p EXCEPT !.nextTrack = TRUE, !.nextSid = Other(p.sid)]
    /\ switched' = FALSE
    /\ UNCHANGED <<cstate, total, partial, dspBuf, ccmds, cevts, cdsp>>

\* q6asm_dai_compr_set_metadata(), the encoder delay: opens the next stream.
SetDelay ==
    /\ cstate = "running" /\ p.nextSid # 0
    /\ cdsp' = [cdsp EXCEPT !.open = @ \cup {p.nextSid}]
    /\ p' = [p EXCEPT !.nextSid = 0]
    /\ UNCHANGED <<coreVars, dspBuf, ccmds, cevts>>

Drain ==
    /\ cstate = "running"
    /\ partial' \in {FALSE, p.nextTrack /\ Other(p.sid) \in cdsp.open}
    /\ p' = [p EXCEPT !.drain = TRUE]
    /\ cstate' = "draining"
    /\ UNCHANGED <<total, switched, dspBuf, ccmds, cevts, cdsp>>

\* Mutant: the stream is left open on the DSP.
FreeKeepsStream == {}

\* q6asm_dai_compr_free(): the streams it closes.
FreeCloses == IF p.state = "IDLE" THEN {} ELSE {p.sid} \cup ({p.nextSid} \ {0})

Closing == {ccmds[i].sid : i \in {j \in DOMAIN ccmds : ccmds[j].op = "CLOSE"}}

Free ==
    /\ cstate \in {"open", "failed", "setup", "prepared", "stopped"}
    /\ cstate' = "closed"
    /\ cdsp' = [open |-> cdsp.open \ (FreeCloses \cup Closing), running |-> FALSE, held |-> <<>>,
               ended |-> {}]
    /\ ccmds' = <<>> /\ cevts' = <<>>
    /\ UNCHANGED <<total, partial, switched, p, dspBuf>>

-----------------------------------------------------------------------------
(***************************************************************************)
(* compress_event_handler().                                               *)
(***************************************************************************)
\* RUN_DONE: the client has always written first, so a buffer is on its way.
RunDone ==
    /\ cevts # <<>> /\ Head(cevts).op = "RUN" /\ cevts' = Tail(cevts)
    /\ IF p.sent = 0
       THEN WriteAsync(Fragment) /\ p' = [p EXCEPT !.sent = Fragment]
       ELSE UNCHANGED <<p, ccmds, dspBuf>>
    /\ UNCHANGED <<coreVars, cdsp>>

\* EOS_DONE: a drain that is waited for ends; a partial one makes the next stream
\* the active one.
EosDone ==
    /\ cevts # <<>> /\ Head(cevts).op = "EOS" /\ cevts' = Tail(cevts)
    /\ \/ /\ p.drain /\ partial
          /\ ccmds' = Append(ccmds, Cmd("CLOSE", 0))
          /\ p' = [p EXCEPT !.sid = Other(@), !.drain = FALSE]
          /\ cstate' = "running" /\ partial' = FALSE /\ switched' = TRUE
       \/ /\ p.drain /\ ~partial
          /\ p' = [p EXCEPT !.drain = FALSE]
          /\ cstate' = IF cstate = "draining" THEN "stopped" ELSE cstate
          /\ UNCHANGED <<partial, switched, ccmds>>
       \/ /\ ~p.drain /\ p' = [p EXCEPT !.state = "STOPPED"]
          /\ UNCHANGED <<cstate, partial, switched, ccmds>>
    /\ UNCHANGED <<total, dspBuf, cdsp>>

\* Mutant: the end of the stream is sent only along with data.
LastNeedsData(avail) == avail <= Fragment /\ avail > 0 /\ (partial \/ p.drain)

\* Is this buffer the last of what is drained.
LastBuffer(avail) == avail <= Fragment /\ (partial \/ p.drain)

\* The token of a completed buffer carries its length.
Written(e) == e.len

WriteDone ==
    /\ cevts # <<>> /\ Head(cevts).op = "WRITE" /\ cevts' = Tail(cevts)
    /\ LET avail == p.received - p.sent
           len == IF avail > Fragment THEN Fragment ELSE avail
           data == IF len = 0 THEN <<>> ELSE <<Cmd("WRITE", len)>>
           eos == IF p.drain /\ LastBuffer(avail) THEN <<Cmd("EOS", 0)>> ELSE <<>>
           copied == p.copied + Written(Head(cevts))
       IN IF p.state = "RUNNING"
          THEN /\ ccmds' = ccmds \o data \o eos
               /\ dspBuf' = IF len = 0 THEN dspBuf ELSE (dspBuf + 1) % Fragments
               /\ p' = [p EXCEPT !.copied = copied, !.sent = @ + len]
          ELSE p' = [p EXCEPT !.copied = copied] /\ UNCHANGED <<ccmds, dspBuf>>
    /\ UNCHANGED <<coreVars, cdsp>>

-----------------------------------------------------------------------------
(***************************************************************************)
(* The DSP (external): commands in order, then what it holds in order.     *)
(***************************************************************************)
\* What is held once the stream is closed.
Without(sid, held) ==
    IF held = <<>> THEN held ELSE SelectSeq(held, LAMBDA c : c.sid # sid)

DspTake ==
    /\ ccmds # <<>> /\ ccmds' = Tail(ccmds)
    /\ LET c == Head(ccmds) IN
         \/ /\ c.op \in {"RUN", "PAUSE"}
            /\ cdsp' = [cdsp EXCEPT !.running = (c.op = "RUN")]
            /\ cevts' = IF c.op = "RUN" THEN Append(cevts, c) ELSE cevts
         \/ /\ c.op = "WRITE"
            /\ cdsp' = [cdsp EXCEPT !.held = Append(@, c), !.ended = @ \ {c.sid}]
            /\ UNCHANGED cevts
         \/ /\ c.op = "EOS"
            /\ cdsp' = [cdsp EXCEPT !.held = IF c.sid \in cdsp.ended /\ ~ReportsEachEos
                                          THEN @ ELSE Append(@, c),
                                  !.ended = @ \cup {c.sid}]
            /\ UNCHANGED cevts
         \/ /\ c.op = "CLOSE"
            /\ cdsp' = [cdsp EXCEPT !.open = @ \ {c.sid},
                                  !.held = Without(c.sid, @)]
            /\ UNCHANGED cevts
    /\ UNCHANGED <<coreVars, p, dspBuf>>

DspPlay ==
    /\ cdsp.running /\ cdsp.held # <<>>
    /\ cdsp' = [cdsp EXCEPT !.held = Tail(@)]
    /\ cevts' = Append(cevts, Head(cdsp.held))
    /\ UNCHANGED <<coreVars, p, dspBuf, ccmds>>

Closed == cstate = "closed" /\ UNCHANGED comprVars

Client == SetParams \/ Write \/ Run \/ ComprPause \/ ComprStop \/ NextTrack \/ SetDelay \/ Drain \/ Free
Handler == RunDone \/ EosDone \/ WriteDone
ComprNext == Client \/ Handler \/ DspTake \/ DspPlay \/ Closed

\* The receive worker runs, and the DSP takes its commands and plays what it holds.
ComprFair == WF_comprVars(Handler) /\ WF_comprVars(DspTake) /\ WF_comprVars(DspPlay)

ComprSpec == ComprInit /\ [][ComprNext]_comprVars /\ ComprFair

-----------------------------------------------------------------------------
ComprTypeOK ==
    /\ cstate \in {"open", "failed", "setup", "prepared", "running", "paused", "draining",
                 "stopped", "closed"}
    /\ p.state \in {"IDLE", "RUNNING", "STOPPED"} /\ p.sid \in {1, 2} /\ p.nextSid \in 0 .. 2
    /\ p.copied \in Nat /\ p.sent \in Nat /\ p.received \in Nat
    /\ dspBuf \in 0 .. Fragments - 1 /\ cdsp.open \subseteq {1, 2}

Writes(s) == {i \in DOMAIN s : s[i].op = "WRITE"}
Lengths(s) == {s[i].len : i \in Writes(s)}
ComprInFlight == Lengths(ccmds) \cup Lengths(cdsp.held) \cup Lengths(cevts) # {}

\* The handler sends a buffer only when the last one has come back: at most one is
\* on its way to the DSP, held there, or on its way back.
OneBuffer ==
    LET buffers == ({"cmds"} \X Writes(ccmds)) \cup ({"held"} \X Writes(cdsp.held))
                   \cup ({"evts"} \X Writes(cevts))
    IN \A b, c \in buffers : b = c

\* Every buffer handed to the DSP starts where the client's unsent data starts in
\* the ring: the period index and the byte counts stay in step across partial last
\* fragments and the alignment of the next track.
RingInStep ==
    \A s \in {ccmds, cdsp.held} : \A i \in DOMAIN s :
        s[i].op = "WRITE" => s[i].at % Size = s[i].slot * Fragment /\ s[i].len <= Fragment

\* "Kick off the data to cdsp if its starving!!": a running stream with data the DSP
\* has not been given always has a buffer on its way there or back.
NeverStarved == p.state = "RUNNING" /\ cstate # "closed" /\ p.received > p.sent => ComprInFlight

\* The client never overwrites data the DSP has not played, but for as many bytes
\* as the start of the next track was moved by: the core does not count those.
OverrunOnlyByPadding ==
    cstate # "closed" =>
        \A unplayed \in {0} \cup Lengths(ccmds) \cup Lengths(cdsp.held) :
            (p.received - p.sent) + unplayed <= Size + (p.received - total)

\* A freed stream leaves nothing open on the DSP, through every switch of the
\* stream id, unless a next track had been announced and not begun.
FreeLeavesNothing == cstate = "closed" /\ ~p.nextTrack => cdsp.open = {}

\* A drain that starts with a buffer in flight ends, by the end of the stream or
\* because the client pauses or stops it.
DrainEnds == (cstate = "draining" /\ p.state = "RUNNING" /\ ComprInFlight) ~> cstate # "draining"

\* "switch the active stream now!": after a partial drain the active stream goes on.
NextStreamRuns == switched /\ cstate = "running" => p.state = "RUNNING"

\* The compressed stream as a whole: ring, byte counts and stream ids agree with the
\* DSP, which is neither starved nor overrun nor left with an open stream.
ComprSafe ==
    /\ ComprTypeOK /\ OneBuffer /\ RingInStep /\ NeverStarved
    /\ OverrunOnlyByPadding /\ FreeLeavesNothing
=============================================================================
