----------------------------- MODULE Q6asmPcm ------------------------------
(***************************************************************************)
(* One PCM of q6asm-dai.c over its q6asm.c audio client. Three actors: the *)
(* ALSA thread (one call at a time, each command to the DSP sent and       *)
(* waited for), the APR receive worker that delivers replies and events in *)
(* order, and the DSP, which takes commands in order.                      *)
(***************************************************************************)
EXTENDS Naturals, Sequences, FiniteSets

CONSTANTS
    Dirs,           \* directions to check: "playback", "capture"
    PeriodCounts,   \* numbers of periods a client may ask for
    QueueMax,       \* bound: commands in flight when a trigger is issued
    ResumeMax       \* bound: pause/release cycles between two prepares

ASSUME PcmAssumption ==
    /\ Dirs \subseteq {"playback", "capture"} /\ Dirs # {}
    /\ PeriodCounts \subseteq Nat \ {0} /\ PeriodCounts # {}
    /\ QueueMax \in Nat /\ ResumeMax \in Nat

VARIABLES
    dir,       \* direction of the substream
    badFormat, \* may the DSP refuse the format block; chosen once
    alsa,      \* state of the PCM as ALSA sees it
    hw,        \* periods set by hw_params
    pc, sent,  \* command the ALSA thread is at, and whether it has sent it
    state,     \* prtd->state: "IDLE", "STOPPED", "RUNNING"
    client,    \* prtd->audio_client is set
    ac,        \* the client: refs, buf (periods, 0 for NULL), next (dsp_buf), result
    privLive,  \* ac->priv is the prtd of the open substream
    reused,    \* an open was given a client that was still referenced
    resumes,   \* pause/release cycles since the last prepare
    cmds, evts, rx,   \* to the DSP, from the DSP, in the receive worker
    dsp        \* the DSP: stream open, memory mapped, running, buffers queued, eos

threadVars == <<dir, badFormat, alsa, hw, pc, sent, state, client, resumes>>
acVars == <<ac, privLive, reused>>
pcmVars == <<threadVars, acVars, cmds, evts, rx, dsp>>

None == [op |-> "none", ok |-> TRUE]
Reply(op, ok) == [op |-> op, ok |-> ok]
Replies == {"CLOSE", "UNMAP", "MAP", "OPEN", "FMT", "RUN", "PAUSE", "DATAERR"}

PcmInit ==
    /\ dir \in Dirs /\ badFormat \in BOOLEAN
    /\ alsa = "closed" /\ hw = 0 /\ pc = "idle" /\ sent = FALSE
    /\ state = "IDLE" /\ client = FALSE /\ resumes = 0
    /\ ac = [refs |-> 0, buf |-> 0, next |-> 0, result |-> None]
    /\ privLive = FALSE /\ reused = FALSE
    /\ cmds = <<>> /\ evts = <<>> /\ rx = None
    /\ dsp = [open |-> FALSE, mapped |-> FALSE, running |-> FALSE, queue |-> 0,
              eos |-> FALSE]

-----------------------------------------------------------------------------
\* q6asm_dai_open() and q6asm_audio_client_alloc(): a session whose client is
\* still referenced is handed out again, with its old callback data.
Open ==
    /\ pc = "idle" /\ alsa = "closed"
    /\ alsa' = "open" /\ state' = "IDLE" /\ client' = TRUE
    /\ IF ac.refs = 0
       THEN /\ ac' = [refs |-> 1, buf |-> 0, next |-> 0, result |-> None]
            /\ privLive' = TRUE /\ UNCHANGED reused
       ELSE /\ ac' = [ac EXCEPT !.refs = @ + 1]
            /\ reused' = TRUE /\ UNCHANGED privLive
    /\ UNCHANGED <<dir, badFormat, hw, pc, sent, resumes, cmds, evts, rx, dsp>>

HwParams ==
    /\ pc = "idle" /\ alsa \in {"open", "setup", "prepared"}
    /\ hw' \in PeriodCounts
    /\ alsa' = "setup"
    /\ UNCHANGED <<dir, badFormat, pc, sent, state, client, resumes, acVars, cmds, evts, rx, dsp>>

Goto(next) == pc' = next /\ sent' = FALSE

\* Mutant: as before the fix, only a running stream is cleared.
PrepareRunningOnly ==
    /\ pc = "idle" /\ alsa \in {"setup", "prepared"} /\ client
    /\ Goto(IF state = "RUNNING" THEN "p_close" ELSE "p_map")
    /\ UNCHANGED <<dir, badFormat, alsa, hw, state, client, resumes, acVars, cmds, evts, rx, dsp>>

\* q6asm_dai_prepare(): whatever is not idle is closed first.
Prepare ==
    /\ pc = "idle" /\ alsa \in {"setup", "prepared"} /\ client
    /\ Goto(IF state # "IDLE" THEN "p_close" ELSE "p_map")
    /\ UNCHANGED <<dir, badFormat, alsa, hw, state, client, resumes, acVars, cmds, evts, rx, dsp>>

(***************************************************************************)
(* Commands that are waited for. q6asm_ac_send_cmd_sync() and              *)
(* q6asm_apr_send_session_pkt() clear the result, send, and wait until the *)
(* result names their command. A reply to another command overwrites it.   *)
(***************************************************************************)
CommandsUnmapFirst ==   \* mutant: the memory goes before the stream
    [p_close |-> "UNMAP", p_unmap |-> "CLOSE", p_map |-> "MAP", p_open |-> "OPEN",
     p_fmt |-> "FMT", e_close |-> "CLOSE", e_unmap |-> "UNMAP", c_close |-> "CLOSE",
     c_unmap |-> "UNMAP"]
Commands == [p_close |-> "CLOSE", p_unmap |-> "UNMAP", p_map |-> "MAP",
             p_open |-> "OPEN", p_fmt |-> "FMT", e_close |-> "CLOSE",
             e_unmap |-> "UNMAP", c_close |-> "CLOSE", c_unmap |-> "UNMAP"]

SendCmd ==
    /\ pc \in DOMAIN Commands /\ ~sent
    /\ Commands[pc] = "UNMAP" => ac.buf # 0
    /\ Commands[pc] = "MAP" => ac.buf = 0
    /\ ac' = [ac EXCEPT !.result = None, !.buf = IF pc = "p_map" THEN hw ELSE @]
    /\ cmds' = Append(cmds, Commands[pc])
    /\ sent' = TRUE
    /\ UNCHANGED <<dir, badFormat, alsa, hw, pc, state, client, resumes, privLive, reused,
                   evts, rx, dsp>>

\* The wait ends: with the reply, or after five seconds in which the DSP has
\* long answered and the answer was overwritten.
Answered == sent /\ ac.result.op = Commands[pc]
TimedOut == sent /\ ~Answered /\ cmds = <<>> /\ evts = <<>> /\ rx = None
Ok == Answered /\ ac.result.ok

\* CLOSE: its result is ignored on every path.
CloseDone ==
    /\ pc \in {"p_close", "e_close", "c_close"} /\ (Answered \/ TimedOut)
    /\ Goto(CASE pc = "p_close" -> "p_unmap"
              [] pc = "e_close" -> "e_unmap"
              [] pc = "c_close" -> "c_unmap")
    /\ UNCHANGED <<dir, badFormat, alsa, hw, state, client, resumes, acVars, cmds, evts, rx, dsp>>

\* kref_put: the last reference clears the session's slot.
PutClient == ac' = [ac EXCEPT !.refs = @ - 1]

\* q6asm_unmap_memory_regions(), and what follows it in prepare, in prepare's
\* error path and in close (q6asm_audio_client_free, and kfree(prtd) in close).
UnmapDone ==
    /\ pc \in {"p_unmap", "e_unmap", "c_unmap"}
    /\ (~sent /\ ac.buf = 0) \/ Answered \/ TimedOut
    /\ LET freed == IF Ok THEN [ac EXCEPT !.buf = 0] ELSE ac IN
         CASE pc = "p_unmap" ->
                /\ Goto("p_map") /\ state' = "IDLE" /\ ac' = freed
                /\ UNCHANGED <<alsa, hw, client, privLive>>
           [] pc = "e_unmap" ->
                /\ Goto("idle") /\ ac' = [freed EXCEPT !.refs = @ - 1]
                /\ client' = FALSE /\ alsa' = "setup"
                /\ UNCHANGED <<hw, state, privLive>>
           [] pc = "c_unmap" ->
                /\ Goto("idle") /\ ac' = [freed EXCEPT !.refs = @ - 1]
                /\ client' = FALSE /\ alsa' = "closed" /\ hw' = 0
                /\ privLive' = FALSE /\ UNCHANGED state
    /\ UNCHANGED <<dir, badFormat, resumes, reused, cmds, evts, rx, dsp>>

\* Mutant: a refused map is tried again.
MapRetries ==
    /\ pc = "p_map"
    /\ \/ ~sent /\ ac.buf # 0 /\ Goto("p_open") /\ UNCHANGED ac
       \/ Ok /\ Goto("p_open") /\ UNCHANGED ac
       \/ /\ (Answered /\ ~Ok) \/ TimedOut
          /\ Goto("p_map") /\ ac' = [ac EXCEPT !.buf = 0]
    /\ UNCHANGED <<dir, badFormat, alsa, hw, state, client, resumes, privLive, reused, cmds, evts,
                   rx, dsp>>

\* q6asm_map_memory_regions(): buffers that are still there are taken as mapped.
MapDone ==
    /\ pc = "p_map"
    /\ \/ ~sent /\ ac.buf # 0 /\ Goto("p_open") /\ UNCHANGED <<ac, alsa>>
       \/ Ok /\ Goto("p_open") /\ UNCHANGED <<ac, alsa>>
       \/ /\ (Answered /\ ~Ok) \/ TimedOut
          /\ Goto("idle") /\ ac' = [ac EXCEPT !.buf = 0] /\ alsa' = "setup"
    /\ UNCHANGED <<dir, badFormat, hw, state, client, resumes, privLive, reused, cmds, evts, rx,
                   dsp>>

\* q6asm_open_write() or q6asm_open_read(), then q6routing_stream_open().
OpenDone ==
    /\ pc = "p_open" /\ (Answered \/ TimedOut)
    /\ \/ Ok /\ Goto("p_fmt")
       \/ Ok /\ Goto("e_close")
       \/ ~Ok /\ Goto("e_unmap")
    /\ UNCHANGED <<dir, badFormat, alsa, hw, state, client, resumes, acVars, cmds, evts, rx, dsp>>

\* Mutant: the index is not taken back to 0 past the last period.
AfterOne(n, k) == (IF n < ac.buf THEN n ELSE ac.buf - 1) + k

\* port->dsp_buf after k buffers have been handed to the DSP: past the last period
\* it starts again at 0.
After(n, k) == ((IF n < ac.buf THEN n ELSE ac.buf - 1) + k) % ac.buf

\* The format block. A capture queues all its reads whatever the result.
FormatDone ==
    /\ pc = "p_fmt" /\ (Answered \/ TimedOut)
    /\ Goto("idle") /\ resumes' = 0
    /\ IF Ok THEN state' = "RUNNING" /\ alsa' = "prepared"
             ELSE UNCHANGED state /\ alsa' = "setup"
    /\ IF dir = "capture"
       THEN /\ cmds' = cmds \o [i \in 1 .. hw |-> "DATA"]
            /\ ac' = [ac EXCEPT !.next = After(@, hw)]
       ELSE UNCHANGED <<cmds, ac>>
    /\ UNCHANGED <<dir, badFormat, hw, client, privLive, reused, evts, rx, dsp>>

\* q6asm_dai_trigger(): commands that are not waited for.
Trigger(from, to, op) ==
    /\ pc = "idle" /\ alsa \in from /\ alsa' = to
    /\ Len(cmds) < QueueMax
    /\ cmds' = Append(cmds, op)

Start == /\ Trigger({"prepared"}, "running", "RUN")
         /\ UNCHANGED <<dir, badFormat, hw, pc, sent, state, client, resumes, acVars, evts, rx, dsp>>

Pause == /\ Trigger({"running"}, "paused", "PAUSE")
         /\ UNCHANGED <<dir, badFormat, hw, pc, sent, state, client, resumes, acVars, evts, rx, dsp>>

PauseRelease ==
    /\ Trigger({"paused"}, "running", "RUN")
    /\ resumes < ResumeMax /\ resumes' = resumes + 1
    /\ UNCHANGED <<dir, badFormat, hw, pc, sent, state, client, acVars, evts, rx, dsp>>

Stop == /\ Trigger({"running", "paused"}, "setup", "EOS")
        /\ state' = "STOPPED"
        /\ UNCHANGED <<dir, badFormat, hw, pc, sent, client, resumes, acVars, evts, rx, dsp>>

\* Mutant: prtd is freed before the commands.
CloseFreesFirst ==
    /\ pc = "idle" /\ alsa \in {"open", "setup", "prepared"}
    /\ privLive' = FALSE
    /\ IF client
       THEN /\ Goto(IF state # "IDLE" THEN "c_close" ELSE "c_unmap")
            /\ UNCHANGED <<alsa, hw>>
       ELSE alsa' = "closed" /\ hw' = 0 /\ UNCHANGED <<pc, sent>>
    /\ UNCHANGED <<dir, badFormat, state, client, resumes, ac, reused, cmds, evts, rx, dsp>>

\* q6asm_dai_close(), after ALSA has stopped the stream.
Close ==
    /\ pc = "idle" /\ alsa \in {"open", "setup", "prepared"}
    /\ IF client
       THEN /\ Goto(IF state # "IDLE" THEN "c_close" ELSE "c_unmap")
            /\ UNCHANGED <<alsa, hw, privLive>>
       ELSE /\ alsa' = "closed" /\ hw' = 0 /\ privLive' = FALSE
            /\ UNCHANGED <<pc, sent>>
    /\ UNCHANGED <<dir, badFormat, state, client, resumes, ac, reused, cmds, evts, rx, dsp>>

-----------------------------------------------------------------------------
(***************************************************************************)
(* The receive worker: q6asm_srvc_callback() and q6asm_stream_callback().  *)
(***************************************************************************)
\* The client is looked up and referenced, a reply stored and the waiter woken.
RxBegin ==
    /\ evts # <<>> /\ rx = None
    /\ evts' = Tail(evts)
    /\ IF ac.refs = 0
       THEN UNCHANGED <<ac, rx>>
       ELSE /\ rx' = Head(evts)
            /\ ac' = [ac EXCEPT !.refs = @ + 1,
                                !.result = IF Head(evts).op \in Replies THEN Head(evts)
                                           ELSE @]
    /\ UNCHANGED <<threadVars, privLive, reused, cmds, dsp>>

\* Mutant: RUN_DONE queues another buffer for a capture too.
RefillsRun == rx.op = "RUN" \/ (rx.op = "DATADONE" /\ state = "RUNNING")

\* event_handler(): which events send another buffer.
Refills ==
    \/ rx.op = "RUN" /\ dir = "playback"
    \/ rx.op = "DATADONE" /\ state = "RUNNING"

\* A finished buffer is reported only while port->buf is there; the reply to an
\* unmap and the refusal of a map, an open or a format have no callback.
CallsBack ==
    /\ rx.op # "UNMAP"
    /\ rx.op \in {"MAP", "OPEN", "FMT"} => rx.ok
    /\ rx.op = "DATADONE" => ac.buf # 0

\* Mutant: the reference is kept when there is nothing to do.
RxCallbackLeaks ==
    /\ rx # None
    /\ rx' = None
    /\ IF CallsBack /\ privLive /\ Refills
       THEN /\ cmds' = Append(cmds, "DATA")
            /\ ac' = [ac EXCEPT !.refs = @ - 1,
                                !.next = After(@, 1)]
       ELSE UNCHANGED <<ac, cmds>>
    /\ state' = IF CallsBack /\ privLive /\ rx.op = "EOSDONE" THEN "STOPPED" ELSE state
    /\ UNCHANGED <<dir, badFormat, alsa, hw, pc, sent, client, resumes, privLive, reused, evts, dsp>>

\* The callback runs and the reference is dropped.
RxCallback ==
    /\ rx # None
    /\ rx' = None
    /\ IF CallsBack /\ privLive /\ Refills
       THEN /\ cmds' = Append(cmds, "DATA")
            /\ ac' = [ac EXCEPT !.refs = @ - 1,
                                !.next = After(@, 1)]
       ELSE PutClient /\ UNCHANGED cmds
    /\ state' = IF CallsBack /\ privLive /\ rx.op = "EOSDONE" THEN "STOPPED" ELSE state
    /\ UNCHANGED <<dir, badFormat, alsa, hw, pc, sent, client, resumes, privLive, reused, evts, dsp>>

-----------------------------------------------------------------------------
(***************************************************************************)
(* The DSP (external): commands in order, refusals, buffers one at a time. *)
(***************************************************************************)
Answer(e) == evts' = Append(evts, e)

DspCommand ==
    /\ cmds # <<>> /\ cmds' = Tail(cmds)
    /\ LET op == Head(cmds) IN
         \/ /\ op = "CLOSE"
            /\ dsp' = [dsp EXCEPT !.open = FALSE, !.running = FALSE, !.queue = 0,
                                  !.eos = FALSE]
            /\ Answer(Reply(op, dsp.open))
         \/ /\ op = "UNMAP"
            /\ dsp' = [dsp EXCEPT !.mapped = FALSE]
            /\ Answer(Reply(op, dsp.mapped))
         \/ /\ op = "MAP"
            /\ \E ok \in BOOLEAN : /\ dsp' = [dsp EXCEPT !.mapped = @ \/ ok]
                                   /\ Answer(Reply(op, ok))
         \/ /\ op = "OPEN"
            /\ \E ok \in {FALSE, ~dsp.open} : /\ dsp' = [dsp EXCEPT !.open = @ \/ ok]
                                              /\ Answer(Reply(op, ok))
         \/ /\ op = "FMT"
            /\ \E ok \in {TRUE, ~badFormat} : Answer(Reply(op, ok))
            /\ UNCHANGED dsp
         \/ /\ op \in {"RUN", "PAUSE"}
            /\ dsp' = [dsp EXCEPT !.running = (dsp.open /\ op = "RUN")]
            /\ Answer(Reply(op, dsp.open))
         \/ /\ op = "EOS"
            /\ dsp' = [dsp EXCEPT !.eos = dsp.open] /\ UNCHANGED evts
         \/ /\ op = "DATA" /\ dsp.open
            /\ dsp' = [dsp EXCEPT !.queue = @ + 1] /\ UNCHANGED evts
         \/ /\ op = "DATA" /\ ~dsp.open
            /\ Answer(Reply("DATAERR", FALSE)) /\ UNCHANGED dsp
    /\ UNCHANGED <<threadVars, acVars, rx>>

DspPlays ==
    /\ dsp.running /\ dsp.queue > 0
    /\ dsp' = [dsp EXCEPT !.queue = @ - 1]
    /\ Answer(Reply("DATADONE", TRUE))
    /\ UNCHANGED <<threadVars, acVars, cmds, rx>>

DspRendersEos ==
    /\ dsp.eos /\ dsp.queue = 0
    /\ dsp' = [dsp EXCEPT !.eos = FALSE]
    /\ Answer(Reply("EOSDONE", TRUE))
    /\ UNCHANGED <<threadVars, acVars, cmds, rx>>

Thread ==
    \/ Open \/ HwParams \/ Prepare \/ Start \/ Pause \/ PauseRelease \/ Stop \/ Close
Command == SendCmd \/ CloseDone \/ UnmapDone \/ MapDone \/ OpenDone \/ FormatDone
Dsp == DspCommand \/ DspPlays \/ DspRendersEos

PcmNext == Thread \/ Command \/ RxBegin \/ RxCallback \/ Dsp

\* Calls that have begun go on (a wait ends by its timeout), the receive worker
\* runs, and the DSP answers what it was sent.
PcmFair == /\ WF_pcmVars(Command) /\ WF_pcmVars(RxBegin) /\ WF_pcmVars(RxCallback)
           /\ WF_pcmVars(DspCommand)

PcmSpec == PcmInit /\ [][PcmNext]_pcmVars /\ PcmFair

-----------------------------------------------------------------------------
PcmTypeOK ==
    /\ dir \in Dirs /\ hw \in PeriodCounts \cup {0}
    /\ alsa \in {"closed", "open", "setup", "prepared", "running", "paused"}
    /\ pc \in DOMAIN Commands \cup {"idle"} /\ sent \in BOOLEAN
    /\ state \in {"IDLE", "STOPPED", "RUNNING"} /\ client \in BOOLEAN
    /\ ac.refs \in 0 .. 3 /\ ac.buf \in PeriodCounts \cup {0} /\ ac.next \in Nat
    /\ dsp.queue \in Nat /\ resumes \in 0 .. ResumeMax

Count(s, A) == Cardinality({i \in DOMAIN s : s[i] \in A})
InFlight == Count(cmds, {"DATA"}) + dsp.queue + Count(evts, [op : {"DATADONE"}, ok : BOOLEAN])
            + (IF rx.op = "DATADONE" THEN 1 ELSE 0)

\* event_handler() refills through port->buf without a test: whenever it does, the
\* buffers are there, wherever the ALSA thread is in prepare or close; and, unless a
\* format block was refused, the DSP never takes or holds a buffer whose memory has
\* been unmapped under it.
BuffersLive ==
    /\ rx # None /\ CallsBack /\ privLive /\ Refills => ac.buf # 0
    /\ badFormat \/ (dsp.open /\ (dsp.queue > 0 \/ (cmds # <<>> /\ Head(cmds) = "DATA"))
                      => dsp.mapped)

\* As long as no format block is refused, prepare() after a stop finds the DSP stream closed and the memory unmapped
\* when it maps and opens again ("clear the previous setup if any"), and a closed
\* PCM leaves nothing on the DSP.
PreviousSetupCleared ==
    badFormat \/
    /\ pc = "p_map" => ~dsp.open /\ (sent \/ ~dsp.mapped)
    /\ alsa = "closed" => ~dsp.open /\ ~dsp.mapped

\* Each buffer in flight stands for a period: one for a playback, plus one for
\* every pause and release, because RUN_DONE writes another; all periods for a
\* capture.
InFlightBounded ==
    alsa \in {"running", "paused"} =>
        InFlight <= IF dir = "playback" THEN 1 + resumes ELSE ac.buf

\* "@priv: private data associated with this client": the callback is never run
\* with the prtd of a substream that has been closed.
PrivLive == rx # None /\ CallsBack => privLive

\* The same as long as no open was handed a client that was still referenced.
PrivLiveUnlessReused == reused \/ PrivLive

\* The period index the next buffer is taken from belongs to the buffers of this
\* setup: with one period count; a PCM prepared again with fewer keeps its index.
IndexInBuffer == rx # None /\ CallsBack /\ privLive /\ Refills => ac.next < ac.buf

\* Every call that has started a command returns.
CallsReturn == pc # "idle" ~> pc = "idle"

\* The PCM as a whole: its buffers, its setup, its periods in flight, its private data
\* and its index agree with the DSP through every order of calls and events.
PcmSafe ==
    /\ PcmTypeOK /\ BuffersLive /\ PreviousSetupCleared
    /\ InFlightBounded /\ PrivLiveUnlessReused /\ IndexInBuffer
=============================================================================
