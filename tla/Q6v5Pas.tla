------------------------------ MODULE Q6v5Pas ------------------------------
(***************************************************************************)
(* Start and stop of a remote processor by the PAS driver and the q6v5     *)
(* helper it shares with the others: proxy votes taken for the boot and    *)
(* given up when the processor signals handover, five interrupts that may  *)
(* be late, time limits on both waits, a stop that fails, a crash and the  *)
(* restart after it.                                                       *)
(*                                                                         *)
(* The remoteproc core around it takes one operation at a time.  The       *)
(* processor, its firmware image and the secure world are external.  An    *)
(* interrupt is in `irqs` from the processor's signal until its thread has *)
(* run.                                                                    *)
(***************************************************************************)
EXTENDS Integers, FiniteSets

CONSTANTS
    ProxyCount,     \* power domains, clocks and supplies held for the boot
    StartMax        \* starts in a behaviour

ASSUME PasAssumption == ProxyCount \in Nat \ {0} /\ StartMax \in Nat

Proxies == 1..ProxyCount

VARIABLES
    op,         \* where the operation under way is, "off" between operations
    got,        \* proxies the start has taken so far
    rstate,     \* the state of the remoteproc core
    held,       \* use counts of the proxies
    helper,     \* running, handover_issued, the two completions, votes
    depth,      \* disable depth of the handover interrupt
    handler,    \* the handover thread is between its two halves
    irqs,       \* interrupts whose thread has not run yet
    remote,     \* the processor: what it has done since it left reset
    reported,   \* a crash report the core has not taken up yet
    starts,     \* starts so far
    odd         \* the courses of events named below that have happened

pasVars == <<op, got, rstate, held, helper, depth, handler, irqs, remote, reported, starts, odd>>

Off == [alive |-> FALSE, ready |-> FALSE, handed |-> FALSE, crashed |-> FALSE, asked |-> FALSE]

PasInit ==
    /\ op = "off" /\ got = 0 /\ rstate = "offline"
    /\ held = [x \in Proxies |-> 0]
    /\ helper = [running |-> FALSE, issued |-> FALSE, started |-> FALSE, stopped |-> FALSE,
                 path |-> FALSE, load |-> FALSE, metadata |-> FALSE]
    /\ depth = 1 /\ handler = FALSE
    /\ irqs = {} /\ remote = Off
    /\ reported = FALSE /\ starts = 0 /\ odd = {}

GiveBack(set) == held' = [x \in Proxies |-> IF x \in set THEN held[x] - 1 ELSE held[x]]
CoreUnchanged == UNCHANGED <<rstate, reported, starts>>

-----------------------------------------------------------------------------
\* Mutant: the completions of the last boot are kept.
FreshCompleted ==
    [helper EXCEPT !.path = TRUE, !.load = TRUE, !.running = TRUE, !.issued = FALSE]

\* Mutant: the processor is not marked as running.
FreshIdle ==
    [helper EXCEPT !.path = TRUE, !.load = TRUE, !.issued = FALSE,
                   !.started = FALSE, !.stopped = FALSE]

\* What qcom_q6v5_prepare makes of the helper.
Fresh ==
    [helper EXCEPT !.path = TRUE, !.load = TRUE, !.running = TRUE, !.issued = FALSE,
                   !.started = FALSE, !.stopped = FALSE]

\* qcom_q6v5_prepare; the votes may be refused, and the first is taken back.
Prepare ==
    /\ op = "off" /\ rstate = "offline" /\ starts < StartMax
    /\ starts' = starts + 1
    /\ UNCHANGED <<held, handler, irqs, remote, rstate, reported, odd>>
    /\ \/ /\ op' = "acquire" /\ got' = 0 /\ depth' = depth - 1
          /\ helper' = Fresh
       \/ UNCHANGED <<op, got, depth, helper>>

\* qcom_pas_start takes the proxies one after the other, each may fail.
Acquire ==
    /\ op = "acquire"
    /\ \/ /\ got < ProxyCount
          /\ got' = got + 1 /\ held' = [held EXCEPT ![got + 1] = @ + 1]
          /\ UNCHANGED op
       \/ got < ProxyCount /\ op' = "unwind" /\ UNCHANGED <<got, held>>
       \/ got = ProxyCount /\ op' = "image" /\ UNCHANGED <<got, held>>
    /\ UNCHANGED <<helper, depth, handler, irqs, remote, odd>> /\ CoreUnchanged

\* The image is loaded and authenticated; from here the processor runs.
Boot ==
    /\ op = "image"
    /\ \/ /\ op' = "started"
          /\ helper' = [helper EXCEPT !.metadata = TRUE]
          /\ remote' = [Off EXCEPT !.alive = TRUE]
       \/ op' = "unwind" /\ UNCHANGED <<helper, remote>>
    /\ UNCHANGED <<got, held, depth, handler, irqs, odd>> /\ CoreUnchanged

\* qcom_q6v5_wait_for_start ends with the completion ...
Started ==
    /\ op = "started" /\ helper.started
    /\ op' = "off" /\ got' = 0 /\ rstate' = "running"
    /\ helper' = [helper EXCEPT !.metadata = FALSE]
    /\ UNCHANGED <<held, depth, handler, irqs, remote, reported, starts, odd>>

\* Mutant: the processor keeps running.
StartTimeoutAlive ==
    /\ op = "started" /\ ~helper.started
    /\ op' = "unwind"
    /\ helper' = [helper EXCEPT !.metadata = FALSE]
    /\ odd' = IF remote.handed THEN odd \cup {"handover_before_failure"} ELSE odd
    /\ UNCHANGED <<got, held, depth, handler, irqs, remote>> /\ CoreUnchanged

\* ... or with the time limit, and the processor is put back into reset.
StartTimeout ==
    /\ op = "started" /\ ~helper.started
    /\ op' = "unwind" /\ remote' = Off
    /\ helper' = [helper EXCEPT !.metadata = FALSE]
    /\ odd' = IF remote.handed THEN odd \cup {"handover_before_failure"} ELSE odd
    /\ UNCHANGED <<got, held, depth, handler, irqs>> /\ CoreUnchanged

\* Mutant: the first label is one too far down.
UnwindShort ==
    /\ op = "unwind"
    /\ GiveBack(1..(got - 1)) /\ got' = 0
    /\ op' = "unprepare"
    /\ UNCHANGED <<helper, depth, handler, irqs, remote, odd>> /\ CoreUnchanged

\* The error labels give back what was taken.
Unwind ==
    /\ op = "unwind"
    /\ GiveBack(1..got) /\ got' = 0
    /\ op' = "unprepare"
    /\ UNCHANGED <<helper, depth, handler, irqs, remote, odd>> /\ CoreUnchanged

\* Mutant: the handover thread is not waited for.
DisableIrqNosync == depth' = depth + 1 /\ irqs' = irqs \ {"handover"} /\ UNCHANGED handler

\* disable_irq waits for the handover thread that has begun.
DisableIrq == ~handler /\ depth' = depth + 1 /\ irqs' = irqs \ {"handover"} /\ UNCHANGED handler

\* qcom_q6v5_unprepare at the end of a failed start.
UnprepareStart ==
    /\ op = "unprepare" /\ DisableIrq
    /\ op' = "off"
    /\ helper' = [helper EXCEPT !.load = FALSE, !.path = FALSE]
    /\ UNCHANGED <<got, held, remote, odd>> /\ CoreUnchanged

-----------------------------------------------------------------------------
\* qcom_pas_stop by way of qcom_q6v5_request_stop: a processor that is not
\* running, or has acknowledged to sysmon, is not asked.
RequestStop ==
    /\ op = "off" /\ rstate # "offline"
    /\ helper' = [helper EXCEPT !.running = FALSE]
    /\ \/ /\ rstate = "running"
          /\ op' = "stopping" /\ remote' = [remote EXCEPT !.asked = TRUE]
       \/ op' = "shutdown" /\ UNCHANGED remote
    /\ UNCHANGED <<got, held, depth, handler, irqs, odd>> /\ CoreUnchanged

\* The wait for stop_done ends by the completion or by its time limit.
StopWaited ==
    /\ op = "stopping"
    /\ op' = "shutdown" /\ remote' = [remote EXCEPT !.asked = FALSE]
    /\ UNCHANGED <<got, held, helper, depth, handler, irqs, odd>> /\ CoreUnchanged

\* qcom_scm_pas_shutdown; a refusal is reported and the stop goes on (bound:
\* one refusal in a behaviour).
Shutdown ==
    /\ op = "shutdown"
    /\ remote' = Off
    /\ op' \in {"release"} \cup (IF "failed_stop" \in odd THEN {} ELSE {"release_failed"})
    /\ UNCHANGED <<got, held, helper, depth, handler, irqs, odd>> /\ CoreUnchanged

\* The value qcom_q6v5_unprepare returns.
HandoverDue == ~helper.issued

\* qcom_q6v5_unprepare, and the handover the processor never signalled.  A
\* stop that failed leaves the core running: it may stop again.
StopRelease ==
    /\ op \in {"release", "release_failed"} /\ DisableIrq
    /\ helper' = [helper EXCEPT !.load = FALSE, !.path = FALSE]
    /\ IF HandoverDue THEN GiveBack(Proxies) ELSE UNCHANGED held
    /\ op' = "off"
    /\ rstate' = IF op = "release" THEN "offline" ELSE rstate
    /\ odd' = IF op = "release" THEN odd ELSE odd \cup {"failed_stop"}
    /\ UNCHANGED <<got, remote, reported, starts>>

\* The core takes up a crash report: the processor is stopped as crashed.
CrashHandler ==
    /\ reported /\ op = "off"
    /\ reported' = FALSE
    /\ rstate' = IF rstate = "running" THEN "crashed" ELSE rstate
    /\ UNCHANGED <<op, got, held, helper, depth, handler, irqs, remote, starts, odd>>

-----------------------------------------------------------------------------
IrqUnchanged == UNCHANGED <<op, got, rstate, depth, remote, starts>>

Fatal ==
    /\ "fatal" \in irqs /\ irqs' = irqs \ {"fatal"}
    /\ reported' = (reported \/ helper.running)
    /\ helper' = [helper EXCEPT !.running = FALSE]
    /\ UNCHANGED <<held, handler, odd>> /\ IrqUnchanged

\* Sometimes the stop triggers a watchdog rather than a stop-ack.
Watchdog ==
    /\ "wdog" \in irqs /\ irqs' = irqs \ {"wdog"}
    /\ reported' = (reported \/ helper.running)
    /\ helper' = [helper EXCEPT !.running = FALSE, !.stopped = @ \/ ~helper.running]
    /\ UNCHANGED <<held, handler, odd>> /\ IrqUnchanged

Ready ==
    /\ "ready" \in irqs /\ irqs' = irqs \ {"ready"}
    /\ helper' = [helper EXCEPT !.started = TRUE]
    /\ odd' = IF op # "off" /\ ~remote.ready THEN odd \cup {"late_ready"} ELSE odd
    /\ UNCHANGED <<held, handler, reported>> /\ IrqUnchanged

StopAck ==
    /\ "stop" \in irqs /\ irqs' = irqs \ {"stop"}
    /\ helper' = [helper EXCEPT !.stopped = TRUE]
    /\ UNCHANGED <<held, handler, reported, odd>> /\ IrqUnchanged

\* q6v5_handover_interrupt: the proxies first, the flag last.
HandoverBegin ==
    /\ "handover" \in irqs /\ depth = 0 /\ ~handler
    /\ irqs' = irqs \ {"handover"}
    /\ IF HandoverDue THEN GiveBack(Proxies) /\ handler' = TRUE ELSE UNCHANGED <<held, handler>>
    /\ UNCHANGED <<helper, reported, odd>> /\ IrqUnchanged

HandoverEnd ==
    /\ handler /\ handler' = FALSE
    /\ helper' = [helper EXCEPT !.path = FALSE, !.issued = TRUE]
    /\ UNCHANGED <<held, irqs, reported, odd>> /\ IrqUnchanged

\* The processor: it signals ready and handover once each, in either order,
\* may crash at any time, and answers a request to stop.
Remote ==
    /\ remote.alive /\ ~remote.crashed
    /\ \/ ~remote.ready /\ remote' = [remote EXCEPT !.ready = TRUE] /\ irqs' = irqs \cup {"ready"}
       \/ ~remote.handed /\ remote' = [remote EXCEPT !.handed = TRUE]
                         /\ irqs' = irqs \cup {"handover"}
       \/ remote' = [remote EXCEPT !.crashed = TRUE]
          /\ \E i \in {"fatal", "wdog"} : irqs' = irqs \cup {i}
       \/ remote.asked /\ UNCHANGED remote /\ \E i \in {"stop", "wdog"} : irqs' = irqs \cup {i}
    /\ UNCHANGED <<op, got, rstate, held, helper, depth, handler, reported, starts, odd>>

PasNext ==
    \/ Prepare \/ Acquire \/ Boot \/ Started \/ StartTimeout \/ Unwind \/ UnprepareStart
    \/ RequestStop \/ StopWaited \/ Shutdown \/ StopRelease \/ CrashHandler
    \/ Fatal \/ Watchdog \/ Ready \/ StopAck \/ HandoverBegin \/ HandoverEnd \/ Remote

PasSpec == PasInit /\ [][PasNext]_pasVars

-----------------------------------------------------------------------------
\* Every proxy is given back exactly once: the handover thread, the stop and
\* the error labels of the start never both do it.  Two courses of events are
\* known to break this and are excluded: a start that times out after the
\* processor signalled handover, whose error labels release a second time,
\* and a stop repeated after one that failed.
ProxiesBalanced ==
    odd \cap {"handover_before_failure", "failed_stop"} = {} =>
        \A x \in Proxies : held[x] \in {0, 1}

\* A processor that runs and has not signalled handover still has all its
\* proxies, and so does one whose handover is not handled yet.
ProxiesUntilHandover ==
    /\ remote.alive /\ odd = {} /\ (~remote.handed \/ "handover" \in irqs)
    => \A x \in Proxies : held[x] = 1

\* Between operations an offline processor holds nothing: no proxy, no
\* bandwidth, no load state, no metadata, and its handover interrupt is off
\* exactly once, so that the next start can switch it on.
OfflineHoldsNothing ==
    /\ op = "off" /\ rstate = "offline"
    /\ odd \cap {"handover_before_failure", "failed_stop"} = {}
    => /\ \A x \in Proxies : held[x] = 0
       /\ ~helper.path /\ ~helper.load /\ ~helper.metadata
       /\ depth = 1

\* A start reported as successful means this boot signalled ready, unless the
\* thread of an earlier boot's interrupt ran after the completion was reset.
StartedMeansReady ==
    rstate = "running" /\ op = "off" /\ remote.alive /\ "late_ready" \notin odd => remote.ready

\* A crash of a running processor is never lost: once its interrupt thread
\* has run the core knows, or a stop is under way.
CrashKnown ==
    /\ remote.crashed /\ irqs \cap {"fatal", "wdog"} = {} /\ rstate = "running" /\ op = "off"
    /\ "failed_stop" \notin odd
    => reported

\* The inductive invariant.  Types, and where the core and the processor can be
\* in each phase of an operation.
Starting == op \in {"acquire", "image", "started", "unwind", "unprepare"}
Stopping == op \in {"stopping", "shutdown", "release", "release_failed"}
Idle == op = "off" /\ rstate = "offline"

PasTypeOK ==
    /\ op \in {"off", "acquire", "image", "started", "unwind", "unprepare",
              "stopping", "shutdown", "release", "release_failed"}
    /\ rstate \in {"offline", "running", "crashed"}
    /\ got \in 0 .. ProxyCount /\ held \in [Proxies -> Int] /\ depth \in Int
    /\ helper \in [running : BOOLEAN, issued : BOOLEAN, started : BOOLEAN, stopped : BOOLEAN,
                   path : BOOLEAN, load : BOOLEAN, metadata : BOOLEAN]
    /\ remote \in [alive : BOOLEAN, ready : BOOLEAN, handed : BOOLEAN, crashed : BOOLEAN, asked : BOOLEAN]
    /\ handler \in BOOLEAN /\ reported \in BOOLEAN
    /\ irqs \subseteq {"fatal", "wdog", "ready", "stop", "handover"}
    /\ odd \subseteq {"handover_before_failure", "failed_stop", "late_ready"}

PhasesOK ==
    /\ Starting => rstate = "offline"
    /\ Stopping => rstate # "offline"
    /\ (Idle \/ op \in {"acquire", "image", "unwind", "unprepare", "release", "release_failed"}) => remote = Off
    /\ op \in {"image", "started"} => got = ProxyCount
    /\ op = "started" => remote.alive
    /\ helper.metadata => op = "started"
    /\ Idle => ~helper.path /\ ~helper.load

\* While neither of the two courses of events has happened, the proxies, the
\* handover interrupt and its thread are in step with the phase.
Undisturbed == odd \cap {"handover_before_failure", "failed_stop"} = {}
HandedOver == handler \/ helper.issued

ProxiesInStep ==
    /\ op \in {"acquire", "unwind"} => \A x \in Proxies : held[x] = IF x <= got THEN 1 ELSE 0
    /\ op = "image" => \A x \in Proxies : held[x] = 1
    /\ Idle \/ op = "unprepare" => \A x \in Proxies : held[x] = 0
    /\ op = "started" \/ (~Starting /\ ~Idle) =>
          \A x \in Proxies : held[x] = IF HandedOver THEN 0 ELSE 1

HandoverInStep ==
    /\ depth = IF Idle THEN 1 ELSE 0
    /\ Idle => ~handler /\ "handover" \notin irqs
    /\ op \in {"acquire", "image", "unwind", "unprepare"} => ~HandedOver /\ "handover" \notin irqs
    /\ remote.alive /\ HandedOver => remote.handed /\ "handover" \notin irqs
    /\ remote.alive /\ "handover" \in irqs => remote.handed

\* Ready has been signalled when the completion or the core's state says so,
\* and a crash is on its way to the core.
ReadyInStep ==
    "late_ready" \notin odd =>
        /\ op \in {"acquire", "image", "started"} /\ helper.started => remote.ready
        /\ rstate = "running" /\ remote.alive => remote.ready

CrashInStep ==
    /\ "failed_stop" \notin odd
    /\ op \in {"acquire", "image", "started"} \/ (op = "off" /\ rstate = "running")
    => /\ ~helper.running => reported
       /\ remote.crashed => irqs \cap {"fatal", "wdog"} # {} \/ reported

PasInv ==
    /\ PasTypeOK /\ PhasesOK /\ ReadyInStep /\ CrashInStep
    /\ Undisturbed => ProxiesInStep /\ HandoverInStep

\* Start and stop as a whole: proxies are held as long as needed and returned once, a
\* successful start means a ready processor, and a crash becomes known.
PasSafe ==
    /\ PasInv /\ ProxiesBalanced /\ ProxiesUntilHandover /\ OfflineHoldsNothing
    /\ StartedMeansReady /\ CrashKnown
=============================================================================
