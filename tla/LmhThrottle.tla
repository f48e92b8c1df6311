---------------------------- MODULE LmhThrottle ----------------------------
(***************************************************************************)
(* Thermal throttling in qcom-cpufreq-hw: an interrupt starts it, polling  *)
(* follows it until the hardware has recovered and the interrupt is        *)
(* switched on again, and the policy goes offline, online and away while   *)
(* that is going on.  The interrupt is on when its disable depth is zero.  *)
(* The cpufreq core's calls come one after another; the hardware may       *)
(* throttle whenever it likes.                                             *)
(***************************************************************************)
EXTENDS Naturals

CONSTANT HotplugMax     \* offline calls in a behaviour

ASSUME LmhAssumption == HotplugMax \in Nat

VARIABLES
    policy,     \* where the core's calls have brought the policy
    lmhDepth,   \* disable depth of the throttle interrupt
    cancel,     \* cancel_throttle
    poll,       \* the delayed work: "none", "pending", "running", "requeued"
    thread,     \* the interrupt thread: "idle", or "off" once it has disabled
    plugs,      \* offline calls so far
    mishap      \* the two courses of events named below that have happened

lmhVars == <<policy, lmhDepth, cancel, poll, thread, plugs, mishap>>

LmhInit ==
    /\ policy = "absent" /\ lmhDepth = 1 /\ cancel = FALSE
    /\ poll = "none" /\ thread = "idle"
    /\ plugs = 0 /\ mishap = {}

-----------------------------------------------------------------------------
\* qcom_lmh_dcvs_handle_irq: disable the interrupt, ...
HandleIrq ==
    /\ lmhDepth = 0 /\ thread = "idle"
    /\ lmhDepth' = lmhDepth + 1 /\ thread' = "off"
    /\ UNCHANGED <<policy, cancel, poll, plugs, mishap>>

\* ... then enable polling.
SchedulePoll ==
    /\ thread = "off" /\ thread' = "idle"
    /\ poll' = CASE poll = "none" -> "pending" [] poll = "running" -> "requeued" [] OTHER -> poll
    /\ mishap' = IF policy \in {"cancelled", "offline"} THEN mishap \cup {"late_interrupt"} ELSE mishap
    /\ UNCHANGED <<policy, lmhDepth, cancel, plugs>>

Poll ==
    /\ poll = "pending" /\ poll' = "running"
    /\ UNCHANGED <<policy, lmhDepth, cancel, thread, plugs, mishap>>

\* Mutant: a poll that still finds the hardware throttled is the last one.
NotifyOnce(throttled) ==
    /\ poll \in {"running", "requeued"}
    /\ poll' = IF poll = "requeued" THEN "pending" ELSE "none"
    /\ IF cancel \/ throttled THEN UNCHANGED lmhDepth ELSE lmhDepth' = lmhDepth - 1
    /\ UNCHANGED <<policy, cancel, thread, plugs, mishap>>

\* Mutant: the interrupt is enabled while polling goes on.
NotifyBoth(throttled) ==
    /\ poll = "running"
    /\ ~cancel
    /\ poll' = IF throttled THEN "pending" ELSE "none"
    /\ lmhDepth' = lmhDepth - 1
    /\ UNCHANGED <<policy, cancel, thread, plugs, mishap>>

\* qcom_lmh_dcvs_notify under throttle_lock: nothing once cancelled, else poll
\* again or switch back to the interrupt.
Notify(throttled) ==
    /\ poll \in {"running", "requeued"}
    /\ LET idle == IF poll = "requeued" THEN "pending" ELSE "none"
       IN  IF cancel
           THEN /\ poll' = idle
                /\ mishap' = mishap \cup {"cut_short"}
                /\ UNCHANGED lmhDepth
           ELSE /\ IF throttled
                   THEN poll' = "pending" /\ UNCHANGED lmhDepth
                   ELSE poll' = idle /\ lmhDepth' = lmhDepth - 1
                /\ UNCHANGED mishap
    /\ UNCHANGED <<policy, cancel, thread, plugs>>

-----------------------------------------------------------------------------
CoreCall(from, to) ==
    /\ policy = from /\ policy' = to
    /\ UNCHANGED thread

\* qcom_cpufreq_hw_lmh_init requests the interrupt, switched off.  A work left
\* over from the last exit has run by then.
CpuInit ==
    /\ CoreCall("absent", "starting") /\ poll = "none"
    /\ cancel' = FALSE /\ lmhDepth' = 1
    /\ UNCHANGED <<poll, plugs, mishap>>

\* qcom_cpufreq_ready
PolicyReady ==
    /\ CoreCall("starting", "online")
    /\ lmhDepth' = lmhDepth - 1
    /\ UNCHANGED <<cancel, poll, plugs, mishap>>

\* qcom_cpufreq_hw_cpu_offline: the flag under the lock, the work, the
\* interrupt.
CpuOffline ==
    /\ CoreCall("online", "leaving") /\ plugs < HotplugMax
    /\ plugs' = plugs + 1 /\ cancel' = TRUE
    /\ UNCHANGED <<lmhDepth, poll, mishap>>

\* Mutant: a work that is running is not waited for.
CancelPollNosync ==
    /\ CoreCall("leaving", "cancelled")
    /\ poll' = IF poll = "running" THEN poll ELSE "none"
    /\ mishap' = IF poll = "none" THEN mishap ELSE mishap \cup {"cut_short"}
    /\ UNCHANGED <<lmhDepth, cancel, plugs>>

CancelPoll ==
    /\ CoreCall("leaving", "cancelled")
    /\ poll \in {"none", "pending"}
    /\ poll' = "none"
    /\ mishap' = IF poll = "none" THEN mishap ELSE mishap \cup {"cut_short"}
    /\ UNCHANGED <<lmhDepth, cancel, plugs>>

DisableThrottleIrq ==
    /\ CoreCall("cancelled", "offline")
    /\ lmhDepth' = lmhDepth + 1
    /\ UNCHANGED <<cancel, poll, plugs, mishap>>

\* qcom_cpufreq_hw_cpu_online; the core calls ready afterwards.
CpuOnline ==
    /\ CoreCall("offline", "starting")
    /\ cancel' = FALSE
    /\ UNCHANGED <<lmhDepth, poll, plugs, mishap>>

\* qcom_cpufreq_hw_lmh_exit: free_irq waits for the thread.
CpuExit ==
    /\ CoreCall("offline", "absent") /\ thread = "idle"
    /\ UNCHANGED <<lmhDepth, cancel, poll, plugs, mishap>>

LmhNext ==
    \/ HandleIrq \/ SchedulePoll \/ Poll
    \/ \E throttled \in BOOLEAN : Notify(throttled)
    \/ CpuInit \/ PolicyReady \/ CpuOffline \/ CancelPoll \/ DisableThrottleIrq
    \/ CpuOnline \/ CpuExit

LmhSpec == LmhInit /\ [][LmhNext]_lmhVars

-----------------------------------------------------------------------------
\* The interrupt and the polling take turns: while the interrupt is on no
\* poll is pending, so that the two never both count as having disabled it.
OneWatcher == lmhDepth = 0 => poll = "none" /\ thread = "idle"

\* An online policy is watched by one of the two, unless an offline call once
\* came while it was being polled: then the depth the interrupt thread added
\* is never taken off again and throttling goes unnoticed from there on.
OnlineIsWatched ==
    policy = "online" /\ "cut_short" \notin mishap =>
        lmhDepth = 0 \/ poll # "none" \/ thread = "off"

\* Neither is active once the policy is offline or gone, unless the interrupt
\* thread scheduled the work after the offline call had cancelled it.
OfflineIsQuiet ==
    policy \in {"offline", "absent"} =>
        /\ lmhDepth > 0
        /\ poll = "none" \/ "late_interrupt" \in mishap

\* The inductive invariant.  The depth counts the core's own disable and that
\* of the watcher that is not the interrupt; only a poll that was cut short
\* leaves a depth nobody will take off.  The thread never runs beside a poll,
\* and an offline policy is polled only after a late interrupt.
CoreDepth == IF policy \in {"absent", "starting", "offline"} THEN 1 ELSE 0
WatcherDepth == IF poll # "none" \/ thread = "off" THEN 1 ELSE 0

LmhTypeOK ==
    /\ policy \in {"absent", "starting", "online", "leaving", "cancelled", "offline"}
    /\ lmhDepth \in Nat /\ plugs \in 0 .. HotplugMax
    /\ cancel \in BOOLEAN /\ thread \in {"idle", "off"}
    /\ poll \in {"none", "pending", "running"}
    /\ mishap \subseteq {"late_interrupt", "cut_short"}

LmhInv ==
    /\ LmhTypeOK
    /\ lmhDepth >= CoreDepth + WatcherDepth
    /\ "cut_short" \notin mishap => lmhDepth = CoreDepth + WatcherDepth
    /\ thread = "off" => poll = "none" /\ policy # "absent"
    /\ policy \in {"cancelled", "offline", "absent"} => poll = "none" \/ "late_interrupt" \in mishap

\* Throttling as a whole: an online policy has one watcher, an offline one none.
LmhSafe ==
    /\ LmhInv /\ OneWatcher /\ OnlineIsWatched /\ OfflineIsQuiet
=============================================================================
