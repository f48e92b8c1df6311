--------------------------- MODULE DeferredProbe ---------------------------
(***************************************************************************)
(* Deferred probing in the driver core of the kernel the machine runs:     *)
(* devices that wait for a supplier sit on a pending list until some       *)
(* device is bound, the worker retries what is on the active list, and a   *)
(* count of triggers tells a probe that is about to defer that it missed   *)
(* one.  The worker, a driver being registered and a bind written to sysfs *)
(* probe at the same time; system sleep blocks all probing; a timeout      *)
(* makes optional suppliers be ignored.                                    *)
(*                                                                         *)
(* A device waits for its suppliers only.  What a driver's own probe does  *)
(* is one outcome: bound or failed.  The count is only ever compared with  *)
(* a sample of it, so the model keeps for each prober whether it moved.    *)
(***************************************************************************)
EXTENDS Naturals, FiniteSets

CONSTANTS
    Devs,           \* devices, numbered; each has one driver that matches
    OptionalOf,     \* devices whose supplier may be ignored after the timeout
    SleepMax,       \* how often the system blocks probing
    UnbindMax       \* how often a device is unbound or deleted by its owner

ASSUME ProbeAssumption ==
    Devs \subseteq (Nat \ {0}) /\ OptionalOf \subseteq Devs /\ SleepMax \in Nat /\ UnbindMax \in Nat

Probers == {"work", "attach", "manual"}

VARIABLES
    drv,        \* the driver of a device: "none", "bound", "dying" or "dead"
    listed,     \* the deferred list a device is on: "none", "pending", "active"
    prober,     \* what each prober is doing, to which device, and whether the
                \* trigger count moved since it took its sample
    work,       \* the deferred work: queued, running
    deferAll,   \* defer_all_probes
    sleep,      \* where device_block_probing and device_unblock_probing are
    boot,       \* where deferred_probe_initcall and the timeout work are
    flush,      \* runs of the work that sleep and boot still wait for
    spent       \* sleeps and unbinds so far

probeVars == <<drv, listed, prober, work, deferAll, sleep, boot, flush, spent>>

\* The supplier of a device is the one numbered before it.
Suppliers(d) == {s \in Devs : s + 1 = d}

NoProbe == [pc |-> "idle", dev |-> 0, moved |-> FALSE]

\* driver_deferred_probe_enable is set by the initcall.
ProbeEnabled == boot # "initcalls"

\* driver_deferred_probe_check_state gives up on an optional supplier.
TimedOut == boot \in {"expired", "settled"}

Locked(d) == \E p \in Probers : prober[p].dev = d /\ prober[p].pc # "wait"

\* probe_count: a bind written to sysfs does not take part.
Counted == {p \in Probers \ {"manual"} : prober[p].pc \notin {"idle", "wait"}}

ProbeInit ==
    /\ drv = [d \in Devs |-> "none"]
    /\ listed = [d \in Devs |-> "none"]
    /\ prober = [p \in Probers |-> NoProbe]
    /\ work = [queued |-> FALSE, running |-> FALSE]
    /\ deferAll = FALSE
    /\ sleep = "awake" /\ boot = "initcalls"
    /\ flush = [s \in {"sleep", "boot"} |-> 0]
    /\ spent = [sleeps |-> 0, unbinds |-> 0]

-----------------------------------------------------------------------------
\* driver_deferred_probe_trigger: the count, the splice and queue_work.  `now`
\* is what the probers do after it; a sample matters while it may be compared.
Trigger(now) ==
    IF ProbeEnabled
    THEN /\ listed' = [d \in Devs |-> IF listed[d] = "pending" THEN "active" ELSE listed[d]]
         /\ prober' = [p \in Probers |->
                           IF p # "manual" /\ now[p].pc \in {"probe", "defer", "recheck"}
                           THEN [now[p] EXCEPT !.moved = TRUE] ELSE now[p]]
         /\ work' = [work EXCEPT !.queued = TRUE]
    ELSE prober' = now /\ UNCHANGED <<listed, work>>

\* The runs of the work flush_work waits for.
Owed == (IF work.running THEN 1 ELSE 0) + (IF work.queued THEN 1 ELSE 0)

Step(p, pc) == prober' = [prober EXCEPT ![p].pc = pc]
Leave(p) == prober' = [prober EXCEPT ![p] = NoProbe]
SurroundingsUnchanged == UNCHANGED <<deferAll, sleep, boot, flush, spent>>

WorkStart ==
    /\ work.queued /\ ~work.running
    /\ work' = [queued |-> FALSE, running |-> TRUE]
    /\ UNCHANGED <<drv, listed, prober>> /\ SurroundingsUnchanged

\* deferred_probe_work_func takes a device off the active list and drops the
\* mutex before it probes it.
WorkTake(d) ==
    /\ work.running /\ prober["work"] = NoProbe
    /\ listed[d] = "active"
    /\ listed' = [listed EXCEPT ![d] = "none"]
    /\ prober' = [prober EXCEPT !["work"].pc = "wait", !["work"].dev = d]
    /\ UNCHANGED <<drv, work>> /\ SurroundingsUnchanged

WorkEnd ==
    /\ work.running /\ prober["work"] = NoProbe
    /\ \A d \in Devs : listed[d] # "active"
    /\ work' = [work EXCEPT !.running = FALSE]
    /\ flush' = [s \in DOMAIN flush |-> IF flush[s] > 0 THEN flush[s] - 1 ELSE 0]
    /\ UNCHANGED <<drv, listed, prober, deferAll, sleep, boot, spent>>

-----------------------------------------------------------------------------
\* driver_attach and device_driver_attach come to a device on the bus, the
\* worker to the one it took.  Under the device lock: nothing for a device
\* that is dead or has a driver, else the sample of the count.
Approach(p, d) ==
    /\ prober[p] = IF p = "work" THEN [NoProbe EXCEPT !.pc = "wait", !.dev = d] ELSE NoProbe
    /\ ~Locked(d)
    /\ IF drv[d] = "none"
       THEN prober' = [prober EXCEPT ![p].pc = "probe", ![p].dev = d]
       ELSE p = "work" /\ Leave(p)
    /\ UNCHANGED <<drv, listed, work>> /\ SurroundingsUnchanged

HasSuppliers(d) ==
    \/ \A s \in Suppliers(d) : drv[s] = "bound"
    \/ d \in OptionalOf /\ TimedOut

\* really_probe: deferred by the sleep or for a supplier, else the driver's
\* own probe binds or fails.
Probe(p) ==
    /\ prober[p].pc = "probe"
    /\ IF deferAll \/ ~HasSuppliers(prober[p].dev)
       THEN IF p = "manual" THEN Leave(p) ELSE Step(p, "defer")
       ELSE \/ prober' = [prober EXCEPT ![p].pc = "bind", ![p].moved = FALSE]
            \/ Leave(p)
    /\ UNCHANGED <<drv, listed, work>> /\ SurroundingsUnchanged

\* driver_bound, in two parts: the device is bound, ...
Bind(p) ==
    /\ prober[p].pc = "bind"
    /\ drv' = [drv EXCEPT ![prober[p].dev] = "bound"]
    /\ Step(p, "unlist")
    /\ UNCHANGED <<listed, work>> /\ SurroundingsUnchanged

\* Mutant: the device stays on the list it was on.
UnlistNothing(p) ==
    /\ prober[p].pc = "unlist"
    /\ Step(p, "trigger")
    /\ UNCHANGED <<drv, listed, work>> /\ SurroundingsUnchanged

\* ... taken off the deferred lists, and all that is pending is to be retried.
Unlist(p) ==
    /\ prober[p].pc = "unlist"
    /\ listed' = [listed EXCEPT ![prober[p].dev] = "none"]
    /\ Step(p, "trigger")
    /\ UNCHANGED <<drv, work>> /\ SurroundingsUnchanged

Fire(p) ==
    /\ prober[p].pc = "trigger"
    /\ Trigger([prober EXCEPT ![p] = NoProbe])
    /\ UNCHANGED drv /\ SurroundingsUnchanged

\* driver_deferred_probe_add
Defer(p) ==
    /\ prober[p].pc = "defer"
    /\ listed' = [listed EXCEPT ![prober[p].dev] = IF @ = "none" THEN "pending" ELSE @]
    /\ Step(p, "recheck")
    /\ UNCHANGED <<drv, work>> /\ SurroundingsUnchanged

\* Mutant: a trigger that occurred while probing goes unnoticed.
RecheckNever(p) ==
    /\ prober[p].pc = "recheck"
    /\ Leave(p)
    /\ UNCHANGED <<drv, listed, work>> /\ SurroundingsUnchanged

\* driver_probe_device: did a trigger occur while probing?
Recheck(p) ==
    /\ prober[p].pc = "recheck"
    /\ IF prober[p].moved /\ ~deferAll THEN Step(p, "trigger") ELSE Leave(p)
    /\ UNCHANGED <<drv, listed, work>> /\ SurroundingsUnchanged

-----------------------------------------------------------------------------
\* device_block_probing sets the flag, flushes the work, then waits for the
\* probes that were counted.
BlockProbing ==
    /\ sleep = "awake" /\ spent.sleeps < SleepMax
    /\ deferAll' = TRUE /\ sleep' = "flush"
    /\ flush' = [flush EXCEPT !["sleep"] = Owed]
    /\ spent' = [spent EXCEPT !.sleeps = @ + 1]
    /\ UNCHANGED <<drv, listed, prober, work, boot>>

\* Mutant: only the deferred work is waited for.
SyncWorkOnly ==
    /\ sleep = "flush" /\ flush["sleep"] = 0
    /\ sleep' = "blocked"
    /\ UNCHANGED <<drv, listed, prober, work, deferAll, boot, flush, spent>>

\* wait_for_device_probe
SyncProbes ==
    /\ sleep = "flush" /\ flush["sleep"] = 0
    /\ Counted = {}
    /\ sleep' = "blocked"
    /\ UNCHANGED <<drv, listed, prober, work, deferAll, boot, flush, spent>>

\* device_unblock_probing clears the flag, then triggers.
UnblockProbing ==
    /\ sleep = "blocked"
    /\ deferAll' = FALSE /\ sleep' = "kick"
    /\ UNCHANGED <<drv, listed, prober, work, boot, flush, spent>>

UnblockTrigger ==
    /\ sleep = "kick" /\ sleep' = "awake"
    /\ Trigger(prober)
    /\ UNCHANGED <<drv, deferAll, boot, flush, spent>>

\* deferred_probe_initcall enables deferral, triggers and flushes twice; then
\* the timeout work gives up on optional suppliers and triggers a last time.
BootStep(from, to) ==
    /\ boot = from /\ boot' = to
    /\ UNCHANGED <<drv, deferAll, sleep, spent>>

BootEnable == BootStep("initcalls", "enabled") /\ UNCHANGED <<listed, prober, work, flush>>

BootTrigger ==
    \E step \in {<<"enabled", "flush1">>, <<"flushed", "flush2">>, <<"expired", "settled">>} :
        /\ BootStep(step[1], step[2])
        /\ Trigger(prober)
        /\ flush' = [flush EXCEPT !["boot"] = IF work.running THEN 2 ELSE 1]

BootFlush ==
    \E step \in {<<"flush1", "flushed">>, <<"flush2", "running">>} :
        /\ flush["boot"] = 0
        /\ BootStep(step[1], step[2])
        /\ UNCHANGED <<listed, prober, work, flush>>

BootTimeout == BootStep("running", "expired") /\ UNCHANGED <<listed, prober, work, flush>>

-----------------------------------------------------------------------------
\* A bound device has no consumer that is bound or past its supplier check:
\* __device_release_driver unbinds those first.
LinksBusy(d) ==
    \E c \in Devs :
        /\ d \in Suppliers(c)
        /\ \/ drv[c] = "bound"
           \/ \E p \in Probers : prober[p].dev = c /\ prober[p].pc \in {"bind", "unlist"}

ReleaseDriver(d) ==
    /\ spent.unbinds < UnbindMax
    /\ drv[d] = "bound" /\ ~Locked(d) /\ ~LinksBusy(d)
    /\ drv' = [drv EXCEPT ![d] = "none"]
    /\ spent' = [spent EXCEPT !.unbinds = @ + 1]
    /\ UNCHANGED <<listed, prober, work, deferAll, sleep, boot, flush>>

\* The device goes: marked dead under its lock, then taken off the lists.
KillDevice(d) ==
    /\ spent.unbinds < UnbindMax
    /\ drv[d] = "none" /\ ~Locked(d)
    /\ drv' = [drv EXCEPT ![d] = "dying"]
    /\ spent' = [spent EXCEPT !.unbinds = @ + 1]
    /\ UNCHANGED <<listed, prober, work, deferAll, sleep, boot, flush>>

DeferredProbeDel(d) ==
    /\ drv[d] = "dying"
    /\ drv' = [drv EXCEPT ![d] = "dead"]
    /\ listed' = [listed EXCEPT ![d] = "none"]
    /\ UNCHANGED <<prober, work>> /\ SurroundingsUnchanged

ProbeNext ==
    \/ WorkStart \/ WorkEnd
    \/ \E d \in Devs : WorkTake(d) \/ ReleaseDriver(d) \/ KillDevice(d) \/ DeferredProbeDel(d)
    \/ \E p \in Probers, d \in Devs : Approach(p, d)
    \/ \E p \in Probers :
           Probe(p) \/ Bind(p) \/ Unlist(p) \/ Fire(p) \/ Defer(p) \/ Recheck(p)
    \/ BlockProbing \/ SyncProbes \/ UnblockProbing \/ UnblockTrigger
    \/ BootEnable \/ BootTrigger \/ BootFlush \/ BootTimeout

ProbeSpec == ProbeInit /\ [][ProbeNext]_probeVars

-----------------------------------------------------------------------------
\* Nothing is left to do: no probe, no work, no trigger about to come.
Settled ==
    /\ \A p \in Probers : prober[p] = NoProbe
    /\ ~work.queued /\ ~work.running
    /\ sleep = "awake" /\ boot \in {"running", "settled"}

\* A device that is left on the pending list when all is quiet really lacks a
\* supplier: whatever probes and triggers overlapped, the trigger count made
\* up for the trigger that came between a failed lookup and the list.
PendingLacksSupplier ==
    Settled =>
        \A d \in Devs :
            /\ listed[d] # "active"
            /\ listed[d] = "pending" => ~HasSuppliers(d)

\* No list names a bound device, except while driver_bound is taking it off,
\* nor a device that has been deleted, whose memory may be gone.
ListsNameLiveDevices ==
    \A d \in Devs :
        listed[d] # "none" =>
            /\ drv[d] # "dead"
            /\ drv[d] = "bound" => \E p \in Probers : prober[p].pc = "unlist" /\ prober[p].dev = d

\* Once device_block_probing has returned no driver is being bound, except by
\* a bind written to sysfs, which probe_count does not know of.
BlockedIsQuiet ==
    sleep = "blocked" => \A p \in Counted : prober[p].pc \notin {"bind", "unlist"}

\* ------------------------------------------------ the inductive invariant
ProberStates ==
    [pc : {"idle", "wait", "probe", "bind", "unlist", "trigger", "defer", "recheck"},
     dev : Devs \cup {0}, moved : BOOLEAN]

ProbeTypeOK ==
    /\ drv \in [Devs -> {"none", "bound", "dying", "dead"}]
    /\ listed \in [Devs -> {"none", "pending", "active"}]
    /\ prober \in [Probers -> ProberStates]
    /\ work \in [queued : BOOLEAN, running : BOOLEAN]
    /\ deferAll \in BOOLEAN
    /\ sleep \in {"awake", "flush", "blocked", "kick"}
    /\ boot \in {"initcalls", "enabled", "flush1", "flushed", "flush2", "running", "expired", "settled"}
    /\ flush \in [{"sleep", "boot"} -> Nat]
    /\ spent \in [sleeps : Nat, unbinds : Nat]

\* A prober past the device lock has a device to itself, one with no driver until the
\* prober binds it; a bind written to sysfs never defers.
ProbersHoldLocks ==
    /\ \A p \in Probers :
         /\ prober[p].pc # "idle" => prober[p].dev \in Devs
         /\ prober[p].pc \in {"probe", "bind", "defer"} => drv[prober[p].dev] = "none"
         /\ prober[p].pc = "unlist" => drv[prober[p].dev] = "bound"
         /\ prober[p].pc \in {"trigger", "recheck"} => drv[prober[p].dev] \in {"none", "bound"}
         /\ prober[p].pc = "wait" => p = "work"
         /\ prober[p].pc \in {"defer", "recheck"} => p # "manual"
    /\ \A p, q \in Probers :
         /\ p # q
         /\ prober[p].pc \notin {"idle", "wait"} /\ prober[q].pc \notin {"idle", "wait"}
         => prober[p].dev # prober[q].dev

\* A trigger is about to come: from the end of the sleep, from the boot, or from a
\* driver that has been bound.
TriggerComing ==
    \/ sleep # "awake"
    \/ boot \in {"initcalls", "enabled", "flushed", "expired"}
    \/ \E p \in Probers : prober[p].pc \in {"unlist", "trigger"}

\* A device on the pending list, or about to be put there, that does not lack a supplier
\* is owed a trigger: one that is coming, or one a prober has seen the count move for.
NoTriggerMissed ==
    /\ \A d \in Devs :
         listed[d] = "pending" /\ HasSuppliers(d) =>
             TriggerComing \/ \E p \in Probers : prober[p].pc = "recheck" /\ prober[p].moved
    /\ \A p \in Probers :
         prober[p].pc = "defer" /\ HasSuppliers(prober[p].dev) => TriggerComing \/ prober[p].moved

ActiveIsWorked == \A d \in Devs : listed[d] = "active" => work.queued \/ work.running

SleepDefers == deferAll <=> sleep \in {"flush", "blocked"}

ProbeInv ==
    /\ ProbeTypeOK /\ ProbersHoldLocks /\ NoTriggerMissed /\ ActiveIsWorked /\ SleepDefers
    /\ ListsNameLiveDevices /\ BlockedIsQuiet

\* Deferred probing as a whole: no trigger is missed, no list names a device it should
\* not, and nothing is bound while probing is blocked.
ProbeSafe ==
    /\ ProbeInv /\ PendingLacksSupplier /\ ListsNameLiveDevices /\ BlockedIsQuiet
=============================================================================
