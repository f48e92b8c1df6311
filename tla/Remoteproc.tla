----------------------------- MODULE Remoteproc ------------------------------
(****************************************************************************)
(* Removal of a remote processor (the ADSP or the modem) against crash      *)
(* reports, recovery, boot and shutdown: patch 0003 of the ACPI kernel      *)
(* series to drivers/remoteproc/remoteproc_core.c.                          *)
(*                                                                          *)
(* The patch shows the lines it touches; the steps of start, stop and       *)
(* recovery around them belong to the kernel it applies to and are          *)
(* external.  A crash report comes from an interrupt and takes only the     *)
(* spin lock, so it is one step at any time.  rproc->lock is a mutex: a     *)
(* thread that keeps it while it waits for firmware or for the processor    *)
(* does so in several steps.  A processor found running by the kernel       *)
(* (RPROC_ATTACHED) is left out: none of this machine's is.                 *)
(****************************************************************************)
EXTENDS Naturals

CONSTANTS
  Users,       \* threads that boot, shut down or recover the processor
  MaxPower,    \* bound on rproc->power
  MaxReports   \* bound on the number of crash reports

Worker == "worker"
Threads == Users \cup {Worker}
NoThread == "nobody"

ASSUME UsersAssumption == Worker \notin Users /\ NoThread \notin Users
ASSUME MaxPowerAssumption == MaxPower \in Nat \ {0}
ASSUME MaxReportsAssumption == MaxReports \in Nat

VARIABLES
  state,      \* rproc->state
  power,      \* rproc->power
  started,    \* rproc->subdevs_started
  cpu,        \* the processor runs
  subs,       \* what its subdevices really are: "off", "prepared", "started"
  unmatched,  \* history: a subdevice was stopped or unprepared in the wrong state
  lock,       \* owner of rproc->lock
  pc,         \* where each thread stands
  work,       \* crash_handler is pending
  awake,      \* the parent's wakeup source is active
  reports,    \* crash reports so far
  dropped,    \* history: a duplicate crash was dropped
  deleting,   \* rproc->deleting
  dl,         \* where rproc_del() stands
  cancelled,  \* what its cancel_work_sync() returns
  ret         \* what its __rproc_shutdown() returned, and rproc_del() ignored

procVars == <<state, power, started, cpu, subs, unmatched>>
crashVars == <<work, awake, reports, dropped>>
delVars == <<deleting, dl, cancelled, ret>>
vars == <<procVars, lock, pc, crashVars, delVars>>

Stoppable == {"RUNNING", "CRASHED"}

RprocInit ==
  /\ state = "OFFLINE" /\ power = 0 /\ started = FALSE
  /\ cpu = FALSE /\ subs = "off" /\ unmatched = FALSE
  /\ lock = NoThread /\ pc = [t \in Threads |-> "idle"]
  /\ work = FALSE /\ awake = FALSE /\ reports = 0 /\ dropped = FALSE
  /\ deleting = FALSE /\ dl = "none" /\ cancelled = FALSE /\ ret = "none"

Move(t, to) == pc' = [pc EXCEPT ![t] = to]

------------------------------------------------------------------------------
(* Start and stop of the processor, always under rproc->lock. *)

(* rproc_start(): subdevices are prepared, the processor starts, then they  *)
(* do; a failure on the way is unrolled.                                    *)
RprocStart(ok) ==
  /\ state' = IF ok THEN "RUNNING" ELSE state
  /\ started' = (started \/ ok)
  /\ cpu' = ok
  /\ subs' = IF ok THEN "started" ELSE "off"
  /\ UNCHANGED unmatched

\* Mutant: the subdevices are stopped without a look at subdevs_started.
StopSubdevicesAlways(after) ==
  /\ started' = FALSE
  /\ unmatched' = (unmatched \/ subs # "started")
  /\ subs' = IF after = "off" THEN "off" ELSE "prepared"

(* rproc_stop_subdevices(), then rproc_unprepare_subdevices() if the stop   *)
(* goes on to "off".                                                        *)
StopSubdevices(after) ==
  LET left == IF started THEN "prepared" ELSE subs IN
    /\ started' = FALSE
    /\ unmatched' = \/ unmatched
                    \/ started /\ subs # "started"
                    \/ after = "off" /\ left # "prepared"
    /\ subs' = IF after = "off" THEN "off" ELSE left

(* rproc_stop(): a processor that does not stop keeps its state, with the   *)
(* subdevices already stopped.                                              *)
RprocStop(ok) ==
  /\ StopSubdevices(IF ok THEN "off" ELSE "stopped")
  /\ cpu' = (cpu /\ ~ok)
  /\ state' = IF ok THEN "OFFLINE" ELSE state

------------------------------------------------------------------------------
(* Crash reports and the work item that handles them. *)

\* Mutant: a report is taken while the processor is being removed.
ReportCrashAlways ==
  /\ reports < MaxReports
  /\ reports' = reports + 1
  /\ awake' = TRUE /\ work' = TRUE
  /\ UNCHANGED <<procVars, lock, pc, dropped, delVars>>

ReportCrash ==
  /\ reports < MaxReports
  /\ reports' = reports + 1
  /\ IF deleting THEN UNCHANGED <<awake, work>> ELSE awake' = TRUE /\ work' = TRUE
  /\ UNCHANGED <<procVars, lock, pc, dropped, delVars>>

(* The workqueue takes the pending item; an item never runs twice at once. *)
WorkStarts ==
  /\ work /\ pc[Worker] = "idle"
  /\ work' = FALSE
  /\ Move(Worker, "handle")
  /\ UNCHANGED <<procVars, lock, awake, reports, dropped, delVars>>

\* Mutant: the early exit for a removal forgets to unlock rproc->lock.
CrashHandlerKeepsLock ==
  /\ pc[Worker] = "handle" /\ lock = NoThread
  /\ IF deleting \/ state = "OFFLINE"
       THEN Move(Worker, "relax") /\ lock' = Worker /\ UNCHANGED state
       ELSE Move(Worker, "trigger") /\ state' = "CRASHED" /\ UNCHANGED lock
  /\ UNCHANGED <<power, started, cpu, subs, unmatched, crashVars, delVars>>

(* First critical section of rproc_crash_handler_work(); only the duplicate *)
(* returns without pm_relax().  Recovery may be disabled.                   *)
CrashHandler ==
  /\ pc[Worker] = "handle" /\ lock = NoThread
  /\ \/ /\ deleting \/ state = "OFFLINE"
        /\ Move(Worker, "relax")
        /\ UNCHANGED <<state, dropped>>
     \/ /\ ~deleting /\ state = "CRASHED"
        /\ Move(Worker, "idle")
        /\ dropped' = TRUE
        /\ UNCHANGED state
     \/ /\ ~deleting /\ state \notin {"CRASHED", "OFFLINE"}
        /\ state' = "CRASHED"
        /\ \E next \in {"trigger", "relax"} : Move(Worker, next)
        /\ UNCHANGED dropped
  /\ UNCHANGED <<power, started, cpu, subs, unmatched, lock, work, awake, reports, delVars>>

CrashHandlerRelax ==
  /\ pc[Worker] = "relax"
  /\ awake' = FALSE
  /\ Move(Worker, "idle")
  /\ UNCHANGED <<procVars, lock, work, reports, dropped, delVars>>

(* Where a thread goes when rproc_trigger_recovery() returns to it. *)
Return(t) == IF t = Worker THEN "relax" ELSE "idle"

\* Mutant: recovery starts without a look at what happened before the lock.
TriggerRecoveryStale(t) ==
  /\ pc[t] = "trigger" /\ lock = NoThread
  /\ lock' = t
  /\ Move(t, "stop")
  /\ UNCHANGED <<procVars, crashVars, delVars>>

(* rproc_trigger_recovery(), from the work item or from debugfs. *)
TriggerRecovery(t) ==
  /\ pc[t] = "trigger" /\ lock = NoThread
  /\ IF deleting \/ state # "CRASHED"
       THEN Move(t, Return(t)) /\ UNCHANGED lock
       ELSE Move(t, "stop") /\ lock' = t
  /\ UNCHANGED <<procVars, crashVars, delVars>>

RecoveryStop(t) ==
  /\ pc[t] = "stop"
  /\ \E ok \in BOOLEAN :
       /\ RprocStop(ok)
       /\ lock' = IF ok THEN t ELSE NoThread
       /\ Move(t, IF ok THEN "start" ELSE Return(t))
  /\ UNCHANGED <<power, crashVars, delVars>>

RecoveryStart(t) ==
  /\ pc[t] = "start"
  /\ \E ok \in BOOLEAN : RprocStart(ok)
  /\ lock' = NoThread
  /\ Move(t, Return(t))
  /\ UNCHANGED <<power, crashVars, delVars>>

------------------------------------------------------------------------------
(* Users of the processor. *)

DebugfsRecover(u) ==
  /\ pc[u] = "idle" /\ dl # "gone"
  /\ Move(u, "trigger")
  /\ UNCHANGED <<procVars, lock, crashVars, delVars>>

\* Mutant: only a deleted processor is refused, not one being deleted.
BootUnlessDeleted(u) ==
  /\ pc[u] = "idle" /\ lock = NoThread
  /\ state # "DELETED"
  /\ power < MaxPower
  /\ power' = power + 1
  /\ lock' = u
  /\ Move(u, IF power = 0 THEN "boot" ELSE "unlock")
  /\ UNCHANGED <<state, started, cpu, subs, unmatched, crashVars, delVars>>

(* rproc_boot(): refused while deleting; only the first user boots. *)
Boot(u) ==
  /\ pc[u] = "idle" /\ lock = NoThread
  /\ ~deleting /\ state # "DELETED"
  /\ power < MaxPower
  /\ power' = power + 1
  /\ lock' = u
  /\ Move(u, IF power = 0 THEN "boot" ELSE "unlock")
  /\ UNCHANGED <<state, started, cpu, subs, unmatched, crashVars, delVars>>

(* Firmware request and rproc_start(); a failure gives the reference back. *)
BootEnds(u) ==
  /\ pc[u] \in {"boot", "unlock"}
  /\ \/ /\ pc[u] = "unlock"
        /\ UNCHANGED procVars
     \/ /\ pc[u] = "boot"
        /\ \E ok \in BOOLEAN :
             /\ RprocStart(ok)
             /\ power' = IF ok THEN power ELSE power - 1
  /\ lock' = NoThread
  /\ Move(u, "idle")
  /\ UNCHANGED <<crashVars, delVars>>

\* Mutant: a stop that failed does not give the reference back.
ShutdownLosesPower(ok) ==
  /\ RprocStop(ok)
  /\ power' = power - 1

(* The part of __rproc_shutdown() that stops the processor: a stop that     *)
(* failed takes the reference again.                                        *)
ShutdownStop(ok) ==
  /\ RprocStop(ok)
  /\ power' = IF ok THEN power - 1 ELSE power

(* rproc_shutdown(): the last user stops a running or a crashed processor. *)
Shutdown(u) ==
  /\ pc[u] = "idle" /\ lock = NoThread
  /\ state \in Stoppable
  /\ IF power = 1
       THEN \E ok \in BOOLEAN : ShutdownStop(ok)
       ELSE power' = power - 1 /\ UNCHANGED <<state, started, cpu, subs, unmatched>>
  /\ UNCHANGED <<lock, pc, crashVars, delVars>>

------------------------------------------------------------------------------
(* rproc_del() *)

DelFlag ==
  /\ dl = "none"
  /\ deleting' = TRUE
  /\ dl' = "cancel"
  /\ UNCHANGED <<procVars, lock, pc, crashVars, cancelled, ret>>

\* Mutant: a pending item is left on the queue.
DelCancelKeepsPending ==
  /\ dl = "cancel"
  /\ cancelled' = work
  /\ dl' = "flush"
  /\ UNCHANGED <<procVars, lock, pc, crashVars, deleting, ret>>

(* cancel_work_sync() takes a pending item off the queue ... *)
DelCancel ==
  /\ dl = "cancel"
  /\ cancelled' = work
  /\ work' = FALSE
  /\ dl' = "flush"
  /\ UNCHANGED <<procVars, lock, pc, awake, reports, dropped, deleting, ret>>

\* Mutant: the wakeup source of a cancelled item stays active.
DelFlushAwake ==
  /\ dl = "flush" /\ pc[Worker] = "idle"
  /\ dl' = "shutdown"
  /\ UNCHANGED <<procVars, lock, pc, crashVars, deleting, cancelled, ret>>

(* ... and waits for one that runs; a cancelled one is relaxed in its place. *)
DelFlush ==
  /\ dl = "flush" /\ pc[Worker] = "idle"
  /\ awake' = (awake /\ ~cancelled)
  /\ dl' = "shutdown"
  /\ UNCHANGED <<procVars, lock, pc, work, reports, dropped, deleting, cancelled, ret>>

(* __rproc_shutdown(rproc, true): stops the processor whatever its users;   *)
(* a signal while the lock is somebody else's ends it before it starts.     *)
DelShutdown ==
  /\ dl = "shutdown"
  /\ \/ /\ lock = NoThread /\ state \in Stoppable
        /\ \E ok \in BOOLEAN : ShutdownStop(ok) /\ ret' = IF ok THEN "ok" ELSE "stop"
     \/ /\ lock = NoThread /\ state \notin Stoppable
        /\ ret' = "EINVAL" /\ UNCHANGED procVars
     \/ /\ lock # NoThread
        /\ ret' = "EINTR" /\ UNCHANGED procVars
  /\ dl' = "mark"
  /\ UNCHANGED <<lock, pc, crashVars, deleting, cancelled>>

DelMark ==
  /\ dl = "mark" /\ lock = NoThread
  /\ state' = "DELETED"
  /\ dl' = "gone"
  /\ UNCHANGED <<power, started, cpu, subs, unmatched, lock, pc, crashVars,
                 deleting, cancelled, ret>>

------------------------------------------------------------------------------
WorkerStep ==
  \/ WorkStarts \/ CrashHandler \/ CrashHandlerRelax
  \/ TriggerRecovery(Worker) \/ RecoveryStop(Worker) \/ RecoveryStart(Worker)

(* What a user's thread does on its own once it has made its call. *)
UserStep(u) == TriggerRecovery(u) \/ RecoveryStop(u) \/ RecoveryStart(u) \/ BootEnds(u)

UserCall(u) == DebugfsRecover(u) \/ Boot(u) \/ Shutdown(u)

DelStep == DelCancel \/ DelFlush \/ DelShutdown \/ DelMark

RprocNext ==
  \/ ReportCrash \/ WorkerStep
  \/ \E u \in Users : UserStep(u) \/ UserCall(u)
  \/ DelFlag \/ DelStep

(* A call that has begun goes on; the mutex is handed to a thread that      *)
(* waits for it, however often the others come back.                        *)
RprocSpec ==
  /\ RprocInit /\ [][RprocNext]_vars
  /\ SF_vars(WorkerStep) /\ SF_vars(DelStep)
  /\ \A u \in Users : SF_vars(UserStep(u))

------------------------------------------------------------------------------
CountsOK == power \in 0..MaxPower /\ reports \in 0..MaxReports

ProcTypeOK ==
  /\ state \in {"OFFLINE", "RUNNING", "CRASHED", "DELETED"}
  /\ subs \in {"off", "prepared", "started"}
  /\ started \in BOOLEAN /\ cpu \in BOOLEAN /\ unmatched \in BOOLEAN

ThreadTypeOK ==
  /\ lock \in Threads \cup {NoThread}
  /\ pc \in [Threads -> {"idle", "handle", "trigger", "stop", "start", "boot", "unlock", "relax"}]

CrashTypeOK == work \in BOOLEAN /\ awake \in BOOLEAN /\ dropped \in BOOLEAN

DelTypeOK ==
  /\ deleting \in BOOLEAN /\ cancelled \in BOOLEAN
  /\ dl \in {"none", "cancel", "flush", "shutdown", "mark", "gone"}
  /\ ret \in {"none", "ok", "stop", "EINVAL", "EINTR"}

(* Type correctness of struct rproc, its threads, its crash work and its *)
(* removal.                                                              *)
RprocTypeOK == CountsOK /\ ProcTypeOK /\ ThreadTypeOK /\ CrashTypeOK /\ DelTypeOK

(* Who owns the lock, and what a thread that owns it relies on. *)
LockInv ==
  /\ \A t \in Threads : lock = t <=> pc[t] \in {"stop", "start", "boot", "unlock"}
  /\ \A t \in Threads : pc[t] = "stop" => state = "CRASHED"
  /\ \A t \in Threads : pc[t] \in {"start", "boot"} => state = "OFFLINE" /\ power # 0

(* What the state says about the processor, its subdevices and its users: a *)
(* processor that is running or crashed is held by some user, so that no    *)
(* shutdown counts below zero.                                              *)
ProcInv ==
  /\ state \in Stoppable => cpu /\ power # 0
  /\ state = "OFFLINE" => ~cpu
  /\ subs = IF ~cpu THEN "off" ELSE IF started THEN "started" ELSE "prepared"
  /\ started => cpu
  /\ ~unmatched

(* The part of the inductive invariant that holds with or without removal. *)
RprocInv == RprocTypeOK /\ LockInv /\ ProcInv

(* How far removal has come, and what it has switched off so far: from the  *)
(* flag on nobody takes the lock to start anything, from the cancellation   *)
(* on no crash work is pending, after the shutdown the lock stays free      *)
(* unless it was interrupted.                                               *)
RemovalInv ==
  /\ dl # "none" <=> deleting
  /\ state = "DELETED" <=> dl = "gone"
  /\ dl \in {"flush", "shutdown", "mark", "gone"} => ~work
  /\ dl \in {"shutdown", "mark", "gone"} => pc[Worker] = "idle"
  /\ dl = "gone" => lock = NoThread
  /\ dl \in {"mark", "gone"} /\ ret \notin {"stop", "EINTR"} => ~cpu /\ lock = NoThread
  /\ awake => work \/ dropped \/ pc[Worker] # "idle" \/ (dl = "flush" /\ cancelled)

(* "Drain pending crash work during removal": once removal has cancelled    *)
(* the crash work, none is queued or running, so none can touch the         *)
(* processor while it is stopped or after it is gone.                       *)
CrashWorkDrained ==
  dl \in {"shutdown", "mark", "gone"} => ~work /\ pc[Worker] = "idle"

(* "Balance subdevice stop/unprepare handling": over every failed stop and  *)
(* every retry by another thread no subdevice is stopped unless it is       *)
(* started, or unprepared unless it is stopped.                             *)
SubdevicesBalanced == ~unmatched

(* A removed processor is off, with its subdevices, unless its own forced   *)
(* shutdown reported that the stop failed or that it was interrupted.       *)
RemovalStops ==
  dl = "gone" /\ (cpu \/ subs # "off") => ret \in {"stop", "EINTR"}

(* Once removed, the processor is never started, stopped or recovered.      *)
NothingTouchesDeleted == [][state = "DELETED" => UNCHANGED procVars]_vars

(* Removal leaves the parent's wakeup source active only if a duplicate     *)
(* crash was dropped: a pending report is relaxed by the canceller, a       *)
(* running one by the worker, and no report slips in between.               *)
WakeupReleased == dl = "gone" /\ awake => dropped

(* Removal ends, whatever the worker and the users are doing. *)
RemovalEnds == deleting ~> state = "DELETED"

(* "Removal must stop a crashed remoteproc even if users hold references":  *)
(* what is marked deleted is not a crashed processor still waiting to be    *)
(* stopped, unless stopping it failed.                                      *)
RemovalStopsCrashed == [][(dl = "mark" /\ dl' = "gone" /\ state = "CRASHED") => ret = "stop"]_vars

\* Removal as a whole: no crash work, no unbalanced subdevice, no running processor and
\* no wakeup source is left behind but for the reasons given above.
RemovedClean ==
    /\ CrashWorkDrained /\ SubdevicesBalanced /\ RemovalStops /\ WakeupReleased
==============================================================================
