----------------------------- MODULE SwrMaster -----------------------------
(***************************************************************************)
(* The Qualcomm SoundWire master with the runtime PM changes of candidate   *)
(* v5 (qcom.c).  Three actors share the slave status the master caches:     *)
(* the threaded interrupt handler, runtime suspend and runtime resume.  The *)
(* bus stops its clock on suspend; on resume it either leaves clock stop or,*)
(* when the hardware saw no slave, is reset and enumerated again.           *)
(*                                                                         *)
(* A slave is its device number.  Of the interrupts, a changed slave status *)
(* and a slave's alert are modelled; the error interrupts only log, flush   *)
(* the FIFO or mask themselves.                                            *)
(***************************************************************************)
EXTENDS Naturals, FiniteSets

CONSTANTS DevNums,    \* device numbers of the slaves
          StreamMax,  \* bound: streams open at a time
          LeakMax     \* bound: probes that fail at the wake interrupt

ASSUME SwrAssumption == StreamMax \in Nat \ {0} /\ LeakMax \in Nat

VARIABLES
    wakeIrq,     \* the device has a wake interrupt
    rpm,         \* "absent", "active", "suspending", "suspended" or "resuming"
    pm,          \* next step of a suspend or resume, or "idle"
    streams,     \* streams that hold a runtime PM reference
    hclk,        \* enable count of the interface clock
    leaked,      \* probes that failed with the clock on
    wakeOn,      \* the wake interrupt is enabled
    noStop,      \* ctrl->clock_stop_not_supported
    alive,       \* slaves that answer on the bus, if it runs
    running,     \* the bus clock runs
    link,        \* the frame generator works
    hwStatus,    \* SWRM_MCP_SLV_STATUS: attached slaves
    intr,        \* the status-change bit of the interrupt status register
    irq,         \* step of the interrupt handler, or "idle"
    slaveStatus, \* ctrl->slave_status
    status,      \* ctrl->status[]
    handled,     \* what sdw_handle_slave_status() was told last
    raced        \* history: overlaps that lose a status change or the reset

hwVars == <<alive, running, link, hwStatus>>
irqVars == <<intr, irq, slaveStatus, status, handled>>
pmVars == <<rpm, pm, streams, wakeOn, noStop>>
swrVars == <<wakeIrq, leaked, hclk, raced, hwVars, irqVars, pmVars>>

SwrInit ==
    /\ wakeIrq \in BOOLEAN
    /\ rpm = "absent" /\ pm = "idle" /\ streams = 0 /\ hclk = 0 /\ leaked = 0
    /\ wakeOn = FALSE /\ noStop = FALSE /\ alive = {} /\ running = FALSE /\ link = FALSE
    /\ hwStatus = {} /\ intr = FALSE /\ irq = "idle" /\ slaveStatus = {} /\ status = {}
    /\ handled = {} /\ raced = {}

----------------------------------------------------------------------------
(* The bus, as the driver sees it *)

\* A codec leaves or enters reset, or loses its supply.
SlavePower ==
    /\ alive' \in (SUBSET DevNums) \ {alive}
    /\ UNCHANGED <<wakeIrq, leaked, hclk, raced, running, link, hwStatus, irqVars, pmVars>>

\* The master pings its slaves. A change that comes between the handler's read of the
\* status and its write to the clear register leaves no trace.
Ping ==
    /\ running /\ link /\ hwStatus # alive
    /\ hwStatus' = alive /\ intr' = TRUE
    /\ raced' = IF irq \in {"enumerate", "found", "handle", "clear"}
                THEN raced \cup {"merged"} ELSE raced
    /\ UNCHANGED <<wakeIrq, leaked, hclk, alive, running, link, irq, slaveStatus, status, handled,
                   pmVars>>

----------------------------------------------------------------------------
(* Probe and removal *)

\* qcom_swrm_probe(). Once the clock is on, a wake interrupt that cannot be requested
\* leaves through err_init, every other failure through err_clk.
ProbeFails ==
    /\ rpm = "absent"
    /\ wakeIrq /\ leaked < LeakMax /\ leaked' = leaked + 1 /\ hclk' = hclk + 1
    /\ UNCHANGED <<wakeIrq, raced, hwVars, irqVars, pmVars>>

\* qcom_swrm_init() starts the bus, clears the interrupts and forgets the status.
SwrProbe ==
    /\ rpm = "absent" /\ rpm' = "active" /\ hclk' = hclk + 1
    /\ running' = TRUE /\ link' = TRUE /\ hwStatus' = {} /\ intr' = FALSE
    /\ slaveStatus' = {} /\ status' = {} /\ handled' = {} /\ noStop' = FALSE
    /\ wakeOn' = wakeIrq /\ raced' = {}
    /\ UNCHANGED <<wakeIrq, leaked, alive, irq, pm, streams>>

\* qcom_swrm_remove(): the script holds the device active, and the handler is not
\* running. The wake interrupt goes with the device.
SwrRemove ==
    /\ rpm = "active" /\ pm = "idle" /\ streams = 0 /\ irq = "idle"
    /\ rpm' = "absent" /\ hclk' = hclk - 1 /\ running' = FALSE /\ link' = FALSE
    /\ wakeOn' = FALSE
    /\ UNCHANGED <<wakeIrq, leaked, raced, alive, hwStatus, irqVars, pm, streams, noStop>>

----------------------------------------------------------------------------
(* qcom_swrm_irq_handler() *)

IrqEnter ==
    /\ rpm # "absent" /\ intr /\ irq = "idle"
    /\ irq' = "compare" /\ hclk' = hclk + 1
    /\ UNCHANGED <<wakeIrq, leaked, raced, hwVars, intr, slaveStatus, status, handled, pmVars>>

\* An unchanged status is not looked at again; a changed one is cached.
IrqCompare ==
    /\ irq = "compare"
    /\ IF hwStatus = slaveStatus
       THEN irq' = "clear" /\ UNCHANGED <<slaveStatus, status>>
       ELSE irq' = "enumerate" /\ slaveStatus' = hwStatus /\ status' = hwStatus
    /\ UNCHANGED <<wakeIrq, leaked, hclk, raced, hwVars, intr, handled, pmVars>>

\* qcom_swrm_enumerate(): the test of status[i], and what is done for one that is set.
IrqEnumerate ==
    /\ irq = "enumerate" /\ irq' = IF status = {} THEN "handle" ELSE "found"
    /\ UNCHANGED <<wakeIrq, leaked, hclk, raced, hwVars, intr, slaveStatus, status, handled, pmVars>>

IrqFound ==
    /\ irq = "found" /\ irq' = "handle" /\ noStop' = FALSE
    /\ raced' = IF noStop /\ rpm \in {"suspending", "suspended"}
                THEN raced \cup {"overlap"} ELSE raced
    /\ UNCHANGED <<wakeIrq, leaked, hclk, hwVars, intr, slaveStatus, status, handled, rpm, pm,
                   streams, wakeOn>>

\* What was missed is made good when cache, bus core and hardware agree again.
MadeGood(told) ==
    IF told = hwStatus /\ slaveStatus = hwStatus THEN raced \ {"sampled", "merged"} ELSE raced

IrqHandle ==
    /\ irq = "handle" /\ irq' = "clear" /\ handled' = status
    /\ UNCHANGED <<wakeIrq, leaked, hclk, raced, hwVars, intr, slaveStatus, status, pmVars>>

\* The bits read are cleared. Nothing was raised that the handler had not read, so it
\* leaves its loop.
IrqClear ==
    /\ irq = "clear" /\ irq' = "idle" /\ intr' = FALSE /\ hclk' = hclk - 1
    /\ raced' = MadeGood(handled)
    /\ UNCHANGED <<wakeIrq, leaked, hwVars, slaveStatus, status, handled, pmVars>>

\* A slave raises an alert: the bus core is told the cached status once more.
IrqAlert ==
    /\ rpm # "absent" /\ irq = "idle" /\ running /\ hwStatus # {}
    /\ handled' = status
    /\ UNCHANGED <<wakeIrq, leaked, hclk, raced, hwVars, intr, irq, slaveStatus, status, pmVars>>

----------------------------------------------------------------------------
(* Runtime PM *)

\* qcom_swrm_startup() of a device that is active, and qcom_swrm_shutdown().
Startup ==
    /\ rpm = "active" /\ streams < StreamMax /\ streams' = streams + 1
    /\ UNCHANGED <<wakeIrq, leaked, hclk, raced, hwVars, irqVars, rpm, pm, wakeOn, noStop>>

StreamShutdown ==
    /\ streams > 0 /\ streams' = streams - 1
    /\ UNCHANGED <<wakeIrq, leaked, hclk, raced, hwVars, irqVars, rpm, pm, wakeOn, noStop>>

\* swrm_runtime_suspend() after the autosuspend delay. Without clock stop the clock is
\* just turned off.
Suspend ==
    /\ rpm = "active" /\ pm = "idle" /\ streams = 0
    /\ rpm' = "suspending" /\ pm' = IF noStop THEN "off" ELSE "stop"
    /\ UNCHANGED <<wakeIrq, leaked, hclk, raced, hwVars, irqVars, streams, wakeOn, noStop>>

\* sdw_bus_prep_clk_stop() refuses, unless no slave is attached.
SuspendRefused ==
    /\ pm = "stop" /\ handled # {} /\ rpm' = "active" /\ pm' = "idle"
    /\ UNCHANGED <<wakeIrq, leaked, hclk, raced, hwVars, irqVars, streams, wakeOn, noStop>>

\* sdw_bus_clk_stop() stops the bus, or fails and leaves it running.
ClockStop ==
    /\ pm = "stop"
    /\ \/ running' = FALSE /\ pm' = "sample"
       \/ running' = running /\ pm' = "failed"
    /\ UNCHANGED <<wakeIrq, leaked, hclk, raced, alive, link, hwStatus, irqVars, rpm, streams, wakeOn,
                   noStop>>

\* Mutant: candidate v4, which asks whether slaves are registered. The device tree has
\* registered them.
SampleRegistered ==
    /\ pm \in {"sample", "failed"}
    /\ slaveStatus' = hwStatus /\ status' = hwStatus /\ noStop' = noStop
    /\ IF pm = "sample" THEN pm' = "off" /\ UNCHANGED rpm ELSE pm' = "idle" /\ rpm' = "active"
    /\ raced' = raced \cup (IF hwStatus # handled THEN {"sampled"} ELSE {})
    /\ UNCHANGED <<wakeIrq, leaked, hclk, hwVars, intr, irq, handled, streams, wakeOn>>

\* Candidate v5 reads the status from the hardware, into the cache the interrupt handler
\* compares with: a bus without slaves is reset on the next resume.
SuspendSample ==
    /\ pm \in {"sample", "failed"}
    /\ slaveStatus' = hwStatus /\ status' = hwStatus
    /\ noStop' = (noStop \/ (pm = "sample" /\ hwStatus = {}))
    /\ IF pm = "sample" THEN pm' = "off" /\ UNCHANGED rpm ELSE pm' = "idle" /\ rpm' = "active"
    /\ raced' = raced \cup (IF hwStatus # handled /\ ~noStop' THEN {"sampled"} ELSE {})
    /\ UNCHANGED <<wakeIrq, leaked, hclk, hwVars, intr, irq, handled, streams, wakeOn>>

SuspendOff ==
    /\ pm = "off" /\ pm' = "idle" /\ rpm' = "suspended"
    /\ hclk' = hclk - 1 /\ wakeOn' = wakeIrq /\ running' = FALSE
    /\ UNCHANGED <<wakeIrq, leaked, raced, alive, link, hwStatus, irqVars, streams, noStop>>

\* Mutant: the reset path turns the clock on again.
ResumeTwice ==
    /\ rpm = "suspended" /\ rpm' = "resuming" /\ hclk' = hclk + (IF noStop THEN 2 ELSE 1)
    /\ wakeOn' = FALSE
    /\ pm' = IF noStop THEN "reset" ELSE "exit"
    /\ \/ UNCHANGED streams
       \/ streams < StreamMax /\ streams' = streams + 1
    /\ UNCHANGED <<wakeIrq, leaked, raced, hwVars, irqVars, noStop>>

\* swrm_runtime_resume(), for a stream that opens or from the wake interrupt.
Resume ==
    /\ rpm = "suspended" /\ rpm' = "resuming" /\ hclk' = hclk + 1
    /\ wakeOn' = FALSE
    /\ pm' = IF noStop THEN "reset" ELSE "exit"
    /\ \/ UNCHANGED streams
       \/ streams < StreamMax /\ streams' = streams + 1
    /\ UNCHANGED <<wakeIrq, leaked, raced, hwVars, irqVars, noStop>>

\* qcom_swrm_wake_irq_handler() of a device that is active already.
WakeWhileActive ==
    /\ rpm = "active" /\ wakeOn /\ wakeOn' = FALSE
    /\ UNCHANGED <<wakeIrq, leaked, hclk, raced, hwVars, irqVars, rpm, pm, streams, noStop>>

\* SWRM_COMP_SW_RESET, then qcom_swrm_init().
ResumeReset ==
    /\ pm = "reset" /\ pm' = "status"
    /\ running' = TRUE /\ link' = TRUE /\ hwStatus' = {} /\ intr' = FALSE /\ slaveStatus' = {}
    /\ raced' = raced \ {"overlap"}
    /\ UNCHANGED <<wakeIrq, leaked, hclk, alive, irq, status, handled, rpm, streams, wakeOn, noStop>>

\* The wait for the enumeration is over, complete or not.
ResumeStatus ==
    /\ pm = "status" /\ pm' = "enum" /\ slaveStatus' = hwStatus /\ status' = hwStatus
    /\ UNCHANGED <<wakeIrq, leaked, hclk, raced, hwVars, intr, irq, handled, rpm, streams, wakeOn,
                   noStop>>

\* Mutant: the status is cached, but the bus core is not told.
ResumeUntold ==
    /\ pm = "enum" /\ pm' = "idle" /\ rpm' = "active"
    /\ noStop' = (noStop /\ status = {})
    /\ UNCHANGED <<wakeIrq, leaked, hclk, raced, hwVars, irqVars, streams, wakeOn>>

\* qcom_swrm_enumerate() and sdw_handle_slave_status().
ResumeHandle ==
    /\ pm = "enum" /\ pm' = "idle" /\ rpm' = "active"
    /\ noStop' = (noStop /\ status = {}) /\ handled' = status
    /\ raced' = MadeGood(status)
    /\ UNCHANGED <<wakeIrq, leaked, hclk, hwVars, intr, irq, slaveStatus, status, streams, wakeOn>>

\* The bus leaves clock stop. When it was stopped without a slave on it, the frame
\* generator does not come back.
ResumeExit ==
    /\ pm = "exit" /\ pm' = "idle" /\ rpm' = "active"
    /\ running' = TRUE /\ link' = (link /\ hwStatus # {})
    /\ UNCHANGED <<wakeIrq, leaked, hclk, raced, alive, hwStatus, irqVars, streams, wakeOn, noStop>>

SwrNext ==
    \/ SlavePower \/ Ping \/ ProbeFails \/ SwrProbe \/ SwrRemove
    \/ IrqEnter \/ IrqCompare \/ IrqEnumerate \/ IrqFound \/ IrqHandle \/ IrqClear \/ IrqAlert
    \/ Startup \/ StreamShutdown \/ Suspend \/ SuspendRefused \/ ClockStop \/ SuspendSample \/ SuspendOff
    \/ Resume \/ WakeWhileActive \/ ResumeReset \/ ResumeStatus \/ ResumeHandle \/ ResumeExit

SwrSpec == SwrInit /\ [][SwrNext]_swrVars
----------------------------------------------------------------------------
(* Properties *)

SwrSettled == rpm = "active" /\ pm = "idle" /\ irq = "idle" /\ ~intr

\* When nothing is pending the bus core knows the slaves the hardware has, unless
\* suspend read the changed status into the handler's cache first, or the change came
\* between the handler's read and its clear.
StatusHandled ==
    SwrSettled => handled = hwStatus \/ raced \cap {"sampled", "merged"} # {}

\* The purpose of candidate v5: a bus that was stopped without a slave is reset on
\* resume, so its frame generator works whenever the master is active, unless an
\* enumeration that was under way cleared the flag after suspend had set it.
LinkAfterResume == rpm = "active" => link \/ "overlap" \in raced

\* The interface clock is enabled once for an active device and once for a running
\* handler, and for nothing else but the failed probes that left it on.
HclkBalanced ==
    hclk = leaked + (IF irq = "idle" THEN 0 ELSE 1)
                  + (IF rpm \in {"absent", "suspended"} THEN 0 ELSE 1)

\* ------------------------------------------------ the inductive invariant
SwrTypeOK ==
    /\ wakeIrq \in BOOLEAN /\ wakeOn \in BOOLEAN /\ noStop \in BOOLEAN
    /\ running \in BOOLEAN /\ link \in BOOLEAN /\ intr \in BOOLEAN
    /\ rpm \in {"absent", "active", "suspending", "suspended", "resuming"}
    /\ pm \in {"idle", "stop", "sample", "failed", "off", "reset", "exit", "status", "enum"}
    /\ irq \in {"idle", "compare", "enumerate", "found", "handle", "clear"}
    /\ streams \in Nat /\ leaked \in Nat
    /\ alive \subseteq DevNums /\ hwStatus \subseteq DevNums /\ slaveStatus \subseteq DevNums
    /\ status \subseteq DevNums /\ handled \subseteq DevNums
    /\ raced \subseteq {"merged", "sampled", "overlap"}

Overlapped == "overlap" \in raced

\* A suspend or resume is under way exactly while it has a step left, and one that
\* goes through clock stop does so because the flag is clear.
PmInStep ==
    /\ rpm = "suspending" <=> pm \in {"stop", "sample", "failed", "off"}
    /\ rpm = "resuming" <=> pm \in {"reset", "exit", "status", "enum"}
    /\ pm \in {"stop", "sample", "failed", "exit"} => ~noStop
    /\ rpm = "absent" => irq = "idle"

\* A bus that is to leave clock stop was stopped with a slave on it, and no ping has
\* changed that.
LinkInStep ==
    /\ rpm # "absent" => link \/ Overlapped
    /\ pm = "sample" => ~running
    /\ rpm = "suspended" => ~running
    /\ ((pm = "off" \/ rpm = "suspended") /\ ~noStop) \/ pm = "exit"
           => (hwStatus # {} /\ ~running) \/ Overlapped

\* The two caches differ only between reset and enumeration.
CachesAgree == pm # "status" => status = slaveStatus

\* The hardware agrees with the cache, or an interrupt the handler has not read is up.
CacheInStep ==
    rpm # "absent" =>
        slaveStatus = hwStatus \/ (irq \in {"idle", "compare"} /\ intr)

\* The bus core has been told what is cached, or the handler is about to, unless the
\* bus is to be enumerated again.
CoreInStep ==
    rpm = "absent" \/ pm \in {"reset", "status", "enum"} \/ irq \in {"enumerate", "found", "handle"}
    \/ (noStop /\ rpm \in {"suspending", "suspended"}) \/ handled = slaveStatus

SwrInv ==
    /\ SwrTypeOK /\ PmInStep /\ HclkBalanced /\ LinkInStep /\ CachesAgree
    /\ raced \cap {"sampled", "merged"} = {} => CacheInStep /\ CoreInStep

\* The master as a whole: status told, link working and clock balanced, whatever
\* interrupts, suspends, resumes and failed probes overlap.
SwrSafe ==
    /\ SwrInv /\ StatusHandled /\ LinkAfterResume /\ HclkBalanced
=============================================================================
