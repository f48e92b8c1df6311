------------------------------ MODULE Aw96103 ------------------------------
(***************************************************************************)
(* The driver of the AW96103 proximity sensor (aw96103.c).  Its probe asks  *)
(* for the configuration file and goes on to set up the interrupt, while    *)
(* the callback with the file writes the same registers from a worker.      *)
(* Users switch channels on and off, the chip reports changes, and the      *)
(* interrupt thread turns them into events.                                 *)
(***************************************************************************)
EXTENDS Naturals, FiniteSets

CONSTANTS
    Channels,      \* proximity channels, numbered
    FileChannels,  \* those the configuration file enables
    OddChannels    \* those whose thresholds a user may put out of order (a bound)

ASSUME AwAssumption ==
    Channels \subseteq Nat /\ FileChannels \subseteq Channels /\ OddChannels \subseteq Channels

VARIABLES
    awProbe,    \* the next step of probe and interrupt_init, or "done", "failed"
    awCfg,      \* the next step of the firmware callback, or "none", "over", "noFile", "noCfg"
    hostirqen,  \* the driver's copy of the interrupt enable register
    irqen,      \* the register
    copyRead,   \* the copy probe has read and not yet written
    chanEn,     \* channels of the configuration
    chUsed,     \* channels_arr[i].used
    chScan,     \* channels enabled in AW96103_REG_SCANCTRL0
    chChange,   \* the user's channel, and its bit, whose register is still to be written
    awStatus,   \* what the chip sees: "far", "near", or "odd" with thresholds out of order
    irqsrc,     \* AW96103_REG_IRQSRC, cleared when read
    awThread,   \* the interrupt thread: "idle", "stat" or "report"
    statRead,   \* the status it has read
    oldStatus,  \* channels_arr[i].old_irq_status: what the last event told
    awFresh,    \* ghost: channels whose last change raised an enabled interrupt
    disturbed   \* ghost: "irqen", "used" when probe or a user met the callback, or a write failed

cfgVars == <<hostirqen, chanEn>>
userVars == <<chUsed, chScan, chChange>>
chipVars == <<awStatus, irqsrc>>
threadVars == <<awThread, statRead, oldStatus>>

awVars == <<awProbe, awCfg, cfgVars, irqen, copyRead, userVars, chipVars, threadVars, awFresh,
            disturbed>>

AwInit ==
    /\ awProbe = "chip" /\ awCfg = "none" /\ hostirqen = FALSE /\ irqen = FALSE /\ copyRead = FALSE
    /\ chanEn = {} /\ chUsed = {} /\ chScan = {} /\ chChange = {}
    /\ awStatus = [c \in Channels |-> "far"] /\ irqsrc = FALSE
    /\ awThread = "idle" /\ statRead = awStatus /\ oldStatus = awStatus
    /\ awFresh = {} /\ disturbed = {}

\* The callback has been asked for and is not over.
Configuring == awCfg \in {"load", "startFile", "default", "startDefault", "use"}

\* aw96103_i2c_probe() up to the request: the chip is read, reset and waited for ...
ProbeChip ==
    /\ awProbe = "chip"
    /\ \/ awProbe' = "failed" /\ UNCHANGED awCfg
       \/ awProbe' = "off" /\ awCfg' = "load"
    /\ UNCHANGED <<cfgVars, irqen, copyRead, userVars, chipVars, threadVars, awFresh, disturbed>>

\* ... aw96103_interrupt_init(), step by step; a failed access fails the probe ...
IrqOff ==
    /\ awProbe = "off"
    /\ \/ awProbe' = "clear" /\ irqen' = FALSE
       \/ awProbe' = "failed" /\ UNCHANGED irqen
    /\ UNCHANGED <<awCfg, cfgVars, copyRead, userVars, chipVars, threadVars, awFresh, disturbed>>

AwIrqClear ==
    /\ awProbe = "clear"
    /\ \/ awProbe' = "request" /\ irqsrc' = FALSE
       \/ awProbe' = "failed" /\ UNCHANGED irqsrc
    /\ UNCHANGED <<awCfg, cfgVars, irqen, copyRead, userVars, awStatus, threadVars, awFresh, disturbed>>

Listening == awProbe \in {"copy", "write", "register", "done"}

AwIrqRequest ==
    /\ awProbe = "request" /\ awProbe' \in {"copy", "failed"}
    /\ UNCHANGED <<awCfg, cfgVars, irqen, copyRead, userVars, chipVars, threadVars, awFresh, disturbed>>

IrqCopy ==
    /\ awProbe = "copy" /\ awProbe' = "write" /\ copyRead' = hostirqen
    /\ UNCHANGED <<awCfg, cfgVars, irqen, userVars, chipVars, threadVars, awFresh, disturbed>>

\* Mutant: interrupt_init leaves the enable register to the callback.
IrqWriteOff ==
    /\ awProbe = "write" /\ awProbe' = "register"
    /\ copyRead' = FALSE
    /\ UNCHANGED <<awCfg, cfgVars, irqen, userVars, chipVars, threadVars, awFresh, disturbed>>

IrqWrite ==
    /\ awProbe = "write" /\ copyRead' = FALSE
    /\ \/ awProbe' = "register" /\ irqen' = copyRead
       \/ awProbe' = "failed" /\ UNCHANGED irqen
    /\ disturbed' = IF copyRead # hostirqen THEN disturbed \cup {"irqen"} ELSE disturbed
    /\ UNCHANGED <<awCfg, cfgVars, userVars, chipVars, threadVars, awFresh>>

\* ... and the IIO device. A failed probe frees the interrupt.
AwRegister ==
    /\ awProbe = "register" /\ awProbe' \in {"done", "failed"}
    /\ UNCHANGED <<awCfg, cfgVars, irqen, copyRead, userVars, chipVars, threadVars, awFresh, disturbed>>

\* aw96103_cfg_update() without a file: the defaults are not loaded either.
NoFile ==
    /\ awCfg = "load" /\ awProbe # "failed" /\ awCfg' = "noFile"
    /\ UNCHANGED <<awProbe, cfgVars, irqen, copyRead, userVars, chipVars, threadVars, awFresh, disturbed>>

\* aw96103_cfg_all_loaded(): a write that fails leaves part of the file in place.
LoadFile ==
    /\ awCfg = "load" /\ awProbe # "failed"
    /\ \/ awCfg' = "startFile" /\ hostirqen' = TRUE /\ chanEn' = FileChannels /\ chScan' = FileChannels
       \/ awCfg' = "default" /\ hostirqen' \in {hostirqen, TRUE}
          /\ chanEn' \in {chanEn, FileChannels} /\ chScan' \in {chScan, chanEn'}
    /\ disturbed' = IF chChange # {} THEN disturbed \cup {"used"} ELSE disturbed
    /\ UNCHANGED <<awProbe, irqen, copyRead, chUsed, chChange, chipVars, threadVars, awFresh>>

\* aw96103_para_loaded(): the defaults, the enable register among them.
LoadDefaults ==
    /\ awCfg = "default" /\ awProbe # "failed"
    /\ \/ awCfg' = "startDefault" /\ hostirqen' = TRUE /\ irqen' = TRUE
          /\ chanEn' = Channels /\ chScan' = Channels
       \/ awCfg' = "noCfg" /\ UNCHANGED <<cfgVars, irqen, chScan>>
    /\ disturbed' = IF chChange # {} THEN disturbed \cup {"used"} ELSE disturbed
    /\ UNCHANGED <<awProbe, copyRead, chUsed, chChange, chipVars, threadVars, awFresh>>

\* aw96103_channel_scan_start(): a failure after the file leads to the defaults, one
\* after the defaults ends the callback.
ScanStart ==
    /\ awCfg \in {"startFile", "startDefault"} /\ awProbe # "failed"
    /\ \/ awCfg' = "use" /\ irqen' = hostirqen
       \/ awCfg' = (IF awCfg = "startFile" THEN "default" ELSE "noCfg") /\ UNCHANGED irqen
    /\ UNCHANGED <<awProbe, cfgVars, copyRead, userVars, chipVars, threadVars, awFresh, disturbed>>

\* The channels of the configuration, whatever a user has chosen meanwhile.
UseChannels ==
    /\ awCfg = "use" /\ awProbe # "failed" /\ awCfg' = "over"
    /\ chUsed' = chanEn
    /\ awFresh' = awFresh \cap chanEn
    /\ UNCHANGED <<awProbe, cfgVars, irqen, copyRead, chScan, chChange, chipVars, threadVars, disturbed>>

\* Mutant: only the register is written.
WriteEventConfigScanOnly(c, on) ==
    /\ awProbe = "done" /\ chChange = {}
    /\ chChange' = {<<c, on>>}
    /\ disturbed' = IF Configuring THEN disturbed \cup {"used"} ELSE disturbed
    /\ UNCHANGED <<awProbe, awCfg, cfgVars, irqen, copyRead, chUsed, chScan, chipVars, threadVars, awFresh>>

\* aw96103_write_event_config(): the flag ...
WriteEventConfig(c, on) ==
    /\ awProbe = "done" /\ chChange = {}
    /\ chUsed' = IF on THEN chUsed \cup {c} ELSE chUsed \ {c}
    /\ awFresh' = awFresh \ {c}
    /\ chChange' = {<<c, on>>}
    /\ disturbed' = IF Configuring THEN disturbed \cup {"used"} ELSE disturbed
    /\ UNCHANGED <<awProbe, awCfg, cfgVars, irqen, copyRead, chScan, chipVars, threadVars>>

\* ... and then the register.
WriteScan(c, on) ==
    /\ <<c, on>> \in chChange /\ chChange' = {}
    /\ \/ chScan' = (IF on THEN chScan \cup {c} ELSE chScan \ {c}) /\ UNCHANGED disturbed
       \/ disturbed' = disturbed \cup {"used"} /\ UNCHANGED chScan   \* the write fails
    /\ UNCHANGED <<awProbe, awCfg, cfgVars, irqen, copyRead, chUsed, chipVars, threadVars, awFresh>>

\* The chip (external) sees something come or go on a channel it scans, by the thresholds
\* aw96103_write_event_val() has written.
Sense(c) ==
    /\ c \in chScan /\ awProbe # "failed"
    /\ \E s \in {"far", "near", "odd"} \ {awStatus[c]} :
         (s = "odd" => c \in OddChannels) /\ awStatus' = [awStatus EXCEPT ![c] = s]
    /\ irqsrc' = TRUE
    /\ awFresh' = IF c \in chUsed /\ irqen /\ Listening THEN awFresh \cup {c} ELSE awFresh \ {c}
    /\ UNCHANGED <<awProbe, awCfg, cfgVars, irqen, copyRead, userVars, threadVars, disturbed>>

\* aw96103_irq(): the source is read, which clears it, and then the status.
IrqReadSource ==
    /\ awThread = "idle" /\ Listening /\ irqen /\ irqsrc
    /\ irqsrc' = FALSE /\ awThread' = "stat"
    /\ UNCHANGED <<awProbe, awCfg, cfgVars, irqen, copyRead, userVars, awStatus, statRead,
                   oldStatus, awFresh, disturbed>>

\* A failed read of the status ends the handler: the changes behind the source are lost.
IrqReadStatus ==
    /\ awThread = "stat"
    /\ \/ awThread' = "report" /\ statRead' = awStatus /\ UNCHANGED awFresh
       \/ awThread' = "idle" /\ awFresh' = {} /\ UNCHANGED statRead
    /\ UNCHANGED <<awProbe, awCfg, cfgVars, irqen, copyRead, userVars, chipVars, oldStatus, disturbed>>

\* The loop over the channels gets to c: a changed status that is neither far nor one of
\* the nested thresholds ends it.
Reached(c) == \A d \in chUsed : d <= c /\ statRead[d] = "odd" => oldStatus[d] = "odd"

\* The used channels with a new status: each has its event, and is remembered.
Report == { c \in chUsed : Reached(c) /\ statRead[c] # oldStatus[c] }

\* Mutant: the source is cleared after the status has been read and reported.
IrqReportClears ==
    /\ awThread = "report" /\ awThread' = "idle" /\ irqsrc' = FALSE
    /\ oldStatus' = [c \in Channels |-> IF c \in Report THEN statRead[c] ELSE oldStatus[c]]
    /\ statRead' = [c \in Channels |-> "far"]
    /\ UNCHANGED <<awProbe, awCfg, cfgVars, irqen, copyRead, userVars, awStatus, awFresh, disturbed>>

IrqReport ==
    /\ awThread = "report" /\ awThread' = "idle"
    /\ oldStatus' = [c \in Channels |-> IF c \in Report THEN statRead[c] ELSE oldStatus[c]]
    /\ statRead' = [c \in Channels |-> "far"]
    /\ UNCHANGED <<awProbe, awCfg, cfgVars, irqen, copyRead, userVars, chipVars, awFresh, disturbed>>

AwNext ==
    \/ ProbeChip \/ IrqOff \/ AwIrqClear \/ AwIrqRequest \/ IrqCopy \/ IrqWrite \/ AwRegister
    \/ NoFile \/ LoadFile \/ LoadDefaults \/ ScanStart \/ UseChannels
    \/ \E c \in Channels, on \in BOOLEAN : WriteEventConfig(c, on) \/ WriteScan(c, on)
    \/ \E c \in Channels : Sense(c)
    \/ IrqReadSource \/ IrqReadStatus \/ IrqReport

AwSpec == AwInit /\ [][AwNext]_awVars

AwTypeOK ==
    /\ chUsed \subseteq Channels /\ chScan \subseteq Channels /\ awFresh \subseteq Channels
    /\ disturbed \subseteq {"irqen", "used"} /\ awThread \in {"idle", "stat", "report"}

\* A configured sensor interrupts: the enable register holds the configured value,
\* unless probe wrote back a copy that the callback had outdated.
InterruptEnabled ==
    awProbe = "done" /\ awCfg = "over" /\ "irqen" \notin disturbed => irqen /\ hostirqen

\* The driver reports exactly the channels the chip scans, unless a user switched one
\* while the configuration was being loaded, or the write of the register failed.
UsedIsScanned == awCfg = "over" /\ chChange = {} /\ "used" \notin disturbed => chUsed = chScan

\* Once the interrupt thread has nothing left to do, the last event of a channel is what
\* the chip sees, if its last change could interrupt, no read has failed since and no
\* channel before it is caught between thresholds.
ChangesReported ==
    awThread = "idle" /\ ~irqsrc =>
      \A c \in awFresh : (\A d \in 0..c : d \in Channels => awStatus[d] # "odd")
                        => oldStatus[c] = awStatus[c]

AwSafe == AwTypeOK /\ InterruptEnabled /\ UsedIsScanned /\ ChangesReported
=============================================================================
