------------------------------ MODULE GpioLine ------------------------------
(***************************************************************************)
(* One GPIO line of the TLMM in gpiolib (gpiolib-v6.18.c with the resource *)
(* callbacks of pinctrl-msm-v6.18.c): consumers request it, drive it and   *)
(* free it, another driver uses it as an interrupt without requesting it,  *)
(* and the chip is removed.                                                *)
(*                                                                         *)
(* The descriptor's flags have no lock.  Most changes are atomic bit       *)
(* operations, but gpiod_get_direction() and gpiod_free_commit() read the  *)
(* whole word and write it back later.  `lost` records that a write back   *)
(* has undone somebody else's change; it is not state of the code.         *)
(***************************************************************************)
EXTENDS Naturals, FiniteSets

CONSTANT Consumers     \* the drivers that ask for the line

ASSUME LineAssumption == "irq" \notin Consumers

Threads == Consumers \cup {"irq"}
LineFlags == {"REQUESTED", "IS_OUT", "USED_AS_IRQ", "IRQ_IS_ENABLED"}

VARIABLES
    valid,      \* the line is in the chip's valid mask
    lineFlags,  \* desc->flags
    oe,         \* the output enable bit of the pin
    linePc,     \* where each thread is
    snap,       \* the flags each thread read
    chip,       \* "up", "swept" (interrupts freed), "numb" (gdev->chip is NULL) or "freed"
    lost, late  \* lost update; the interrupt was requested after the sweep

lineVars == <<valid, lineFlags, oe, linePc, snap, chip, lost, late>>

\* Steps that run inside a gpio_chip_guard: all of a request, but only
\* gpiod_get_direction of the interrupt's.
Guarded(t) ==
    linePc[t] \in IF t = "irq" THEN {"write_back"}
                  ELSE {"request", "direction", "write_back", "label", "drive", "flag", "free"}

\* The interrupt's resources are held by its driver.
IrqHeld == linePc["irq"] \in {"on", "off"}

LineInit ==
    /\ valid \in BOOLEAN /\ oe \in BOOLEAN
    /\ lineFlags = {} /\ linePc = [t \in Threads |-> "idle"]
    /\ snap = [t \in Threads |-> {}]
    /\ chip = "up" /\ lost = FALSE /\ late = FALSE

Go(t, to) == linePc' = [linePc EXCEPT ![t] = to]
Read(t) == snap' = [snap EXCEPT ![t] = lineFlags]

\* WRITE_ONCE(desc->flags, f) of what was made of the flags a thread read.
WriteBack(t, f) ==
    /\ lineFlags' = f
    /\ lost' = (lost \/ snap[t] # lineFlags)
    /\ snap' = [snap EXCEPT ![t] = {}]

ChipThere == chip \in {"up", "swept"}

-----------------------------------------------------------------------------
\* Mutant: the flag is set without having been tested.
RequestUntested(c) ==
    /\ linePc[c] = "idle" /\ ChipThere
    /\ lineFlags' = lineFlags \cup {"REQUESTED"}
    /\ IF valid THEN Go(c, "request") ELSE UNCHANGED linePc
    /\ UNCHANGED <<valid, oe, snap, chip, lost, late>>

\* gpiod_request_commit: the flag is taken first.  An invalid line is refused
\* with the flag left set.
Request(c) ==
    /\ linePc[c] = "idle" /\ ChipThere /\ "REQUESTED" \notin lineFlags
    /\ lineFlags' = lineFlags \cup {"REQUESTED"}
    /\ IF valid THEN Go(c, "request") ELSE UNCHANGED linePc
    /\ UNCHANGED <<valid, oe, snap, chip, lost, late>>

\* The chip's request callback.
ChipRequest(c) ==
    /\ linePc[c] = "request"
    /\ Go(c, "direction")
    /\ UNCHANGED <<valid, lineFlags, oe, snap, chip, lost, late>>

\* Mutant: a request that fails keeps the flag.
RequestRefusedKeeping(c) ==
    /\ linePc[c] \in {"request", "label"}
    /\ Go(c, "idle")
    /\ UNCHANGED <<valid, lineFlags, oe, snap, chip, lost, late>>

\* The callback or the label fails.
RequestRefused(c) ==
    /\ linePc[c] \in {"request", "label"}
    /\ lineFlags' = lineFlags \ {"REQUESTED"}
    /\ Go(c, "idle")
    /\ UNCHANGED <<valid, oe, snap, chip, lost, late>>

\* gpiod_get_direction reads the flags, then the pin ...
GetDirection(t) ==
    /\ linePc[t] = "direction" /\ (ChipThere \/ Guarded(t))
    /\ Read(t) /\ Go(t, "write_back")
    /\ UNCHANGED <<valid, lineFlags, oe, chip, lost, late>>

\* ... and writes the flags with the direction it found.
WriteDirection(t) ==
    /\ linePc[t] = "write_back"
    /\ WriteBack(t, IF oe THEN snap[t] \cup {"IS_OUT"} ELSE snap[t] \ {"IS_OUT"})
    /\ Go(t, "label")
    /\ UNCHANGED <<valid, oe, chip, late>>

\* desc_set_label succeeds and the consumer has the line.
Requested(c) ==
    /\ linePc[c] = "label" /\ c \in Consumers
    /\ Go(c, "owner")
    /\ UNCHANGED <<valid, lineFlags, oe, snap, chip, lost, late>>

\* gpiod_direction_output_nonotify looks at the flags once.
DirectionOutput(c) ==
    /\ linePc[c] = "owner" /\ ChipThere
    /\ ~({"USED_AS_IRQ", "IRQ_IS_ENABLED"} \subseteq lineFlags)
    /\ Go(c, "drive")
    /\ UNCHANGED <<valid, lineFlags, oe, snap, chip, lost, late>>

\* gpiod_direction_output_raw_commit: the pin ...
Drive(c) ==
    /\ linePc[c] = "drive"
    /\ oe' = TRUE /\ Go(c, "flag")
    /\ UNCHANGED <<valid, lineFlags, snap, chip, lost, late>>

\* ... then the flag.
FlagOutput(c) ==
    /\ linePc[c] = "flag"
    /\ lineFlags' = lineFlags \cup {"IS_OUT"} /\ Go(c, "owner")
    /\ UNCHANGED <<valid, oe, snap, chip, lost, late>>

\* gpiod_direction_input_nonotify.
DirectionInput(c) ==
    /\ linePc[c] = "owner" /\ ChipThere
    /\ oe' = FALSE /\ lineFlags' = lineFlags \ {"IS_OUT"}
    /\ UNCHANGED <<valid, linePc, snap, chip, lost, late>>

\* gpiod_free_commit reads the flags; without a chip nothing is cleared.
Free(c) ==
    /\ linePc[c] = "owner"
    /\ IF ChipThere THEN Read(c) /\ Go(c, "free") ELSE Go(c, "idle") /\ UNCHANGED snap
    /\ UNCHANGED <<valid, lineFlags, oe, chip, lost, late>>

\* Mutant: a freed line is left with no flag at all.
FreeWriteAll(c) ==
    /\ linePc[c] = "free"
    /\ WriteBack(c, {})
    /\ Go(c, "idle")
    /\ UNCHANGED <<valid, oe, chip, late>>

\* The consumer's flags go; those of the interrupt stay as they were read.
FreeWrite(c) ==
    /\ linePc[c] = "free"
    /\ WriteBack(c, snap[c] \ {"REQUESTED"})
    /\ Go(c, "idle")
    /\ UNCHANGED <<valid, oe, chip, late>>

-----------------------------------------------------------------------------
\* msm_gpio_irq_reqres makes the pin an input, whoever drives it, and calls
\* gpiochip_lock_as_irq, which begins with gpiod_get_direction.
IrqRequest ==
    /\ linePc["irq"] = "idle" /\ ChipThere /\ valid
    /\ oe' = FALSE /\ Go("irq", "direction")
    /\ late' = (late \/ chip = "swept")
    /\ UNCHANGED <<valid, lineFlags, snap, chip, lost>>

\* The chip went away first.
LockFails ==
    /\ linePc["irq"] = "direction" /\ ~ChipThere
    /\ Go("irq", "idle")
    /\ UNCHANGED <<valid, lineFlags, oe, snap, chip, lost, late>>

\* The end of gpiochip_lock_as_irq: an output is refused.
LockAsIrq ==
    /\ linePc["irq"] = "label"
    /\ IF "IS_OUT" \in lineFlags THEN Go("irq", "idle") /\ UNCHANGED lineFlags
       ELSE /\ lineFlags' = lineFlags \cup {"USED_AS_IRQ", "IRQ_IS_ENABLED"}
            /\ Go("irq", "on")
    /\ UNCHANGED <<valid, oe, snap, chip, lost, late>>

\* gpiochip_disable_irq and gpiochip_enable_irq.
IrqDisable ==
    /\ linePc["irq"] = "on"
    /\ lineFlags' = IF "USED_AS_IRQ" \in lineFlags THEN lineFlags \ {"IRQ_IS_ENABLED"} ELSE lineFlags
    /\ Go("irq", "off")
    /\ UNCHANGED <<valid, oe, snap, chip, lost, late>>

IrqEnable ==
    /\ linePc["irq"] = "off"
    /\ lineFlags' = IF "USED_AS_IRQ" \in lineFlags THEN lineFlags \cup {"IRQ_IS_ENABLED"} ELSE lineFlags
    /\ Go("irq", "on")
    /\ UNCHANGED <<valid, oe, snap, chip, lost, late>>

\* msm_gpio_irq_relres.
IrqFree ==
    /\ IrqHeld /\ chip # "freed"
    /\ lineFlags' = lineFlags \ {"USED_AS_IRQ", "IRQ_IS_ENABLED"}
    /\ Go("irq", "idle")
    /\ UNCHANGED <<valid, oe, snap, chip, lost, late>>

-----------------------------------------------------------------------------
\* Mutant: only interrupts that are enabled are freed.
FreeEnabledIrqs ==
    /\ chip = "up"
    /\ IF "IRQ_IS_ENABLED" \in lineFlags /\ IrqHeld
       THEN /\ lineFlags' = lineFlags \ {"USED_AS_IRQ", "IRQ_IS_ENABLED"}
            /\ Go("irq", "idle")
       ELSE UNCHANGED <<lineFlags, linePc>>
    /\ chip' = "swept"
    /\ late' = (late \/ linePc["irq"] \notin {"idle", "on", "off"})
    /\ UNCHANGED <<valid, oe, snap, lost>>

\* gpiochip_remove: interrupts of lines that are flagged are freed first.
FreeRemainingIrqs ==
    /\ chip = "up"
    /\ IF "USED_AS_IRQ" \in lineFlags /\ IrqHeld
       THEN /\ lineFlags' = lineFlags \ {"USED_AS_IRQ", "IRQ_IS_ENABLED"}
            /\ Go("irq", "idle")
       ELSE UNCHANGED <<lineFlags, linePc>>
    /\ chip' = "swept"
    /\ late' = (late \/ linePc["irq"] \notin {"idle", "on", "off"})
    /\ UNCHANGED <<valid, oe, snap, lost>>

\* rcu_assign_pointer(gdev->chip, NULL).
Numb ==
    /\ chip = "swept" /\ chip' = "numb"
    /\ UNCHANGED <<valid, lineFlags, oe, linePc, snap, lost, late>>

\* Mutant: the removal does not wait for the readers.
SynchronizeNot ==
    /\ chip = "numb" /\ chip' = "freed"
    /\ UNCHANGED <<valid, lineFlags, oe, linePc, snap, lost, late>>

\* synchronize_srcu and what follows it; the chip's driver frees the chip.
Synchronize ==
    /\ chip = "numb" /\ \A t \in Threads : ~Guarded(t)
    /\ chip' = "freed"
    /\ UNCHANGED <<valid, lineFlags, oe, linePc, snap, lost, late>>

LineNext ==
    \/ \E c \in Consumers :
         \/ Request(c) \/ ChipRequest(c) \/ RequestRefused(c) \/ Requested(c)
         \/ DirectionOutput(c) \/ Drive(c) \/ FlagOutput(c) \/ DirectionInput(c)
         \/ Free(c) \/ FreeWrite(c)
    \/ \E t \in Threads : GetDirection(t) \/ WriteDirection(t)
    \/ IrqRequest \/ LockFails \/ LockAsIrq \/ IrqDisable \/ IrqEnable \/ IrqFree
    \/ FreeRemainingIrqs \/ Numb \/ Synchronize

LineSpec == LineInit /\ [][LineNext]_lineVars

-----------------------------------------------------------------------------
\* No thread that found a chip still works on it when it is freed.
GuardHolds == chip = "freed" => \A t \in Threads : ~Guarded(t)

\* A line has one owner at a time, unless a write back lost the flag that says so.
OneOwner ==
    \A c, d \in Consumers :
        linePc[c] # "idle" /\ linePc[d] # "idle" /\ c # d => lost

\* An interrupt in use is flagged on its line, so that removing the chip finds
\* it, unless a write back lost the flag.
IrqFlagged == IrqHeld => "USED_AS_IRQ" \in lineFlags \/ lost

\* Removing the chip leaves no interrupt behind, unless it was requested during
\* the removal or its flag was lost.
IrqGoneWithChip == chip = "freed" /\ IrqHeld => late \/ lost

\* A line that nobody has can be requested again, unless it is invalid, where the
\* first attempt leaves the flag set, or a write back brought the flag back.
FreeLineFree ==
    chip = "up" /\ (\A c \in Consumers : linePc[c] = "idle") /\ "REQUESTED" \in lineFlags
        => ~valid \/ lost

\* The inductive invariant.  As long as no write back has undone a change, the
\* flags say who has the line and whether the interrupt is in use; and what is
\* left of the interrupt on a removed chip came late.
LineTypeOK ==
    /\ lineFlags \subseteq LineFlags /\ snap \in [Threads -> SUBSET LineFlags]
    /\ linePc \in [Threads -> {"idle", "request", "direction", "write_back", "label", "owner", "drive",
                              "flag", "free", "on", "off"}]
    /\ linePc["irq"] \in {"idle", "direction", "write_back", "label", "on", "off"}
    /\ \A c \in Consumers : linePc[c] \notin {"on", "off"}
    /\ chip \in {"up", "swept", "numb", "freed"}
    /\ {valid, oe, lost, late} \subseteq BOOLEAN

FlagsTell ==
    /\ \A c \in Consumers : linePc[c] # "idle" => "REQUESTED" \in lineFlags
    /\ IrqHeld => "USED_AS_IRQ" \in lineFlags

LineInv ==
    /\ LineTypeOK /\ GuardHolds /\ OneOwner /\ FreeLineFree
    /\ lost \/ FlagsTell
    /\ chip # "up" /\ linePc["irq"] # "idle" => late \/ lost

\* The line as a whole: one owner, a flagged interrupt, nothing left on a removed chip.
LineSafe ==
    /\ LineInv /\ IrqGoneWithChip /\ IrqFlagged
=============================================================================
