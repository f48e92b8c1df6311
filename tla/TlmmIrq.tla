------------------------------- MODULE TlmmIrq ------------------------------
(***************************************************************************)
(* One interrupt of the pin controller (pinctrl-msm-v6.18.c).  `kind` says *)
(* which of three ways it is handled:                                      *)
(*   "parent"  both edges through the PDC, which detects one edge at a     *)
(*             time (wakeirq_dual_edge_errata, the SC7180's case);         *)
(*   "pos"     both edges on TLMM hardware that detects one polarity       *)
(*             (intr_detection_width 1);                                   *)
(*   "level"   a level interrupt of the TLMM, active high.                 *)
(* The line moves at any time.  The interrupt core's flow handlers and the *)
(* PDC are external: handle_fasteoi_ack_irq and handle_edge_irq call ack   *)
(* and then the driver, handle_level_irq masks and acks, calls the driver  *)
(* and unmasks; the PDC drops what is pending when its type changes.       *)
(***************************************************************************)
EXTENDS Naturals

CONSTANT LoopLimit      \* bound: loop_limit, 100 in the code

ASSUME TlmmAssumption == LoopLimit \in Nat

VARIABLES
    kind,
    level,      \* the line
    pol,        \* the edge (TRUE: rising) or the level that is detected
    latch,      \* the latched status: of the PDC or GIC, or of the TLMM
    raw,        \* RAW_STATUS_EN, which lets a level be latched
    irqPc,      \* where set_type, ack or the flow handler is
    back,       \* where the dual edge loop returns to
    val, tries, \* its variables
    seen,       \* the level the driver's handler read last
    blind,      \* the TLMM loop flipped away from the level it read
    gaveUp,     \* the loop ended at its limit
    mux,        \* the pin has its GPIO function
    muxed,      \* the pin was muxed away since the loop ran last
    fresh       \* a level interrupt's line was active since the last unmask

tlmmVars == <<kind, level, pol, latch, raw, irqPc, back, val, tries, seen, blind,
              gaveUp, mux, muxed, fresh>>

TlmmInit ==
    /\ kind \in {"parent", "pos", "level"}
    /\ level \in BOOLEAN /\ pol = TRUE /\ latch = FALSE /\ raw = FALSE
    /\ irqPc = "free" /\ back = "free" /\ val = FALSE /\ tries = 0 /\ seen = FALSE
    /\ blind = FALSE /\ gaveUp = FALSE /\ mux = TRUE /\ muxed = FALSE /\ fresh = FALSE

\* The line changes; hardware latches the edge, or the level while it may.
LineMoves ==
    /\ level' = ~level
    /\ latch' = (latch \/ (level' = pol /\ (kind = "level" => raw)))
    /\ fresh' = (fresh \/ level')
    /\ UNCHANGED <<kind, pol, raw, irqPc, back, val, tries, seen, blind, gaveUp, mux, muxed>>

\* msm_gpio_irq_set_type, with the interrupt masked.  A TLMM interrupt gets its
\* polarity, and what was latched before is cleared.
SetType ==
    /\ irqPc = "free"
    /\ CASE kind = "parent" -> irqPc' = "read" /\ UNCHANGED <<pol, latch>>
         [] kind = "pos" -> irqPc' = "value" /\ pol' = TRUE /\ latch' = FALSE
         [] kind = "level" -> irqPc' = "unmask" /\ pol' = TRUE /\ latch' = FALSE
    /\ back' = "start" /\ tries' = LoopLimit
    /\ blind' = FALSE /\ gaveUp' = FALSE /\ muxed' = FALSE
    /\ UNCHANGED <<kind, level, raw, val, seen, mux, fresh>>

-----------------------------------------------------------------------------
(* msm_gpio_update_dual_edge_parent.                                       *)

\* A guess from the value: wait for the edge away from it.
ParentRead ==
    /\ irqPc = "read"
    /\ val' = level /\ irqPc' = "set"
    /\ UNCHANGED <<kind, level, pol, latch, raw, back, tries, seen, blind, gaveUp, mux, muxed, fresh>>

\* irq_chip_set_type_parent.
ParentSet ==
    /\ irqPc = "set"
    /\ pol' = ~val /\ latch' = (latch /\ pol' = pol)
    /\ irqPc' = "check"
    /\ UNCHANGED <<kind, level, raw, back, val, tries, seen, blind, gaveUp, mux, muxed, fresh>>

\* Mutant: the type is not looked at again.
ParentCheckOnce ==
    /\ irqPc = "check"
    /\ irqPc' = back /\ val' = level
    /\ UNCHANGED <<kind, level, pol, latch, raw, back, tries, seen, blind, gaveUp, mux, muxed, fresh>>

\* The value again: done if the edge still is the one away from it.
ParentCheck ==
    /\ irqPc = "check"
    /\ val' = level
    /\ IF level # pol THEN irqPc' = back /\ UNCHANGED <<tries, gaveUp>>
       ELSE IF tries > 0 THEN irqPc' = "set" /\ tries' = tries - 1 /\ UNCHANGED gaveUp
       ELSE irqPc' = back /\ gaveUp' = TRUE /\ UNCHANGED tries
    /\ UNCHANGED <<kind, level, pol, latch, raw, back, seen, blind, mux, muxed, fresh>>

-----------------------------------------------------------------------------
(* msm_gpio_update_dual_edge_pos.                                          *)

\* The polarity is going to be flipped whatever the value is.
PosValue ==
    /\ irqPc = "value"
    /\ val' = level /\ irqPc' = "flip"
    /\ blind' = (level # pol)
    /\ UNCHANGED <<kind, level, pol, latch, raw, back, tries, seen, gaveUp, mux, muxed, fresh>>

PosFlip ==
    /\ irqPc = "flip"
    /\ pol' = ~pol /\ irqPc' = "compare"
    /\ UNCHANGED <<kind, level, latch, raw, back, val, tries, seen, blind, gaveUp, mux, muxed, fresh>>

\* Mutant: one flip is trusted.
PosCompareNot ==
    /\ irqPc = "compare"
    /\ irqPc' = back
    /\ UNCHANGED <<kind, level, pol, latch, raw, back, val, tries, seen, blind, gaveUp, mux, muxed, fresh>>

\* Done if an edge was caught or the value did not change.
PosCompare ==
    /\ irqPc = "compare"
    /\ IF latch \/ val = level THEN irqPc' = back /\ UNCHANGED <<tries, gaveUp>>
       ELSE IF tries > 0 THEN irqPc' = "value" /\ tries' = tries - 1 /\ UNCHANGED gaveUp
       ELSE irqPc' = back /\ gaveUp' = TRUE /\ UNCHANGED tries
    /\ UNCHANGED <<kind, level, pol, latch, raw, back, val, seen, blind, mux, muxed, fresh>>

-----------------------------------------------------------------------------
\* The driver has its interrupt and reads the line, which may already have moved.
Start ==
    /\ irqPc = "start"
    /\ seen' = level /\ irqPc' = "wait"
    /\ UNCHANGED <<kind, level, pol, latch, raw, back, val, tries, blind, gaveUp, mux, muxed, fresh>>

\* The interrupt is taken.  The status is cleared by the GIC, or by
\* msm_gpio_irq_ack, and ack primes the next edge.
FireEdge ==
    /\ irqPc = "wait" /\ latch /\ mux /\ kind # "level"
    /\ latch' = FALSE
    /\ irqPc' = (IF kind = "parent" THEN "read" ELSE "value")
    /\ back' = "handle" /\ tries' = LoopLimit
    /\ blind' = FALSE /\ gaveUp' = FALSE /\ muxed' = FALSE
    /\ UNCHANGED <<kind, level, pol, raw, val, seen, mux, fresh>>

\* Mutant: masking leaves RAW_STATUS_EN on.
FireLevelRaw ==
    /\ irqPc = "wait" /\ latch /\ mux /\ kind = "level"
    /\ latch' = level
    /\ irqPc' = "handle" /\ back' = "unmask"
    /\ UNCHANGED <<kind, level, pol, raw, val, tries, seen, blind, gaveUp, mux, muxed, fresh>>

\* msm_gpio_irq_mask, which turns latching off, and msm_gpio_irq_ack.
FireLevel ==
    /\ irqPc = "wait" /\ latch /\ mux /\ kind = "level"
    /\ raw' = FALSE /\ latch' = FALSE
    /\ irqPc' = "handle" /\ back' = "unmask"
    /\ UNCHANGED <<kind, level, pol, val, tries, seen, blind, gaveUp, mux, muxed, fresh>>

\* The driver's handler.
Handle ==
    /\ irqPc = "handle"
    /\ seen' = level
    /\ irqPc' = IF kind = "level" THEN "unmask" ELSE "wait"
    /\ UNCHANGED <<kind, level, pol, latch, raw, back, val, tries, blind, gaveUp, mux, muxed, fresh>>

\* msm_gpio_irq_unmask: an active level is latched at once.
Unmask ==
    /\ irqPc = "unmask"
    /\ raw' = TRUE /\ latch' = (latch \/ level) /\ fresh' = level
    /\ irqPc' = "wait"
    /\ UNCHANGED <<kind, level, pol, back, val, tries, seen, blind, gaveUp, mux, muxed>>

\* msm_pinmux_set_mux to another function: the interrupt is disabled.
MuxAway ==
    /\ irqPc = "wait" /\ mux
    /\ mux' = FALSE /\ muxed' = TRUE
    /\ raw' = (raw /\ kind # "level")
    /\ UNCHANGED <<kind, level, pol, latch, irqPc, back, val, tries, seen, blind, gaveUp, fresh>>

\* And back: what was latched meanwhile is dropped and the interrupt enabled, but
\* the next edge is not primed again.
MuxBack ==
    /\ irqPc = "wait" /\ ~mux
    /\ mux' = TRUE
    /\ IF kind = "level"
       THEN raw' = TRUE /\ latch' = level /\ fresh' = level
       ELSE latch' = FALSE /\ UNCHANGED <<raw, fresh>>
    /\ UNCHANGED <<kind, level, pol, irqPc, back, val, tries, seen, blind, gaveUp, muxed>>

TlmmNext ==
    \/ LineMoves \/ SetType \/ ParentRead \/ ParentSet \/ ParentCheck
    \/ PosValue \/ PosFlip \/ PosCompare
    \/ Start \/ FireEdge \/ FireLevel \/ Handle \/ Unmask \/ MuxAway \/ MuxBack

TlmmSpec == TlmmInit /\ [][TlmmNext]_tlmmVars

-----------------------------------------------------------------------------
Quiet == irqPc = "wait" /\ ~latch

\* With nothing pending, the driver has seen the line as it is and the PDC waits
\* for the edge away from it, unless the loop gave up or the pin was muxed away.
ParentEdgesSeen ==
    kind = "parent" /\ Quiet => (seen = level /\ pol # level) \/ gaveUp \/ muxed

\* The same for the TLMM's own edges, unless the loop flipped away from the level
\* it read: a line that moved back before the acknowledgement, or was low when the
\* type was set, is waited for in the wrong direction.
PosEdgesSeen ==
    kind = "pos" /\ Quiet => (seen = level /\ pol # level) \/ gaveUp \/ muxed \/ blind

\* A level interrupt is pending whenever its line is active, and never for a level
\* that was over before it was last unmasked.
LevelExact ==
    kind = "level" /\ irqPc = "wait" /\ mux => (level => latch) /\ (latch => fresh)

\* The inductive invariant.  Types, and the steps each kind goes through.
TlmmTypeOK ==
    /\ kind \in {"parent", "pos", "level"} /\ tries \in 0 .. LoopLimit
    /\ irqPc \in CASE kind = "parent" -> {"free", "read", "set", "check", "start", "handle", "wait"}
                  [] kind = "pos" -> {"free", "value", "flip", "compare", "start", "handle", "wait"}
                  [] OTHER -> {"free", "handle", "unmask", "wait"}
    /\ irqPc \in {"read", "set", "check", "value", "flip", "compare"} => back \in {"start", "handle"}
    /\ level \in BOOLEAN /\ pol \in BOOLEAN /\ latch \in BOOLEAN /\ raw \in BOOLEAN
    /\ val \in BOOLEAN /\ seen \in BOOLEAN /\ blind \in BOOLEAN /\ gaveUp \in BOOLEAN
    /\ mux \in BOOLEAN /\ muxed \in BOOLEAN /\ fresh \in BOOLEAN

\* What excuses an interrupt from being primed.
Excused == gaveUp \/ muxed \/ (kind = "pos" /\ blind)

\* The loop leaves the next edge primed or already caught, and from then on the
\* driver is going to read the line again or has seen it as it is.
EdgesPrimed ==
    /\ irqPc \in {"start", "handle", "wait"} /\ kind # "level" => latch \/ pol # level \/ Excused
    /\ irqPc = "wait" /\ kind # "level" => latch \/ seen = level \/ Excused
    /\ irqPc = "flip" => blind = (val # pol)
    /\ irqPc = "compare" => blind = (val = pol)

\* A level is latched only while RAW_STATUS_EN is on, between unmask and mask.
LevelLatched ==
    kind = "level" =>
        /\ pol
        /\ irqPc # "wait" => ~raw /\ ~latch
        /\ irqPc = "wait" /\ mux => raw /\ (level => latch) /\ (latch => fresh)

TlmmInv ==
    /\ TlmmTypeOK /\ EdgesPrimed /\ LevelLatched
    /\ ~mux => irqPc = "wait" /\ muxed

\* The interrupt as a whole: whichever way it is handled, no change of the line is
\* missed and none is made up.
TlmmSafe ==
    /\ TlmmInv /\ ParentEdgesSeen /\ PosEdgesSeen /\ LevelExact
=============================================================================
