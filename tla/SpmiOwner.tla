----------------------------- MODULE SpmiOwner ------------------------------
(***************************************************************************)
(* The ACPI resource adapter of the PMIC bus (qcom-spmi-acpi-pwm.c).       *)
(*                                                                         *)
(* Two ACPI devices, the arbiter ("master") and PM01 ("comp"), are brought *)
(* up together by the component framework.  The bind acquires a chain of   *)
(* resources that starts with a PDC reference and the PDC mapping pushed   *)
(* on top of the interrupt firmware allocated, and ends with a PWM; one    *)
(* release function serves every failure and the unbind.  It takes the     *)
(* mapping off only when the pin is as it was found, and otherwise leaves  *)
(* it to the interrupt core for good.                                      *)
(***************************************************************************)
EXTENDS Naturals, Sequences, FiniteSets

VARIABLES
    present,    \* the participants whose probe added them to the framework
    stage,      \* "idle", "acquire" or "release": what component_mutex covers
    who,        \* the participant whose probe or removal that is
    owned,      \* the resources the bind has acquired
    at,         \* where the release is in its order
    pushed,     \* owner_test.pushed
    irqPushed,  \* the interrupt's outer irq_data is the PDC's
    kept,       \* a teardown has left the mapping to the interrupt core
    bound,      \* the aggregate is bound
    onBus,      \* the PMIC devices that are on the SPMI bus
    byHand      \* the arbiter's driver was unbound from under the adapter

spmiVars == <<present, stage, who, owned, at, pushed, irqPushed, kept, bound,
              onBus, byHand>>

Participants == {"master", "comp"}
Pmics == {"pmic0", "pmic1"}

\* What owner_register_transport and owner_register_pmic acquire, in order.
AcquireOrder ==
    <<"pdc", "mapping", "node", "child", "ctrl", "pmic_node0", "pmic0", "pmic_node1",
      "pmic1", "lpg_node", "lpg", "pwm_consumer_node", "pwm_consumer", "pwm">>

Resources == {AcquireOrder[i] : i \in DOMAIN AcquireOrder}

\* Mutant: the LPG's software node goes before the device that reads it.
ReleaseNodeFirst ==
    <<"pwm", "pwm_consumer", "pwm_consumer_node", "lpg_node", "lpg", "pmic1",
      "pmic_node1", "pmic0", "pmic_node0", "ctrl", "child", "node", "mapping", "pdc">>

\* owner_release_pmic, then the rest of owner_release_transport.
ReleaseOrder ==
    <<"pwm", "pwm_consumer", "pwm_consumer_node", "lpg", "lpg_node", "pmic1",
      "pmic_node1", "pmic0", "pmic_node0", "ctrl", "child", "node", "mapping", "pdc">>

\* What each resource refers to while it is held: a device its parent, its
\* software node and its interrupt, a reference the thing referred to.
Needs ==
    [r \in Resources |->
        CASE r = "mapping" -> {"pdc"}
          [] r = "child" -> {"node", "mapping"}
          [] r = "ctrl" -> {"child"}
          [] r = "pmic0" -> {"pmic_node0", "ctrl"}
          [] r = "pmic1" -> {"pmic_node1", "ctrl"}
          [] r = "lpg" -> {"lpg_node", "pmic1"}
          [] r = "pwm_consumer_node" -> {"lpg_node"}
          [] r = "pwm_consumer" -> {"pwm_consumer_node", "lpg"}
          [] r = "pwm" -> {"pwm_consumer", "lpg"}
          [] OTHER -> {}]

SpmiInit ==
    /\ present = {} /\ stage = "idle" /\ who = "master" /\ owned = {} /\ at = 1
    /\ pushed = FALSE /\ irqPushed = FALSE /\ kept = FALSE /\ bound = FALSE
    /\ onBus = {} /\ byHand = FALSE

-----------------------------------------------------------------------------
\* Mutant: the component takes any interrupt for the firmware's own.
BindsAny == TRUE

\* owner_component_bind: the interrupt's outer data must still be INTID 513 of
\* an irqchip's domain.
ComponentBinds == ~irqPushed

\* A participant probes; with both there the aggregate is brought up.  A bind
\* that is refused fails the probe that asked for it.
Arrive(p) ==
    /\ stage = "idle" /\ p \notin present
    /\ pushed' = (p # "master" /\ pushed)
    /\ IF present \cup {p} = Participants
       THEN IF ComponentBinds
            THEN present' = Participants /\ stage' = "acquire" /\ who' = p
            ELSE UNCHANGED <<present, stage, who>>
       ELSE present' = present \cup {p} /\ UNCHANGED <<stage, who>>
    /\ UNCHANGED <<owned, at, irqPushed, kept, bound, onBus, byHand>>

\* The next resource of the chain.  Only an interrupt that is still the GIC's
\* own can have the PDC pushed on it, and only a bound arbiter has a controller.
SpmiAcquire(r) ==
    /\ stage = "acquire" /\ Cardinality(owned) < Len(AcquireOrder)
    /\ r = AcquireOrder[Cardinality(owned) + 1]
    /\ r = "mapping" => ~irqPushed
    /\ r \in {"ctrl"} \cup Pmics => ~byHand
    /\ owned' = owned \cup {r}
    /\ pushed' = (pushed \/ r = "mapping")
    /\ irqPushed' = (irqPushed \/ r = "mapping")
    /\ onBus' = IF r \in Pmics THEN onBus \cup {r} ELSE onBus
    /\ byHand' = (byHand /\ r # "child")
    /\ UNCHANGED <<present, stage, who, at, kept, bound>>

\* Mutant: a bind that is refused returns without releasing.
RefuseKeeps ==
    /\ stage = "acquire"
    /\ stage' = "idle" /\ present' = present \ {who}
    /\ UNCHANGED <<who, owned, at, pushed, irqPushed, kept, bound, onBus, byHand>>

\* Any step may fail, defer because a driver is not bound yet, or find the
\* interrupt, the pin, the PMIC's revision or the PWM's state not as required.
Refuse ==
    /\ stage = "acquire"
    /\ stage' = "release" /\ at' = 1
    /\ UNCHANGED <<present, who, owned, pushed, irqPushed, kept, bound, onBus, byHand>>

\* owner_master_bind returns 0.
Complete ==
    /\ stage = "acquire" /\ owned = Resources
    /\ stage' = "idle" /\ bound' = TRUE
    /\ UNCHANGED <<present, who, owned, at, pushed, irqPushed, kept, onBus, byHand>>

\* A participant's removal unbinds the aggregate first.
Depart(p) ==
    /\ stage = "idle" /\ p \in present
    /\ IF bound
       THEN stage' = "release" /\ who' = p /\ at' = 1 /\ UNCHANGED present
       ELSE present' = present \ {p} /\ UNCHANGED <<stage, who, at>>
    /\ UNCHANGED <<owned, pushed, irqPushed, kept, bound, onBus, byHand>>

\* Mutant: the loop over the PMICs removes the first device each time.
GiveUpFirst ==
    /\ stage = "release" /\ at <= Len(ReleaseOrder)
    /\ LET r == ReleaseOrder[at] IN
       /\ r # "mapping"
       /\ owned' = owned \ {r}
       /\ onBus' = IF r = "child" THEN {} ELSE IF r \in Pmics THEN onBus \ {"pmic0"} ELSE onBus
    /\ at' = at + 1
    /\ UNCHANGED <<present, stage, who, pushed, irqPushed, kept, bound, byHand>>

\* One resource of the release.  An arbiter that goes takes the devices of its
\* bus with it.
GiveUp ==
    /\ stage = "release" /\ at <= Len(ReleaseOrder)
    /\ LET r == ReleaseOrder[at] IN
       /\ r # "mapping"
       /\ owned' = owned \ {r}
       /\ onBus' = IF r = "child" THEN {} ELSE onBus \ {r}
    /\ at' = at + 1
    /\ UNCHANGED <<present, stage, who, pushed, irqPushed, kept, bound, byHand>>

\* The mapping is popped when the pin is disabled and configured as it was
\* found, and otherwise kept; either way the PDC reference is put next.
Pop ==
    /\ stage = "release" /\ at <= Len(ReleaseOrder) /\ ReleaseOrder[at] = "mapping"
    /\ at' = at + 1
    /\ owned' = owned \ {"mapping"}
    /\ IF ~pushed THEN UNCHANGED <<pushed, irqPushed, kept>>
       ELSE \/ pushed' = FALSE /\ irqPushed' = FALSE /\ UNCHANGED kept
            \/ kept' = TRUE /\ UNCHANGED <<pushed, irqPushed>>
    /\ UNCHANGED <<present, stage, who, bound, onBus, byHand>>

\* component_unbind_all, after a failed bind or an unbind: the participant
\* whose probe failed or that is being removed leaves the framework.
Released ==
    /\ stage = "release" /\ at > Len(ReleaseOrder)
    /\ stage' = "idle" /\ bound' = FALSE
    /\ present' = present \ {who}
    /\ UNCHANGED <<who, owned, at, pushed, irqPushed, kept, onBus, byHand>>

\* The arbiter's driver is unbound through sysfs; it removes its bus.
ArbiterLeaves ==
    /\ "child" \in owned /\ ~byHand
    /\ byHand' = TRUE /\ onBus' = {}
    /\ UNCHANGED <<present, stage, who, owned, at, pushed, irqPushed, kept, bound>>

SpmiNext ==
    \/ \E p \in Participants : Arrive(p) \/ Depart(p)
    \/ \E r \in Resources : SpmiAcquire(r)
    \/ Refuse \/ Complete \/ GiveUp \/ Pop \/ Released \/ ArbiterLeaves

SpmiSpec == SpmiInit /\ [][SpmiNext]_spmiVars

-----------------------------------------------------------------------------
\* At every point of a bind, a failed bind or an unbind, what the adapter holds
\* refers only to things it holds too.
ChainHeld == \A r \in owned : Needs[r] \subseteq owned

\* Between two operations the adapter holds the whole chain or none of it, and
\* the interrupt is as firmware left it unless a teardown had to leave the
\* mapping behind.
SettledAllOrNothing ==
    stage = "idle" =>
        /\ owned = (IF bound THEN Resources ELSE {})
        /\ irqPushed = (bound \/ kept)
        /\ bound => present = Participants

\* owner_release_pmic removes PMIC devices that are still on the bus, unless the
\* arbiter was unbound by hand and removed them first.
PmicsRemovedOnce == \A d \in Pmics \cap owned : d \in onBus \/ byHand

\* A mapping left to the interrupt core stays with it: no later probe, bind or
\* teardown of the adapter takes it off or ends up bound on it.
KeptForGood == kept => irqPushed /\ (stage = "idle" => ~bound)

\* The adapter as a whole: its chain is held from the base up, whole or not at all,
\* and given back once; a mapping it could not take off stays.
SpmiSafe ==
    /\ ChainHeld /\ SettledAllOrNothing /\ PmicsRemovedOnce /\ KeptForGood
=============================================================================
