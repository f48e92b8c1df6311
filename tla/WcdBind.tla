------------------------------ MODULE WcdBind ------------------------------
(***************************************************************************)
(* The aggregate of the WCD938x codec (wcd938x.c with the IRQ lifetime      *)
(* patch): it is bound when the codec device and both SoundWire slaves are  *)
(* there, and unbound when the first of the three goes.  Binding acquires   *)
(* the resources of BindOrder one by one; a failure jumps to a label of the *)
(* unwinding, unbinding releases everything in an order of its own.  The    *)
(* SoundWire bus calls the slaves back from its own thread all the while,   *)
(* with the slave's sdw_dev_lock held.                                      *)
(***************************************************************************)
EXTENDS Naturals, Sequences

CONSTANTS BindMax   \* bound: the numbers IRQ domains get in turn

ASSUME BindMaxAssumption == BindMax \in Nat \ {0}

Slaves == {"rx", "tx"}
Members == Slaves \cup {"codec"}
Wd == {"hphr", "hphl", "aux"}

VARIABLES
    added,     \* members registered with the component framework
    phase,     \* "idle", "bind", "unwind" or "unbind"
    bindAt,    \* the next line of that phase's order, 1 when idle
    member,    \* whose probe or removal holds the component mutex, or "none"
    bindHeld,  \* resources the aggregate holds
    domain,    \* number of the IRQ domain created last
    slaveIrq,  \* priv->slave_irq of each slave: 0 or a domain
    using,     \* the domain each running interrupt_callback works on, or 0
    wdIrqs     \* watchdog interrupts the sound card has requested

bindVars == <<added, phase, bindAt, member, bindHeld, domain, slaveIrq, using, wdIrqs>>

Publication == {"pubrx", "pubtx"}

\* wcd938x_bind(), with wcd938x_irq_init() in its place. "regmap" is only a test.
BindOrder == <<"all", "rxdev", "txdev", "rxtxlink", "txlink", "rxlink", "regmap", "domain",
               "mapping", "chip", "pubrx", "pubtx", "component">>

\* The error labels of the two functions, as one chain.
UnwindOrder == <<"pubrx", "pubtx", "chip", "mapping", "domain", "rxlink", "txlink", "rxtxlink",
                 "txdev", "rxdev", "all">>

\* wcd938x_unbind(), with wcd938x_irq_exit() in its place.
UnbindOrder == <<"component", "pubrx", "pubtx", "chip", "mapping", "domain", "txlink", "rxlink",
                 "rxtxlink", "txdev", "rxdev", "all">>

\* Mutant: a mapping that cannot be made jumps past the label that removes the domain.
LabelPastDomain(r) ==
    CASE r = "component" -> 1
      [] r = "chip" -> 4
      [] r \in {"mapping", "domain", "regmap"} -> 6
      [] r = "rxlink" -> 7
      [] r = "txlink" -> 8
      [] r = "rxtxlink" -> 9
      [] r = "txdev" -> 10
      [] r = "rxdev" -> 11
      [] OTHER -> 12

\* Where in UnwindOrder the goto of a failed step leads.
Label(r) ==
    CASE r = "component" -> 1
      [] r = "chip" -> 4
      [] r = "mapping" -> 5
      [] r \in {"domain", "regmap"} -> 6
      [] r = "rxlink" -> 7
      [] r = "txlink" -> 8
      [] r = "rxtxlink" -> 9
      [] r = "txdev" -> 10
      [] r = "rxdev" -> 11
      [] OTHER -> 12

BindInit ==
    /\ added = {} /\ phase = "idle" /\ bindAt = 1 /\ member = "none"
    /\ bindHeld = {} /\ domain = 0
    /\ slaveIrq = [s \in Slaves |-> 0] /\ using = [s \in Slaves |-> 0]
    /\ wdIrqs = {}

bound == phase = "idle" /\ "component" \in bindHeld

\* wcd938x_probe() or wcd9380_probe(): the last member to come binds the aggregate.
Add(x) ==
    /\ member = "none" /\ x \notin added
    /\ added' = added \cup {x}
    /\ IF added' = Members
       THEN phase' = "bind" /\ member' = x
       ELSE UNCHANGED <<phase, member>>
    /\ UNCHANGED <<bindAt, bindHeld, domain, slaveIrq, using, wdIrqs>>

\* wcd938x_remove() or wcd9380_remove(). The bus no longer calls a slave back whose
\* driver is being removed, and waits for a call that is running.
Del(x) ==
    /\ member = "none" /\ x \in added
    /\ x \in Slaves => using[x] = 0
    /\ IF bound
       THEN phase' = "unbind" /\ member' = x /\ UNCHANGED added
       ELSE added' = added \ {x} /\ UNCHANGED <<phase, member>>
    /\ UNCHANGED <<bindAt, bindHeld, domain, slaveIrq, using, wdIrqs>>

SlaveOf(r) == IF r = "pubrx" THEN "rx" ELSE "tx"

\* Mutant: the reference is cleared without waiting for a callback that uses it.
SetSlaveIrqUnlocked(r, d) == slaveIrq' = [slaveIrq EXCEPT ![SlaveOf(r)] = d]

\* wcd938x_set_slave_irq(): under the lock that the callback runs with.
SetSlaveIrq(r, d) ==
    /\ using[SlaveOf(r)] = 0
    /\ slaveIrq' = [slaveIrq EXCEPT ![SlaveOf(r)] = d]

\* Where an order stands after the line it is at.
NextLine(order) == IF bindAt < Len(order) THEN bindAt + 1 ELSE 1

\* One step of wcd938x_bind() that succeeds.
AcquireOne(r) ==
    /\ bindHeld' = bindHeld \cup ({r} \ {"regmap"})
    /\ domain' = IF r = "domain" THEN (domain % BindMax) + 1 ELSE domain
    /\ IF r \in Publication THEN SetSlaveIrq(r, domain) ELSE UNCHANGED slaveIrq

Acquire ==
    /\ phase = "bind"
    /\ AcquireOne(BindOrder[bindAt])
    /\ bindAt' = NextLine(BindOrder)
    /\ IF bindAt' = 1 THEN phase' = "idle" /\ member' = "none" ELSE UNCHANGED <<phase, member>>
    /\ UNCHANGED <<added, using, wdIrqs>>

\* The probe or removal that holds the mutex ends, and its member is gone.
MemberGone == phase' = "idle" /\ added' = added \ {member} /\ member' = "none"

\* Mutant: when a slave is not found, bind starts over.
BindFailsRetries ==
    /\ phase = "bind" /\ BindOrder[bindAt] = "rxdev"
    /\ bindAt' = 1 /\ bindHeld' = bindHeld \ {"all"}
    /\ UNCHANGED <<added, phase, member, domain, slaveIrq, using, wdIrqs>>

\* One that fails: the probe that brought the last member returns the error, and the
\* member is taken out again.
BindFails ==
    /\ phase = "bind" /\ BindOrder[bindAt] \notin Publication
    /\ IF Label(BindOrder[bindAt]) > Len(UnwindOrder)
       THEN bindAt' = 1 /\ MemberGone
       ELSE bindAt' = Label(BindOrder[bindAt]) /\ phase' = "unwind" /\ UNCHANGED <<added, member>>
    /\ UNCHANGED <<bindHeld, domain, slaveIrq, using, wdIrqs>>

\* One step of the unwinding or of wcd938x_unbind(). Unregistering the component runs
\* wcd938x_soc_codec_remove(), which frees the watchdog interrupts.
ReleaseOne(r) ==
    /\ bindHeld' = bindHeld \ {r}
    /\ wdIrqs' = IF r = "component" THEN {} ELSE wdIrqs
    /\ IF r \in Publication THEN SetSlaveIrq(r, 0) ELSE UNCHANGED slaveIrq

ReleaseFrom(order) ==
    /\ ReleaseOne(order[bindAt])
    /\ bindAt' = NextLine(order)
    /\ IF bindAt' = 1 THEN MemberGone ELSE UNCHANGED <<phase, added, member>>
    /\ UNCHANGED <<domain, using>>

BindRelease ==
    \/ phase = "unwind" /\ ReleaseFrom(UnwindOrder)
    \/ phase = "unbind" /\ ReleaseFrom(UnbindOrder)

\* Mutant: one interrupt short in the unwinding of the codec probe.
ProbeLeavesHphr(k) == IF k = 3 THEN Wd ELSE IF k > 0 THEN {"hphr"} ELSE {}

\* wcd938x_soc_codec_probe() when it has requested k interrupts and then fails: each
\* label frees what was requested before it.
ProbeLeaves(k) == IF k = 3 THEN Wd ELSE {}

\* The sound card probes the component: k of the three requests succeed.
CodecProbe ==
    /\ bound /\ member = "none" /\ wdIrqs = {}
    /\ \E k \in 0 .. 3 : wdIrqs' = ProbeLeaves(k)
    /\ UNCHANGED <<added, phase, bindAt, member, bindHeld, domain, slaveIrq, using>>

\* The sound card goes while the component stays.
CodecRemove ==
    /\ bound /\ member = "none" /\ wdIrqs = Wd /\ wdIrqs' = {}
    /\ UNCHANGED <<added, phase, bindAt, member, bindHeld, domain, slaveIrq, using>>

\* wcd9380_interrupt_callback(), called with the slave's lock held while its driver is
\* neither being probed nor removed: without a domain it returns at once.
Callback(s) ==
    /\ s \in added /\ member # s /\ using[s] = 0 /\ slaveIrq[s] # 0
    /\ using' = [using EXCEPT ![s] = slaveIrq[s]]
    /\ UNCHANGED <<added, phase, bindAt, member, bindHeld, domain, slaveIrq, wdIrqs>>

CallbackReturns(s) ==
    /\ using[s] # 0 /\ using' = [using EXCEPT ![s] = 0]
    /\ UNCHANGED <<added, phase, bindAt, member, bindHeld, domain, slaveIrq, wdIrqs>>

BindNext ==
    \/ \E x \in Members : Add(x) \/ Del(x)
    \/ Acquire \/ BindFails \/ BindRelease \/ CodecProbe \/ CodecRemove
    \/ \E s \in Slaves : Callback(s) \/ CallbackReturns(s)

\* The thread that binds or unbinds goes on, and a callback returns. SF, because the
\* lock may be taken again and again before the waiter gets it; a kernel mutex hands
\* it over to a waiter that has been passed by.
BindFair ==
    /\ SF_bindVars(Acquire \/ BindFails) /\ SF_bindVars(BindRelease)
    /\ \A s \in Slaves : WF_bindVars(CallbackReturns(s))

BindSpec == BindInit /\ [][BindNext]_bindVars /\ BindFair
----------------------------------------------------------------------------
(* Properties *)

\* The lines i .. j of an order.
Lines(order, i, j) == {order[k] : k \in i .. j}

BindResources == Lines(BindOrder, 1, Len(BindOrder)) \ {"regmap"}

\* A callback that runs works on the domain that exists now, with its mapping and its
\* chip: neither unbind nor a failed bind takes them away under it.
CallbackOnLiveDomain ==
    \A s \in Slaves : using[s] # 0 => using[s] = domain /\ {"domain", "mapping", "chip"} \subseteq bindHeld

\* Every way through the labels and through unbind gives back exactly what was
\* acquired: at rest the aggregate has everything or nothing.
AllOrNothing ==
    phase = "idle" =>
        \/ bindHeld = BindResources /\ added = Members /\ \A s \in Slaves : slaveIrq[s] = domain
        \/ bindHeld = {} /\ wdIrqs = {} /\ \A s \in Slaves : slaveIrq[s] = 0

\* What is held rests on what is held: the orders of the unwinding and of unbind never
\* release a resource that another one, a published reference or a requested watchdog
\* interrupt still needs.
BindNeeds(r) ==
    CASE r = "component" -> {"chip"}
      [] r \in Publication -> {"chip", "rxdev", "txdev"}
      [] r = "chip" -> {"mapping"}
      [] r = "mapping" -> {"domain"}
      [] r \in {"rxtxlink", "txlink", "rxlink"} -> {"rxdev", "txdev"}
      [] r = "all" -> {}
      [] OTHER -> {"all"}


NeedsHeld ==
    /\ \A r \in bindHeld : BindNeeds(r) \subseteq bindHeld
    /\ wdIrqs # {} => "component" \in bindHeld /\ wdIrqs = Wd

\* Binding and unbinding end, whatever the bus does with the lock meanwhile.
BindingEnds == phase # "idle" ~> phase = "idle"

\* ------------------------------------------------ the inductive invariant
BindTypeOK ==
    /\ added \subseteq Members /\ member \in Members \cup {"none"}
    /\ phase \in {"idle", "bind", "unwind", "unbind"}
    /\ domain \in 0 .. BindMax /\ wdIrqs \subseteq Wd
    /\ slaveIrq \in [Slaves -> Nat] /\ using \in [Slaves -> Nat]

\* What is held is what the lines before this one have acquired, or what this one and
\* the ones after it have still to release.
HeldInStep ==
    /\ phase = "idle" => bindAt = 1 /\ bindHeld \in {{}, BindResources}
    /\ phase = "bind" =>
         bindAt \in 1 .. 13 /\ bindHeld = Lines(BindOrder, 1, bindAt - 1) \ {"regmap"}
    /\ phase = "unwind" => bindAt \in 1 .. 11 /\ bindHeld = Lines(UnwindOrder, bindAt, 11)
    /\ phase = "unbind" => bindAt \in 1 .. 12 /\ bindHeld = Lines(UnbindOrder, bindAt, 12)

\* Whoever binds or unbinds holds the mutex, and the three members stay until it is done.
MutexInStep ==
    /\ phase = "idle" <=> member = "none"
    /\ phase # "idle" \/ bindHeld # {} => added = Members

\* A slave has the domain exactly while it is published to it, and a running callback
\* works on what its slave has.
SlavesInStep ==
    /\ "domain" \in bindHeld => domain # 0
    /\ slaveIrq["rx"] = IF "pubrx" \in bindHeld THEN domain ELSE 0
    /\ slaveIrq["tx"] = IF "pubtx" \in bindHeld THEN domain ELSE 0
    /\ \A s \in Slaves : using[s] \in {0, slaveIrq[s]}

WatchdogsInStep == wdIrqs = {} \/ (wdIrqs = Wd /\ "component" \in bindHeld)

BindInv == BindTypeOK /\ HeldInStep /\ MutexInStep /\ SlavesInStep /\ WatchdogsInStep

\* The aggregate as a whole: bound with everything or nothing, released in an order
\* that leaves nothing without its base, and never under a running callback.
BindSafe ==
    /\ BindInv /\ CallbackOnLiveDomain /\ AllOrNothing /\ NeedsHeld
=============================================================================
