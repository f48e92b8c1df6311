---------------------------- MODULE AudioProofs ----------------------------
(***************************************************************************)
(* The codec aggregate's bind and unbind, the loading and removal of the   *)
(* four wiring modules, a compressed stream and a PCM: their safety for    *)
(* every value of the constants, and the implementation of Lifecycle by    *)
(* each of the four modules. The tables of the first two models (what each *)
(* function takes and in which order each label gives it back) are read    *)
(* once, in the lemmas that open each part; the steps then only cite what  *)
(* those lemmas say of them.                                               *)
(***************************************************************************)
EXTENDS AudioModules, WcdBind, Q6asmCompr, Q6asmPcm, Integers, FiniteSetTheorems, TLAPS

-----------------------------------------------------------------------------
(* The codec aggregate                                                     *)

(* The lines of the three orders, one by one. *)
LEMMA OrderLines ==
    /\ Len(BindOrder) = 13 /\ Len(UnwindOrder) = 11 /\ Len(UnbindOrder) = 12
    /\ BindOrder[1] = "all" /\ BindOrder[2] = "rxdev" /\ BindOrder[3] = "txdev" /\ BindOrder[4] = "rxtxlink"
    /\ BindOrder[5] = "txlink" /\ BindOrder[6] = "rxlink" /\ BindOrder[7] = "regmap" /\ BindOrder[8] = "domain"
    /\ BindOrder[9] = "mapping" /\ BindOrder[10] = "chip" /\ BindOrder[11] = "pubrx" /\ BindOrder[12] = "pubtx"
    /\ BindOrder[13] = "component"
    /\ UnwindOrder[1] = "pubrx" /\ UnwindOrder[2] = "pubtx" /\ UnwindOrder[3] = "chip" /\ UnwindOrder[4] = "mapping"
    /\ UnwindOrder[5] = "domain" /\ UnwindOrder[6] = "rxlink" /\ UnwindOrder[7] = "txlink" /\ UnwindOrder[8] = "rxtxlink"
    /\ UnwindOrder[9] = "txdev" /\ UnwindOrder[10] = "rxdev" /\ UnwindOrder[11] = "all"
    /\ UnbindOrder[1] = "component" /\ UnbindOrder[2] = "pubrx" /\ UnbindOrder[3] = "pubtx" /\ UnbindOrder[4] = "chip"
    /\ UnbindOrder[5] = "mapping" /\ UnbindOrder[6] = "domain" /\ UnbindOrder[7] = "txlink" /\ UnbindOrder[8] = "rxlink"
    /\ UnbindOrder[9] = "rxtxlink" /\ UnbindOrder[10] = "txdev" /\ UnbindOrder[11] = "rxdev" /\ UnbindOrder[12] = "all"
BY DEF BindOrder, UnwindOrder, UnbindOrder

(* Each goto of a failed bind leads to the labels that release exactly what  *)
(* has been acquired so far.                                                 *)
LEMMA LabelsFit ==
    \A k \in 1 .. 13 : BindOrder[k] \notin Publication =>
        /\ Label(BindOrder[k]) \in 1 .. 12
        /\ Lines(BindOrder, 1, k - 1) \ {"regmap"} = Lines(UnwindOrder, Label(BindOrder[k]), 11)
BY OrderLines, SMTT(60) DEF Lines, Label, Publication

(* No line of the unwinding or of unbind comes twice. *)
LEMMA LinesDistinct ==
    /\ \A k \in 1 .. 11 : Lines(UnwindOrder, k, 11) \ {UnwindOrder[k]} = Lines(UnwindOrder, k + 1, 11)
    /\ \A k \in 1 .. 12 : Lines(UnbindOrder, k, 12) \ {UnbindOrder[k]} = Lines(UnbindOrder, k + 1, 12)
<1>1. \A i, j \in 1 .. 11 : UnwindOrder[i] = UnwindOrder[j] => i = j
  BY OrderLines
<1>2. \A i, j \in 1 .. 12 : UnbindOrder[i] = UnbindOrder[j] => i = j
  BY OrderLines
<1>3. \A k \in 1 .. 11 : Lines(UnwindOrder, k, 11) \ {UnwindOrder[k]} = Lines(UnwindOrder, k + 1, 11)
  BY <1>1 DEF Lines
<1>4. \A k \in 1 .. 12 : Lines(UnbindOrder, k, 12) \ {UnbindOrder[k]} = Lines(UnbindOrder, k + 1, 12)
  BY <1>2 DEF Lines
<1> QED BY <1>3, <1>4

(* In every state bind, unwinding and unbind go through, what is held has    *)
(* what it rests on, and a publication has domain, mapping and chip.         *)
Based(set) ==
    /\ \A r \in set : BindNeeds(r) \subseteq set
    /\ Publication \cap set # {} => {"domain", "mapping", "chip"} \subseteq set

LEMMA OrdersBased ==
    /\ \A k \in 1 .. 14 : Based(Lines(BindOrder, 1, k - 1) \ {"regmap"})
    /\ \A k \in 1 .. 12 : Based(Lines(UnwindOrder, k, 11))
    /\ \A k \in 1 .. 13 : Based(Lines(UnbindOrder, k, 12))
<1>1. \A k \in 1 .. 14 : Based(Lines(BindOrder, 1, k - 1) \ {"regmap"})
  BY OrderLines, SMTT(60) DEF Lines, Based, BindNeeds, Publication
<1>2. \A k \in 1 .. 12 : Based(Lines(UnwindOrder, k, 11))
  BY OrderLines, SMTT(60) DEF Lines, Based, BindNeeds, Publication
<1>3. \A k \in 1 .. 13 : Based(Lines(UnbindOrder, k, 12))
  BY OrderLines, SMTT(60) DEF Lines, Based, BindNeeds, Publication
<1> QED BY <1>1, <1>2, <1>3

(* The whole of the orders. *)
LEMMA WholeOrders ==
    /\ BindResources = Lines(BindOrder, 1, 13) \ {"regmap"}
    /\ BindResources = Lines(UnbindOrder, 1, 12)
    /\ "component" \in BindResources /\ Publication \subseteq BindResources
<1>1. BindResources = Lines(BindOrder, 1, 13) \ {"regmap"}
  BY OrderLines DEF BindResources
<1>2. Lines(BindOrder, 1, 13) \ {"regmap"} = Lines(UnbindOrder, 1, 12)
  BY OrderLines DEF Lines
<1>3. "component" \in BindResources /\ Publication \subseteq BindResources
  BY <1>1, OrderLines DEF Lines, Publication
<1> QED BY <1>1, <1>2, <1>3

LEMMA BindInitInv == BindInit => BindInv
BY BindMaxAssumption, WholeOrders DEF BindInit, BindInv, BindTypeOK, HeldInStep, MutexInStep,
   SlavesInStep, WatchdogsInStep, Members, Slaves, Publication

(* A member comes or goes, and the last one to come, or the first to go,     *)
(* starts the phase.                                                         *)
LEMMA MembersInv ==
    ASSUME BindInv, NEW x \in Members, Add(x) \/ Del(x) PROVE BindInv'
<1> USE DEF BindInv
<1>1. member = "none" /\ phase = "idle" /\ x # "none"
  BY DEF Add, Del, MutexInStep, Members, Slaves
<1>2. BindTypeOK'
  BY <1>1 DEF Add, Del, BindTypeOK
<1>3. HeldInStep'
  <2>1. CASE Add(x)
    <3>1. added # Members /\ bindHeld = {}
      BY <2>1, <1>1, WholeOrders DEF Add, HeldInStep, MutexInStep
    <3>2. Lines(BindOrder, 1, 0) = {}
      BY DEF Lines
    <3> QED BY <2>1, <1>1, <3>1, <3>2 DEF Add, HeldInStep
  <2>2. CASE Del(x)
    BY <2>2, <1>1, WholeOrders DEF Del, HeldInStep, bound
  <2> QED BY <2>1, <2>2
<1>4. MutexInStep'
  BY <1>1, WholeOrders DEF Add, Del, MutexInStep, HeldInStep, bound
<1>5. SlavesInStep' /\ WatchdogsInStep'
  BY DEF Add, Del, SlavesInStep, WatchdogsInStep
<1> QED BY <1>2, <1>3, <1>4, <1>5

(* What a line changes of the slaves' domains and of the held resources.     *)
LEMMA SlavesAcquire ==
    ASSUME BindInv, NEW r, AcquireOne(r), UNCHANGED using,
           r \in Publication \cup {"domain"} => r \notin bindHeld,
           r \in Publication => "domain" \in bindHeld,
           r = "domain" => Publication \cap bindHeld = {}
    PROVE  SlavesInStep' /\ domain' \in 0 .. BindMax /\ slaveIrq' \in [Slaves -> Nat]
<1>1. domain \in 0 .. BindMax /\ BindMax \in Nat /\ BindMax > 0 /\ slaveIrq \in [Slaves -> Nat]
  BY BindMaxAssumption DEF BindInv, BindTypeOK
<1>2. domain % BindMax \in 0 .. BindMax - 1
  BY <1>1
<1>3. domain' \in 0 .. BindMax /\ (r = "domain" => domain' # 0)
  BY <1>1, <1>2 DEF AcquireOne
<1>4. slaveIrq' \in [Slaves -> Nat]
  BY <1>1 DEF AcquireOne, SetSlaveIrq
<1>5. SlavesInStep'
  BY <1>1, <1>3 DEF AcquireOne, SetSlaveIrq, SlaveOf, SlavesInStep, BindInv, Publication, Slaves
<1> QED BY <1>3, <1>4, <1>5

LEMMA AcquireInv == ASSUME BindInv, Acquire PROVE BindInv'
<1> DEFINE r == BindOrder[bindAt]
<1>1. /\ phase = "bind" /\ bindAt \in 1 .. 13 /\ AcquireOne(r)
      /\ bindAt' = (IF bindAt < 13 THEN bindAt + 1 ELSE 1)
      /\ bindHeld = Lines(BindOrder, 1, bindAt - 1) \ {"regmap"}
      /\ bindHeld' = bindHeld \cup ({r} \ {"regmap"})
  BY OrderLines DEF Acquire, AcquireOne, NextLine, BindInv, HeldInStep
<1>2. /\ r \in Publication \cup {"domain"} => r \notin bindHeld
      /\ r \in Publication => "domain" \in bindHeld
      /\ r = "domain" => Publication \cap bindHeld = {}
  BY <1>1, OrderLines DEF Lines, Publication
<1>3. bindHeld' = Lines(BindOrder, 1, bindAt) \ {"regmap"}
  BY <1>1 DEF Lines
<1>4. added = Members /\ UNCHANGED <<added, using, wdIrqs>>
  BY <1>1 DEF Acquire, BindInv, MutexInStep
<1>5. /\ bindAt < 13 => phase' = "bind" /\ member' = member
      /\ bindAt = 13 => phase' = "idle" /\ member' = "none"
  BY <1>1 DEF Acquire
<1>6. SlavesInStep' /\ domain' \in 0 .. BindMax /\ slaveIrq' \in [Slaves -> Nat]
  BY <1>1, <1>2, <1>4, SlavesAcquire
<1> HIDE DEF r
<1>7. BindTypeOK'
  BY <1>4, <1>5, <1>6, <1>1 DEF BindInv, BindTypeOK
<1>8. HeldInStep'
  BY <1>1, <1>3, <1>5, WholeOrders DEF HeldInStep
<1>9. MutexInStep' /\ WatchdogsInStep'
  BY <1>1, <1>4, <1>5 DEF BindInv, MutexInStep, WatchdogsInStep
<1> QED BY <1>6, <1>7, <1>8, <1>9 DEF BindInv

LEMMA BindFailsInv == ASSUME BindInv, BindFails PROVE BindInv'
<1>1. /\ phase = "bind" /\ bindAt \in 1 .. 13 /\ BindOrder[bindAt] \notin Publication
      /\ bindHeld = Lines(BindOrder, 1, bindAt - 1) \ {"regmap"}
      /\ added = Members
  BY DEF BindFails, BindInv, HeldInStep, MutexInStep
<1>2. /\ Label(BindOrder[bindAt]) \in 1 .. 12
      /\ bindHeld = Lines(UnwindOrder, Label(BindOrder[bindAt]), 11)
  BY <1>1, LabelsFit
<1>3. Lines(UnwindOrder, 12, 11) = {}
  BY DEF Lines
<1>4. UNCHANGED <<bindHeld, domain, slaveIrq, using, wdIrqs>>
  BY DEF BindFails
<1>5. \/ bindAt' = 1 /\ phase' = "idle" /\ member' = "none" /\ added' \subseteq added /\ bindHeld = {}
      \/ /\ bindAt' \in 1 .. 11 /\ phase' = "unwind" /\ UNCHANGED <<added, member>>
         /\ bindHeld = Lines(UnwindOrder, bindAt', 11)
  BY <1>2, <1>3, OrderLines DEF BindFails, MemberGone
<1>6. BindTypeOK'
  BY <1>4, <1>5 DEF BindInv, BindTypeOK
<1>7. HeldInStep' /\ MutexInStep'
  BY <1>1, <1>4, <1>5 DEF BindInv, HeldInStep, MutexInStep
<1>8. SlavesInStep' /\ WatchdogsInStep'
  BY <1>4 DEF BindInv, SlavesInStep, WatchdogsInStep
<1> QED BY <1>6, <1>7, <1>8 DEF BindInv

(* A line that releases leaves the slaves and the watchdogs in step, when    *)
(* what it takes away is not the base of a publication.                      *)
LEMMA SlavesRelease ==
    ASSUME BindInv, NEW r, ReleaseOne(r), UNCHANGED <<using, domain>>,
           r \in bindHeld
    PROVE  SlavesInStep' /\ WatchdogsInStep' /\ slaveIrq' \in [Slaves -> Nat] /\ wdIrqs' \subseteq Wd
<1>1. slaveIrq \in [Slaves -> Nat]
  BY DEF BindInv, BindTypeOK
<1>2. slaveIrq' \in [Slaves -> Nat] /\ wdIrqs' \subseteq Wd
  BY <1>1 DEF ReleaseOne, SetSlaveIrq, BindInv, BindTypeOK
<1>3. SlavesInStep'
  BY <1>1 DEF ReleaseOne, SetSlaveIrq, SlaveOf, SlavesInStep, BindInv, Publication, Slaves
<1>4. WatchdogsInStep'
  BY DEF ReleaseOne, BindInv, WatchdogsInStep
<1> QED BY <1>2, <1>3, <1>4

LEMMA BindReleaseInv == ASSUME BindInv, BindRelease PROVE BindInv'
<1>1. CASE phase = "unwind"
  <2>1. /\ bindAt \in 1 .. 11 /\ bindHeld = Lines(UnwindOrder, bindAt, 11) /\ added = Members
        /\ ReleaseFrom(UnwindOrder)
    BY <1>1 DEF BindRelease, BindInv, HeldInStep, MutexInStep
  <2>2. UnwindOrder[bindAt] \in bindHeld /\ bindHeld' = Lines(UnwindOrder, bindAt + 1, 11)
    <3>1. UnwindOrder[bindAt] \in Lines(UnwindOrder, bindAt, 11)
      BY <2>1 DEF Lines
    <3>2. bindHeld' = Lines(UnwindOrder, bindAt, 11) \ {UnwindOrder[bindAt]}
      BY <2>1 DEF ReleaseFrom, ReleaseOne
    <3> QED BY <2>1, <3>1, <3>2, LinesDistinct
  <2>3. SlavesInStep' /\ WatchdogsInStep' /\ slaveIrq' \in [Slaves -> Nat] /\ wdIrqs' \subseteq Wd
    BY <2>1, <2>2, SlavesRelease DEF ReleaseFrom
  <2>4. Lines(UnwindOrder, 12, 11) = {}
    BY DEF Lines
  <2>5. \/ /\ bindAt = 11 /\ bindAt' = 1 /\ phase' = "idle" /\ member' = "none"
           /\ added' \subseteq added /\ bindHeld' = {}
        \/ bindAt' = bindAt + 1 /\ bindAt' \in 1 .. 11 /\ UNCHANGED <<phase, added, member>>
    BY <2>1, <2>2, <2>4, OrderLines DEF ReleaseFrom, NextLine, MemberGone
  <2>6. UNCHANGED <<domain, using>>
    BY <2>1 DEF ReleaseFrom
  <2>7. BindTypeOK'
    BY <2>3, <2>5, <2>6 DEF BindInv, BindTypeOK
  <2>8. HeldInStep' /\ MutexInStep'
    BY <1>1, <2>1, <2>2, <2>5 DEF BindInv, HeldInStep, MutexInStep
  <2> QED BY <2>3, <2>7, <2>8 DEF BindInv
<1>2. CASE phase = "unbind"
  <2>1. /\ bindAt \in 1 .. 12 /\ bindHeld = Lines(UnbindOrder, bindAt, 12) /\ added = Members
        /\ ReleaseFrom(UnbindOrder)
    BY <1>2 DEF BindRelease, BindInv, HeldInStep, MutexInStep
  <2>2. UnbindOrder[bindAt] \in bindHeld /\ bindHeld' = Lines(UnbindOrder, bindAt + 1, 12)
    <3>1. UnbindOrder[bindAt] \in Lines(UnbindOrder, bindAt, 12)
      BY <2>1 DEF Lines
    <3>2. bindHeld' = Lines(UnbindOrder, bindAt, 12) \ {UnbindOrder[bindAt]}
      BY <2>1 DEF ReleaseFrom, ReleaseOne
    <3> QED BY <2>1, <3>1, <3>2, LinesDistinct
  <2>3. SlavesInStep' /\ WatchdogsInStep' /\ slaveIrq' \in [Slaves -> Nat] /\ wdIrqs' \subseteq Wd
    BY <2>1, <2>2, SlavesRelease DEF ReleaseFrom
  <2>4. Lines(UnbindOrder, 13, 12) = {}
    BY DEF Lines
  <2>5. \/ /\ bindAt = 12 /\ bindAt' = 1 /\ phase' = "idle" /\ member' = "none"
           /\ added' \subseteq added /\ bindHeld' = {}
        \/ bindAt' = bindAt + 1 /\ bindAt' \in 1 .. 12 /\ UNCHANGED <<phase, added, member>>
    BY <2>1, <2>2, <2>4, OrderLines DEF ReleaseFrom, NextLine, MemberGone
  <2>6. UNCHANGED <<domain, using>>
    BY <2>1 DEF ReleaseFrom
  <2>7. BindTypeOK'
    BY <2>3, <2>5, <2>6 DEF BindInv, BindTypeOK
  <2>8. HeldInStep' /\ MutexInStep'
    BY <1>2, <2>1, <2>2, <2>5 DEF BindInv, HeldInStep, MutexInStep
  <2> QED BY <2>3, <2>7, <2>8 DEF BindInv
<1> QED BY <1>1, <1>2 DEF BindRelease

(* The sound card requests and frees the watchdog interrupts. *)
LEMMA CardInv == ASSUME BindInv, CodecProbe \/ CodecRemove PROVE BindInv'
<1>1. /\ UNCHANGED <<added, phase, bindAt, member, bindHeld, domain, slaveIrq, using>>
      /\ "component" \in bindHeld /\ wdIrqs' \in {{}, Wd}
  BY DEF CodecProbe, CodecRemove, bound, ProbeLeaves
<1> QED BY <1>1 DEF BindInv, BindTypeOK, HeldInStep, MutexInStep, SlavesInStep, WatchdogsInStep

(* The bus calls a slave back. *)
LEMMA CallbackInv ==
    ASSUME BindInv, NEW s \in Slaves, Callback(s) \/ CallbackReturns(s) PROVE BindInv'
<1>1. /\ UNCHANGED <<added, phase, bindAt, member, bindHeld, domain, slaveIrq, wdIrqs>>
      /\ using' \in [Slaves -> Nat] /\ \A q \in Slaves : using'[q] \in {0, slaveIrq[q]}
  BY DEF Callback, CallbackReturns, BindInv, BindTypeOK, SlavesInStep
<1> QED BY <1>1 DEF BindInv, BindTypeOK, HeldInStep, MutexInStep, SlavesInStep, WatchdogsInStep

LEMMA BindNextInv == BindInv /\ [BindNext]_bindVars => BindInv'
<1> SUFFICES ASSUME BindInv, [BindNext]_bindVars PROVE BindInv'
  OBVIOUS
<1>1. CASE UNCHANGED bindVars
  BY <1>1 DEF bindVars, BindInv, BindTypeOK, HeldInStep, MutexInStep, SlavesInStep, WatchdogsInStep
<1> QED BY <1>1, MembersInv, AcquireInv, BindFailsInv, BindReleaseInv, CardInv, CallbackInv DEF BindNext

(* What is held is always a set that rests on itself. *)
LEMMA HeldBased == ASSUME BindInv PROVE Based(bindHeld)
<1>1. CASE phase = "idle"
  <2>1. Based({})
    BY DEF Based
  <2>2. Lines(UnbindOrder, 1, 12) = BindResources
    BY WholeOrders
  <2> QED BY <1>1, <2>1, <2>2, OrdersBased DEF BindInv, HeldInStep
<1>2. CASE phase = "bind"
  <2>1. bindAt \in 1 .. 14 /\ bindHeld = Lines(BindOrder, 1, bindAt - 1) \ {"regmap"}
    BY <1>2 DEF BindInv, HeldInStep
  <2> QED BY <2>1, OrdersBased, Zenon
<1>3. CASE phase = "unwind"
  BY <1>3, OrdersBased DEF BindInv, HeldInStep
<1>4. CASE phase = "unbind"
  BY <1>4, OrdersBased DEF BindInv, HeldInStep
<1> QED BY <1>1, <1>2, <1>3, <1>4 DEF BindInv, BindTypeOK

(* Through every failed bind, unbind and callback, the codec aggregate is    *)
(* bound whole or not at all, releases nothing that something rests on, and  *)
(* no callback runs on a domain that is gone, however many domains there     *)
(* have been.                                                                *)
THEOREM BindIsSafe == BindSpec => []BindSafe
<1>1. BindSpec => []BindInv
  BY BindInitInv, BindNextInv, PTL DEF BindSpec
<1>2. BindInv => BindSafe
  <2> SUFFICES ASSUME BindInv PROVE BindSafe
    OBVIOUS
  <2>1. Based(bindHeld)
    BY HeldBased
  <2>2. CallbackOnLiveDomain
    BY <2>1 DEF BindInv, SlavesInStep, CallbackOnLiveDomain, Based, Publication, Slaves
  <2>3. NeedsHeld
    BY <2>1 DEF NeedsHeld, Based, BindInv, WatchdogsInStep
  <2>4. AllOrNothing
    BY WholeOrders DEF AllOrNothing, BindInv, HeldInStep, MutexInStep, SlavesInStep,
       WatchdogsInStep, Slaves, Publication
  <2> QED BY <2>2, <2>3, <2>4 DEF BindSafe
<1> QED BY <1>1, <1>2, PTL

-----------------------------------------------------------------------------
(* The four wiring modules                                                 *)

(* ------------------------------------------------- the four modules' data *)
Plain == {"audio", "lpi", "card"}
NeedsFor(m, r) == IF m = "audio" THEN AudioNeeds(r) ELSE OtherNeeds(r)

LEMMA OrderLengths ==
    /\ Len(InitOrder("audio")) = 15 /\ Len(InitOrder("lpi")) = 6
    /\ Len(InitOrder("card")) = 4 /\ Len(InitOrder("wcd")) = 8
BY DEF InitOrder, AudioOrder, LpiOrder, CardOrder, WcdOrder

LEMMA LastGroup ==
    /\ ResourcesOf("audio") = TakenBefore("audio", 16) /\ ResourcesOf("lpi") = TakenBefore("lpi", 7)
    /\ ResourcesOf("card") = TakenBefore("card", 5) /\ ResourcesOf("wcd") = TakenBefore("wcd", 9)
<1>1. /\ Len(InitOrder("audio")) + 1 = 16 /\ Len(InitOrder("lpi")) + 1 = 7
      /\ Len(InitOrder("card")) + 1 = 5 /\ Len(InitOrder("wcd")) + 1 = 9
  BY DEF InitOrder, AudioOrder, LpiOrder, CardOrder, WcdOrder
<1> QED BY <1>1, Zenon DEF ResourcesOf

LEMMA AudioGroups ==
    /\ InitOrder("audio")[1] = {"adsp", "glnk"}
    /\ InitOrder("audio")[2] = {"pd", "cc", "apcs", "qmp", "apcs_node", "qmp_node"}
    /\ InitOrder("audio")[3] = {"gsi0"} /\ InitOrder("audio")[4] = {"gsi1"}
    /\ InitOrder("audio")[5] = {"nodes"} /\ InitOrder("audio")[6] = {"proxy0"}
    /\ InitOrder("audio")[7] = {"proxy1"} /\ InitOrder("audio")[8] = {"xo"}
    /\ InitOrder("audio")[9] = {"xo_lookup"} /\ InitOrder("audio")[10] = {"smp"}
    /\ InitOrder("audio")[11] = {"virq0"} /\ InitOrder("audio")[12] = {"virq1"}
    /\ InitOrder("audio")[13] = {"virq2"} /\ InitOrder("audio")[14] = {"virq3"}
    /\ InitOrder("audio")[15] = {"pas"}
BY DEF InitOrder, AudioOrder

LEMMA OtherGroups ==
    /\ InitOrder("lpi")[1] = {"core_clk"} /\ InitOrder("lpi")[2] = {"audio_clk"}
    /\ InitOrder("lpi")[3] = {"core_lookup"} /\ InitOrder("lpi")[4] = {"audio_lookup"}
    /\ InitOrder("lpi")[5] = {"lpi_node"} /\ InitOrder("lpi")[6] = {"lpi_pdev"}
    /\ InitOrder("card")[1] = {"gpiod_table"} /\ InitOrder("card")[2] = {"route"}
    /\ InitOrder("card")[3] = {"driver"} /\ InitOrder("card")[4] = {"card_dev"}
    /\ InitOrder("wcd")[1] = {"glink"} /\ InitOrder("wcd")[2] = {"apr"}
    /\ InitOrder("wcd")[3] = {"q6afe"} /\ InitOrder("wcd")[4] = {"rx_master"}
    /\ InitOrder("wcd")[5] = {"tx_master"} /\ InitOrder("wcd")[6] = {"rx"}
    /\ InitOrder("wcd")[7] = {"tx"} /\ InitOrder("wcd")[8] = {"codec"}
BY DEF InitOrder, LpiOrder, CardOrder, WcdOrder

LEMMA TakenMember ==
    \A m, x : \A g \in Nat : x \in TakenBefore(m, g) <=> \E i \in 1 .. g - 1 : x \in InitOrder(m)[i]
BY DEF TakenBefore

(* A group adds what it takes to what the groups before it have taken. *)
LEMMA TakenNext ==
    \A m \in Modules : \A g \in 1 .. 15 :
        /\ TakenBefore(m, g + 1) = TakenBefore(m, g) \cup InitOrder(m)[g]
        /\ TakenBefore(m, 1) = {}
BY DEF TakenBefore

LEMMA TakenGrows ==
    \A m : \A g, h \in Nat : g <= h => TakenBefore(m, g) \subseteq TakenBefore(m, h)
BY DEF TakenBefore

(* What a group takes rests on what the groups before it have taken. *)
LEMMA NeedsTaken ==
    \A m \in Plain : \A g \in 1 .. Len(InitOrder(m)) : \A r \in InitOrder(m)[g] :
        NeedsFor(m, r) \subseteq TakenBefore(m, g)
<1>1. \A g \in 1 .. 15 : \A r \in InitOrder("audio")[g] : AudioNeeds(r) \subseteq TakenBefore("audio", g)
  BY AudioGroups DEF AudioNeeds, TakenBefore, Virqs
<1>2. \A g \in 1 .. 6 : \A r \in InitOrder("lpi")[g] : OtherNeeds(r) \subseteq TakenBefore("lpi", g)
  BY OtherGroups DEF OtherNeeds, TakenBefore
<1>3. \A g \in 1 .. 4 : \A r \in InitOrder("card")[g] : OtherNeeds(r) \subseteq TakenBefore("card", g)
  BY OtherGroups DEF OtherNeeds, TakenBefore
<1> QED BY <1>1, <1>2, <1>3, OrderLengths DEF Plain, NeedsFor

(* The lines of the unwindings. *)
LEMMA CleanupLines ==
    /\ Len(Cleanup) = 19 /\ DOMAIN Cleanup = 1 .. 19
    /\ Cleanup[1] = "pas" /\ Cleanup[2] = "virq0" /\ Cleanup[3] = "virq1" /\ Cleanup[4] = "virq2"
    /\ Cleanup[5] = "virq3" /\ Cleanup[6] = "smp" /\ Cleanup[7] = "xo_lookup" /\ Cleanup[8] = "xo"
    /\ Cleanup[9] = "proxy1" /\ Cleanup[10] = "proxy0" /\ Cleanup[11] = "nodes" /\ Cleanup[12] = "gsi0"
    /\ Cleanup[13] = "gsi1" /\ Cleanup[14] = "qmp" /\ Cleanup[15] = "apcs" /\ Cleanup[16] = "cc"
    /\ Cleanup[17] = "pd" /\ Cleanup[18] = "glnk" /\ Cleanup[19] = "adsp"
BY DEF Cleanup

LEMMA OtherLines ==
    /\ Len(LpiExit) = 6 /\ Len(LpiClks) = 4 /\ Len(WcdPut) = 7 /\ Len(CardExit) = 4
    /\ DOMAIN LpiExit = 1 .. 6 /\ DOMAIN LpiClks = 1 .. 4 /\ DOMAIN WcdPut = 1 .. 7 /\ DOMAIN CardExit = 1 .. 4
    /\ LpiExit[1] = "lpi_pdev" /\ LpiExit[2] = "lpi_node" /\ LpiExit[3] = "audio_lookup" /\ LpiExit[4] = "core_lookup"
    /\ LpiExit[5] = "audio_clk" /\ LpiExit[6] = "core_clk"
    /\ LpiClks[1] = "audio_lookup" /\ LpiClks[2] = "core_lookup" /\ LpiClks[3] = "audio_clk" /\ LpiClks[4] = "core_clk"
    /\ WcdPut[1] = "tx" /\ WcdPut[2] = "rx" /\ WcdPut[3] = "tx_master" /\ WcdPut[4] = "rx_master"
    /\ WcdPut[5] = "q6afe" /\ WcdPut[6] = "apr" /\ WcdPut[7] = "glink"
    /\ CardExit[1] = "card_dev" /\ CardExit[2] = "driver" /\ CardExit[3] = "route" /\ CardExit[4] = "gpiod_table"
BY DEF LpiExit, LpiClks, WcdPut, CardExit

LEMMA ListRanges ==
    /\ Range(Cleanup) = {"pas", "virq0", "virq1", "virq2", "virq3", "smp", "xo_lookup", "xo", "proxy1", "proxy0", "nodes", "gsi0", "gsi1", "qmp", "apcs", "cc", "pd", "glnk", "adsp"}
    /\ Range(LpiClks) = {"audio_lookup", "core_lookup", "audio_clk", "core_clk"}
    /\ Range(WcdPut) = {"tx", "rx", "tx_master", "rx_master", "q6afe", "apr", "glink"}
BY CleanupLines, OtherLines DEF Range

LEMMA AllResources ==
    /\ ResourcesOf("audio") = Range(Cleanup) \cup NodeRefs
    /\ ResourcesOf("lpi") = {"core_clk", "audio_clk", "core_lookup", "audio_lookup", "lpi_node", "lpi_pdev"}
    /\ ResourcesOf("card") = {"gpiod_table", "route", "driver", "card_dev"}
    /\ ResourcesOf("wcd") = Range(WcdPut) \cup {"codec"}
<1>1. ResourcesOf("audio") = Range(Cleanup) \cup NodeRefs
  <2>1. \A i \in 1 .. 15 : i \in {1, 2, 3, 4, 5, 6, 7, 8, 9, 10, 11, 12, 13, 14, 15}
    OBVIOUS
  <2>2. \A x : x \in ResourcesOf("audio") <=> \E i \in 1 .. 15 : x \in InitOrder("audio")[i]
    <3>1. ResourcesOf("audio") = TakenBefore("audio", 16) /\ 16 - 1 = 15
      BY LastGroup
    <3> QED BY <3>1 DEF TakenBefore
  <2>3. \A x : x \in ResourcesOf("audio") <=>
          \/ x \in InitOrder("audio")[1] \/ x \in InitOrder("audio")[2] \/ x \in InitOrder("audio")[3]
          \/ x \in InitOrder("audio")[4] \/ x \in InitOrder("audio")[5] \/ x \in InitOrder("audio")[6]
          \/ x \in InitOrder("audio")[7] \/ x \in InitOrder("audio")[8] \/ x \in InitOrder("audio")[9]
          \/ x \in InitOrder("audio")[10] \/ x \in InitOrder("audio")[11] \/ x \in InitOrder("audio")[12]
          \/ x \in InitOrder("audio")[13] \/ x \in InitOrder("audio")[14] \/ x \in InitOrder("audio")[15]
    BY <2>1, <2>2
  <2> QED BY <2>3, AudioGroups, ListRanges DEF NodeRefs
<1>2. ResourcesOf("lpi") = {"core_clk", "audio_clk", "core_lookup", "audio_lookup", "lpi_node", "lpi_pdev"}
  <2>1. \A i \in 1 .. 6 : i \in {1, 2, 3, 4, 5, 6}
    OBVIOUS
  <2>2. \A x : x \in ResourcesOf("lpi") <=> \E i \in 1 .. 6 : x \in InitOrder("lpi")[i]
    <3>1. ResourcesOf("lpi") = TakenBefore("lpi", 7) /\ 7 - 1 = 6
      BY LastGroup
    <3> QED BY <3>1 DEF TakenBefore
  <2>3. \A x : x \in ResourcesOf("lpi") <=>
          \/ x \in InitOrder("lpi")[1] \/ x \in InitOrder("lpi")[2] \/ x \in InitOrder("lpi")[3]
          \/ x \in InitOrder("lpi")[4] \/ x \in InitOrder("lpi")[5] \/ x \in InitOrder("lpi")[6]
    BY <2>1, <2>2
  <2> QED BY <2>3, OtherGroups, ListRanges DEF NodeRefs
<1>3. ResourcesOf("card") = {"gpiod_table", "route", "driver", "card_dev"}
  <2>1. \A i \in 1 .. 4 : i \in {1, 2, 3, 4}
    OBVIOUS
  <2>2. \A x : x \in ResourcesOf("card") <=> \E i \in 1 .. 4 : x \in InitOrder("card")[i]
    <3>1. ResourcesOf("card") = TakenBefore("card", 5) /\ 5 - 1 = 4
      BY LastGroup
    <3> QED BY <3>1 DEF TakenBefore
  <2>3. \A x : x \in ResourcesOf("card") <=>
          \/ x \in InitOrder("card")[1] \/ x \in InitOrder("card")[2] \/ x \in InitOrder("card")[3]
          \/ x \in InitOrder("card")[4]
    BY <2>1, <2>2
  <2> QED BY <2>3, OtherGroups, ListRanges DEF NodeRefs
<1>4. ResourcesOf("wcd") = Range(WcdPut) \cup {"codec"}
  <2>1. \A i \in 1 .. 8 : i \in {1, 2, 3, 4, 5, 6, 7, 8}
    OBVIOUS
  <2>2. \A x : x \in ResourcesOf("wcd") <=> \E i \in 1 .. 8 : x \in InitOrder("wcd")[i]
    <3>1. ResourcesOf("wcd") = TakenBefore("wcd", 9) /\ 9 - 1 = 8
      BY LastGroup
    <3> QED BY <3>1 DEF TakenBefore
  <2>3. \A x : x \in ResourcesOf("wcd") <=>
          \/ x \in InitOrder("wcd")[1] \/ x \in InitOrder("wcd")[2] \/ x \in InitOrder("wcd")[3]
          \/ x \in InitOrder("wcd")[4] \/ x \in InitOrder("wcd")[5] \/ x \in InitOrder("wcd")[6]
          \/ x \in InitOrder("wcd")[7] \/ x \in InitOrder("wcd")[8]
    BY <2>1, <2>2
  <2> QED BY <2>3, OtherGroups, ListRanges DEF NodeRefs
<1> QED BY <1>1, <1>2, <1>3, <1>4

(* What the proofs need to know of a sequence m unwinds by: no line comes    *)
(* twice, and what a line releases is not the base of what a later line      *)
(* releases.                                                                 *)
ListOK(m, list) ==
    /\ Len(list) \in 0 .. 19
    /\ \A i \in 1 .. Len(list) : list[i] \in ResourcesOf(m)
    /\ \A i, j \in 1 .. Len(list) : i < j => list[i] # list[j] /\ list[i] \notin NeedsFor(m, list[j])

LinesOf(list) == {list[i] : i \in 1 .. Len(list)}

LEMMA AudioLists == \A list \in UnwindLists("audio") : list = Cleanup
BY DEF UnwindLists, Exit, Unwind

LEMMA LpiLists ==
    /\ LpiUnwind(2) = <<"core_clk">> /\ LpiUnwind(3) = <<"audio_clk", "core_clk">>
    /\ LpiUnwind(4) = LpiClks /\ LpiUnwind(5) = LpiClks
    /\ LpiUnwind(6) = <<"lpi_node", "audio_lookup", "core_lookup", "audio_clk", "core_clk">>
BY DEF LpiUnwind

LEMMA CardLists ==
    /\ CardUnwind(2) = <<"gpiod_table">> /\ CardUnwind(3) = <<"route", "gpiod_table">>
    /\ CardUnwind(4) = <<"driver", "route", "gpiod_table">>
BY DEF CardUnwind

LEMMA OtherLists ==
    /\ UnwindLists("lpi") \subseteq
         {LpiExit, LpiClks, <<"core_clk">>, <<"audio_clk", "core_clk">>,
          <<"lpi_node", "audio_lookup", "core_lookup", "audio_clk", "core_clk">>}
    /\ UnwindLists("card") \subseteq
         {CardExit, <<"gpiod_table">>, <<"route", "gpiod_table">>, <<"driver", "route", "gpiod_table">>}
    /\ UnwindLists("wcd") \subseteq {WcdPut, <<"codec">>}
<1>1. \A g \in 2 .. 6 : g \in {2, 3, 4, 5, 6}
  OBVIOUS
<1>2. \A g \in 2 .. 4 : g \in {2, 3, 4}
  OBVIOUS
<1>3. UnwindLists("lpi") = {LpiExit} \cup {LpiUnwind(g) : g \in 2 .. 6}
  BY OrderLengths DEF UnwindLists, Exit, Unwind
<1>4. UnwindLists("card") = {CardExit} \cup {CardUnwind(g) : g \in 2 .. 4}
  BY OrderLengths DEF UnwindLists, Exit, Unwind
<1>5. UnwindLists("wcd") \subseteq {WcdPut, <<"codec">>}
  BY DEF UnwindLists, Exit, Unwind
<1>6. UnwindLists("lpi") \subseteq
         {LpiExit, LpiClks, <<"core_clk">>, <<"audio_clk", "core_clk">>,
          <<"lpi_node", "audio_lookup", "core_lookup", "audio_clk", "core_clk">>}
  BY <1>1, <1>3, LpiLists
<1>7. UnwindLists("card") \subseteq
         {CardExit, <<"gpiod_table">>, <<"route", "gpiod_table">>, <<"driver", "route", "gpiod_table">>}
  BY <1>2, <1>4, CardLists
<1> QED BY <1>5, <1>6, <1>7

LEMMA ListsOK == \A m \in Modules : \A list \in UnwindLists(m) : ListOK(m, list)
<1>1. ListOK("audio", Cleanup)
  <2>1. Len(Cleanup) = 19 /\ \A i \in 1 .. 19 : Cleanup[i] \in ResourcesOf("audio")
    BY CleanupLines, AllResources DEF Range
  <2>2. \A i, j \in 1 .. 19 : i < j => Cleanup[i] # Cleanup[j]
    BY CleanupLines, SMTT(60)
  <2>3. /\ AudioNeeds("nodes") = {"gsi0", "gsi1", "apcs_node", "qmp_node"}
        /\ AudioNeeds("proxy0") = {"pd"} /\ AudioNeeds("proxy1") = {"pd"}
        /\ AudioNeeds("xo") = {"cc"} /\ AudioNeeds("xo_lookup") = {"xo"}
        /\ AudioNeeds("smp") = {"nodes", "glnk", "apcs"}
        /\ \A r \in Virqs : AudioNeeds(r) = {"smp", "nodes"}
        /\ \A r \in {"gsi0", "gsi1", "qmp", "apcs", "cc", "pd", "glnk", "adsp"} : AudioNeeds(r) = {}
    BY DEF AudioNeeds, Virqs
  <2>4. \A i, j \in 1 .. 19 : i < j => Cleanup[i] \notin AudioNeeds(Cleanup[j])
    <3> SUFFICES ASSUME NEW i \in 1 .. 19, NEW j \in 1 .. 19, i < j
                 PROVE  Cleanup[i] \notin AudioNeeds(Cleanup[j])
      OBVIOUS
    <3>1. CASE j \in 12 .. 19
      <4>1. Cleanup[j] \in {"gsi0", "gsi1", "qmp", "apcs", "cc", "pd", "glnk", "adsp"}
        BY <3>1, CleanupLines
      <4> QED BY <2>3, <4>1
    <3>2. CASE j \in 2 .. 5
      <4>1. Cleanup[j] \in Virqs
        BY <3>2, CleanupLines DEF Virqs
      <4>2. i \in 1 .. 4 /\ Cleanup[i] \in {"pas", "virq0", "virq1", "virq2"}
        BY <3>2, CleanupLines
      <4> QED BY <2>3, <4>1, <4>2
    <3>3. CASE j \in 6 .. 8
      <4>1. i \in 1 .. 7 /\ Cleanup[i] \in {"pas", "virq0", "virq1", "virq2", "virq3", "smp", "xo_lookup"}
        BY <3>3, CleanupLines
      <4>2. Cleanup[j] \in {"smp", "xo_lookup", "xo"}
        BY <3>3, CleanupLines
      <4> QED BY <2>3, <4>1, <4>2
    <3>4. CASE j \in 9 .. 11
      <4>1. i \in 1 .. 10 /\ Cleanup[i] \in {"pas", "virq0", "virq1", "virq2", "virq3", "smp", "xo_lookup",
                                          "xo", "proxy1", "proxy0"}
        BY <3>4, CleanupLines
      <4>2. Cleanup[j] \in {"proxy1", "proxy0", "nodes"}
        BY <3>4, CleanupLines
      <4>3. AudioNeeds(Cleanup[j]) \subseteq {"pd", "gsi0", "gsi1", "apcs_node", "qmp_node"}
        BY <2>3, <4>2
      <4> QED BY <4>1, <4>3
    <3>5. j \in 2 .. 19
      OBVIOUS
    <3> QED BY <3>1, <3>2, <3>3, <3>4, <3>5
  <2>5. Len(Cleanup) \in 0 .. 19
    BY <2>1
  <2>6. \A r : NeedsFor("audio", r) = AudioNeeds(r)
    BY DEF NeedsFor
  <2> QED BY <2>1, <2>2, <2>4, <2>5, <2>6, ZenonT(30) DEF ListOK
<1>2. /\ ListOK("lpi", LpiExit) /\ ListOK("lpi", LpiClks)
  BY OtherLines, AllResources DEF ListOK, NeedsFor, OtherNeeds
<1>3. /\ ListOK("lpi", <<"core_clk">>) /\ ListOK("lpi", <<"audio_clk", "core_clk">>)
      /\ ListOK("lpi", <<"lpi_node", "audio_lookup", "core_lookup", "audio_clk", "core_clk">>)
  BY AllResources DEF ListOK, NeedsFor, OtherNeeds
<1>4. ListOK("card", CardExit)
  BY OtherLines, AllResources DEF ListOK, NeedsFor, OtherNeeds
<1>5. /\ ListOK("card", <<"gpiod_table">>) /\ ListOK("card", <<"route", "gpiod_table">>)
      /\ ListOK("card", <<"driver", "route", "gpiod_table">>)
  BY AllResources DEF ListOK, NeedsFor, OtherNeeds
<1>6. ListOK("wcd", WcdPut) /\ ListOK("wcd", <<"codec">>)
  BY OtherLines, AllResources, ListRanges DEF ListOK, NeedsFor, OtherNeeds
<1> HIDE DEF ListOK
<1> QED BY <1>1, <1>2, <1>3, <1>4, <1>5, <1>6, AudioLists, OtherLists DEF Modules

(* When the group g cannot be taken, the unwinding releases what was, and    *)
(* what it releases untested was.                                            *)
FailOK(m, g, found) ==
    /\ Unwind(m, g) \in UnwindLists(m)
    /\ TakenBefore(m, g) \cup found \subseteq LinesOf(Unwind(m, g)) \cup NodeRefs
    /\ m # "audio" => (TakenBefore(m, g) \cup found) \cap NodeRefs = {}
    /\ \A r \in LinesOf(Unwind(m, g)) : r \in Tested \cup TakenBefore(m, g)

LEMMA TestedFacts ==
    /\ Range(Cleanup) \subseteq Tested /\ Range(WcdPut) \subseteq Tested
    /\ Range(LpiClks) \subseteq Tested /\ "codec" \in Tested
BY DEF Tested

LEMMA AudioFails ==
    \A g \in 1 .. 15 : \A found \in SUBSET InitOrder("audio")[g] : FailOK("audio", g, found)
<1> SUFFICES ASSUME NEW g \in 1 .. 15, NEW found \in SUBSET InitOrder("audio")[g]
             PROVE  FailOK("audio", g, found)
  OBVIOUS
<1>1. Unwind("audio", g) = Cleanup /\ Cleanup \in UnwindLists("audio")
  BY DEF Unwind, UnwindLists, Exit
<1>2. LinesOf(Cleanup) = Range(Cleanup)
  BY CleanupLines DEF LinesOf, Range
<1>3. TakenBefore("audio", g) \cup found \subseteq TakenBefore("audio", 16)
  BY DEF TakenBefore
<1> QED BY <1>1, <1>2, <1>3, LastGroup, AllResources, TestedFacts DEF FailOK

LEMMA LpiFails == \A g \in 2 .. 6 : FailOK("lpi", g, {})
<1>1. /\ TakenBefore("lpi", 2) = {"core_clk"} /\ TakenBefore("lpi", 3) = {"core_clk", "audio_clk"}
      /\ TakenBefore("lpi", 4) = {"core_clk", "audio_clk", "core_lookup"}
      /\ TakenBefore("lpi", 5) = {"core_clk", "audio_clk", "core_lookup", "audio_lookup"}
      /\ TakenBefore("lpi", 6) = {"core_clk", "audio_clk", "core_lookup", "audio_lookup", "lpi_node"}
  BY OtherGroups DEF TakenBefore
<1>2. \A g \in 2 .. 6 : Unwind("lpi", g) = LpiUnwind(g) /\ LpiUnwind(g) \in UnwindLists("lpi")
  BY OrderLengths DEF Unwind, UnwindLists
<1>3. /\ LinesOf(LpiUnwind(2)) = {"core_clk"} /\ LinesOf(LpiUnwind(3)) = {"core_clk", "audio_clk"}
      /\ LinesOf(LpiUnwind(4)) = Range(LpiClks) /\ LinesOf(LpiUnwind(5)) = Range(LpiClks)
      /\ LinesOf(LpiUnwind(6)) = Range(LpiClks) \cup {"lpi_node"}
  <2>1. LinesOf(LpiClks) = Range(LpiClks)
    BY OtherLines DEF LinesOf, Range
  <2>2. LinesOf(<<"core_clk">>) = {"core_clk"} /\ LinesOf(<<"audio_clk", "core_clk">>) = {"core_clk", "audio_clk"}
    BY DEF LinesOf
  <2>3. LinesOf(<<"lpi_node", "audio_lookup", "core_lookup", "audio_clk", "core_clk">>)
          = {"lpi_node", "audio_lookup", "core_lookup", "audio_clk", "core_clk"}
    BY DEF LinesOf
  <2> QED BY <2>1, <2>2, <2>3, LpiLists, ListRanges
<1>4. \A g \in 2 .. 6 : g \in {2, 3, 4, 5, 6}
  OBVIOUS
<1> QED BY <1>1, <1>2, <1>3, <1>4, ListRanges, TestedFacts DEF FailOK, NodeRefs

LEMMA CardFails == \A g \in 2 .. 4 : FailOK("card", g, {})
<1>1. /\ TakenBefore("card", 2) = {"gpiod_table"} /\ TakenBefore("card", 3) = {"gpiod_table", "route"}
      /\ TakenBefore("card", 4) = {"gpiod_table", "route", "driver"}
  BY OtherGroups DEF TakenBefore
<1>2. \A g \in 2 .. 4 : Unwind("card", g) = CardUnwind(g) /\ CardUnwind(g) \in UnwindLists("card")
  BY OrderLengths DEF Unwind, UnwindLists
<1>3. /\ LinesOf(CardUnwind(2)) = {"gpiod_table"} /\ LinesOf(CardUnwind(3)) = {"gpiod_table", "route"}
      /\ LinesOf(CardUnwind(4)) = {"gpiod_table", "route", "driver"}
  BY CardLists DEF LinesOf
<1>4. \A g \in 2 .. 4 : g \in {2, 3, 4}
  OBVIOUS
<1> QED BY <1>1, <1>2, <1>3, <1>4 DEF FailOK, NodeRefs

(* ---------------------------------------------------------- the invariant *)
Own(m) ==
    /\ OutInStep(m) /\ ExitInStep(m)
    /\ \A i \in line[m] .. Len(todo[m]) : todo[m][i] \in Tested \cup held[m]
    /\ IF m = "wcd" THEN WcdInStep ELSE InitInStep(m) /\ LiveInStep(m)

Same(m) ==
    /\ at'[m] = at[m] /\ step'[m] = step[m] /\ todo'[m] = todo[m]
    /\ line'[m] = line[m] /\ held'[m] = held[m]

LEMMA OwnSplit == ModulesInv <=> ModulesTypeOK /\ AdspInStep /\ \A m \in Modules : Own(m)
BY Zenon DEF ModulesInv, Own, UntestedWasTaken, Modules

LEMMA SameOwn == ASSUME NEW m \in Modules, Own(m), Same(m) PROVE Own(m)'
<1>1. Left(m)' = Left(m)
  BY DEF Same, Left
<1>2. OutInStep(m)' /\ ExitInStep(m)'
  BY <1>1 DEF Own, Same, OutInStep, ExitInStep
<1>3. (\A i \in line[m] .. Len(todo[m]) : todo[m][i] \in Tested \cup held[m])'
  BY DEF Own, Same
<1>4. ASSUME m # "wcd" PROVE InitInStep(m)' /\ LiveInStep(m)'
  BY <1>4 DEF Own, Same, InitInStep, LiveInStep
<1>5. ASSUME m = "wcd" PROVE WcdInStep'
  BY <1>1, <1>5 DEF Own, Same, WcdInStep
<1> QED BY <1>2, <1>3, <1>4, <1>5 DEF Own

(* A step of one module leaves the others alone. *)
LEMMA Local ==
    ASSUME ModulesInv, NEW m \in Modules, \A n \in Modules \ {m} : Same(n),
           ModulesTypeOK', AdspInStep', Own(m)'
    PROVE  ModulesInv'
<1>1. \A n \in Modules : Own(n)'
  BY OwnSplit, SameOwn
<1>2. /\ \A n \in Modules : OutInStep(n)' /\ ExitInStep(n)'
      /\ \A n \in Modules \ {"wcd"} : InitInStep(n)' /\ LiveInStep(n)'
  BY <1>1, Zenon DEF Own
<1>3. WcdInStep'
  BY <1>1, Zenon DEF Own, Modules
<1>4. UntestedWasTaken'
  BY <1>1, Zenon DEF Own, UntestedWasTaken
<1> QED BY <1>2, <1>3, <1>4 DEF ModulesInv

LEMMA WcdLists == WcdPut \in UnwindLists("wcd") /\ <<"codec">> \in UnwindLists("wcd")
<1>1. 2 \in 2 .. Len(InitOrder("wcd"))
  BY OrderLengths
<1>2. Unwind("wcd", 2) = WcdPut /\ Exit("wcd") = <<"codec">>
  BY DEF Unwind, Exit
<1> QED BY <1>1, <1>2, Zenon DEF UnwindLists

(* The shape every step of one module shares: what m holds and unwinds by is *)
(* among the resources and the lists of the four modules.                    *)
LEMMA GroupFacts ==
    ASSUME NEW m \in Modules, NEW g \in 1 .. Len(InitOrder(m))
    PROVE  /\ g \in 1 .. 15 /\ g + 1 \in 1 .. 16 /\ g + 1 \in 1 .. Len(InitOrder(m)) + 1
           /\ TakenBefore(m, g + 1) = TakenBefore(m, g) \cup InitOrder(m)[g]
           /\ TakenBefore(m, g + 1) \subseteq ResourcesOf(m)
<1>1. Len(InitOrder(m)) \in 1 .. 15
  BY OrderLengths DEF Modules
<1>2. g \in 1 .. 15 /\ g + 1 \in Nat /\ Len(InitOrder(m)) + 1 \in Nat /\ g + 1 <= Len(InitOrder(m)) + 1
  <2>1. \A n \in 1 .. 15 : \A k \in 1 .. n : k \in 1 .. 15 /\ k + 1 \in Nat /\ n + 1 \in Nat /\ k + 1 <= n + 1
    OBVIOUS
  <2> QED BY <1>1, <2>1, Zenon
<1>3. TakenBefore(m, g + 1) = TakenBefore(m, g) \cup InitOrder(m)[g]
  BY <1>2, TakenNext
<1>4. TakenBefore(m, g + 1) \subseteq TakenBefore(m, Len(InitOrder(m)) + 1)
  BY <1>2, TakenGrows
<1> QED BY <1>1, <1>2, <1>3, <1>4 DEF ResourcesOf

(* Loading, and an init that gives up before it has taken anything. *)
LEMMA LoadInv == ASSUME ModulesInv, NEW m \in Modules, Load(m) PROVE ModulesInv'
<1>t. ModulesTypeOK /\ AdspInStep /\ Own(m)
  BY OwnSplit
<1>1. /\ at[m] = "out" /\ at'[m] = "init" /\ held'[m] = {} /\ step'[m] = 1 /\ todo'[m] = <<>>
      /\ step[m] = 1 /\ todo[m] = <<>> /\ line'[m] = line[m] /\ adsp' = adsp
  BY <1>t DEF Load, ModulesTypeOK, Own, OutInStep
<1>2. \A n \in Modules \ {m} : Same(n)
  BY <1>t DEF Load, Same, ModulesTypeOK
<1>3. ModulesTypeOK'
  <2>1. mode' \in BOOLEAN
    BY <1>t, ModulesAssumption DEF Load, ModulesTypeOK
  <2> QED BY <1>t, <2>1 DEF Load, ModulesTypeOK
<1>4. AdspInStep'
  BY <1>t, <1>1, <1>2 DEF AdspInStep, Same, Modules
<1>5. TakenBefore(m, 1) = {}
  BY DEF TakenBefore
<1>6. Own(m)'
  <2>1. OutInStep(m)' /\ ExitInStep(m)'
    BY <1>1 DEF OutInStep, ExitInStep
  <2>2. (\A i \in line[m] .. Len(todo[m]) : todo[m][i] \in Tested \cup held[m])'
    <3>1. line'[m] \in Nat /\ line'[m] > 0 /\ Len(todo'[m]) = 0
      BY <1>t, <1>1 DEF ModulesTypeOK
    <3> QED BY <3>1
  <2>3. ASSUME m # "wcd" PROVE InitInStep(m)' /\ LiveInStep(m)'
    <3>1. 1 \in 1 .. Len(InitOrder(m)) + 1
      BY <2>3, OrderLengths DEF Modules
    <3> QED BY <1>1, <1>5, <3>1 DEF InitInStep, LiveInStep
  <2>4. ASSUME m = "wcd" PROVE WcdInStep'
    BY <1>1, <1>5, <2>4 DEF WcdInStep
  <2> QED BY <2>1, <2>2, <2>3, <2>4 DEF Own
<1> QED BY <1>2, <1>3, <1>4, <1>6, Local

LEMMA ReturnErrorInv == ASSUME ModulesInv, NEW m \in Modules, ReturnError(m) PROVE ModulesInv'
<1>t. ModulesTypeOK /\ AdspInStep /\ Own(m)
  BY OwnSplit
<1>0. m # "wcd"
  BY DEF ReturnError
<1>1. /\ at[m] = "init" /\ at'[m] = "out" /\ held'[m] = {} /\ step'[m] = 1 /\ todo'[m] = <<>>
      /\ step[m] = 1 /\ todo[m] = <<>> /\ line'[m] = line[m] /\ adsp' = adsp
  BY <1>t, <1>0 DEF ReturnError, ModulesTypeOK, Own, InitInStep
<1>2. \A n \in Modules \ {m} : Same(n)
  BY <1>t DEF ReturnError, Same, ModulesTypeOK
<1>3. ModulesTypeOK'
  BY <1>t DEF ReturnError, ModulesTypeOK
<1>4. AdspInStep'
  BY <1>t, <1>1, <1>2 DEF AdspInStep, Same, Modules
<1>6. Own(m)'
  <2>1. OutInStep(m)' /\ ExitInStep(m)' /\ InitInStep(m)' /\ LiveInStep(m)'
    BY <1>1 DEF OutInStep, ExitInStep, InitInStep, LiveInStep
  <2>2. (\A i \in line[m] .. Len(todo[m]) : todo[m][i] \in Tested \cup held[m])'
    <3>1. line'[m] \in Nat /\ line'[m] > 0 /\ Len(todo'[m]) = 0
      BY <1>t, <1>1 DEF ModulesTypeOK
    <3> QED BY <3>1
  <2> QED BY <1>0, <2>1, <2>2 DEF Own
<1> QED BY <1>2, <1>3, <1>4, <1>6, Local

(* The groups of an init function. *)
LEMMA SingletonFails ==
    ASSUME NEW m \in {"lpi", "card"}, NEW g \in 1 .. Len(InitOrder(m)),
           NEW found \in SUBSET InitOrder(m)[g],
           InitOrder(m)[g] = {"gpiod_table"} \/ (m = "lpi" /\ g = 1) => found = InitOrder(m)[g],
           found # InitOrder(m)[g] \/ found \cap CheckedAfter # {}
    PROVE  g >= 2 /\ found = {}
<1>1. CASE m = "lpi"
  <2>1. g \in 1 .. 6
    BY <1>1, OrderLengths
  <2>2. \A k \in {1, 2, 3, 4, 5, 6} : \E x : InitOrder("lpi")[k] = {x} /\ x \notin CheckedAfter
    <3>1. \A x \in {"core_clk", "audio_clk", "core_lookup", "audio_lookup", "lpi_node", "lpi_pdev"} : x \notin CheckedAfter
      BY DEF CheckedAfter
    <3> QED BY <3>1, OtherGroups, Zenon
  <2>3. PICK x : InitOrder(m)[g] = {x} /\ x \notin CheckedAfter
    <3>1. g \in {1, 2, 3, 4, 5, 6}
      BY <2>1
    <3> QED BY <1>1, <2>2, <3>1, Zenon
  <2>4. found = {} /\ found # InitOrder(m)[g]
    BY <2>3
  <2> QED BY <1>1, <2>1, <2>4
<1>2. CASE m = "card"
  <2>1. g \in 1 .. 4
    BY <1>2, OrderLengths
  <2>2. \A k \in {1, 2, 3, 4} : \E x : InitOrder("card")[k] = {x} /\ x \notin CheckedAfter
    <3>1. \A x \in {"gpiod_table", "route", "driver", "card_dev"} : x \notin CheckedAfter
      BY DEF CheckedAfter
    <3> QED BY <3>1, OtherGroups, Zenon
  <2>3. PICK x : InitOrder(m)[g] = {x} /\ x \notin CheckedAfter
    <3>1. g \in {1, 2, 3, 4}
      BY <2>1
    <3> QED BY <1>2, <2>2, <3>1, Zenon
  <2>4. found = {} /\ found # InitOrder(m)[g]
    BY <2>3
  <2> QED BY <1>2, <2>1, <2>4, OtherGroups
<1> QED BY <1>1, <1>2

(* A module that begins to unwind by a list that covers what it holds. *)
BeginOK(m, list, h) ==
    /\ list \in UnwindLists(m)
    /\ h \subseteq LinesOf(list) \cup NodeRefs
    /\ m # "audio" => h \cap NodeRefs = {}
    /\ \A r \in LinesOf(list) : r \in Tested \cup h

LEMMA BeginOwn ==
    ASSUME ModulesTypeOK, NEW m \in Modules, NEW list, Begin(m, list), BeginOK(m, list, held'[m])
    PROVE  /\ Own(m)' /\ \A n \in Modules \ {m} : at'[n] = at[n] /\ step'[n] = step[n]
                                              /\ todo'[n] = todo[n] /\ line'[n] = line[n]
           /\ at' \in [Modules -> {"out", "init", "live", "exit"}]
           /\ step' \in [Modules -> 1 .. 16] /\ line' \in [Modules -> 1 .. 20]
           /\ todo' \in [Modules -> {<<>>} \cup UNION {UnwindLists(n) : n \in Modules}]
           /\ at'[m] = "exit" /\ line'[m] = 1 /\ todo'[m] = list
<1>1. at'[m] = "exit" /\ step'[m] = 1 /\ todo'[m] = list /\ line'[m] = 1
  BY DEF Begin, ModulesTypeOK
<1>2. Left(m)' = LinesOf(list)
  BY <1>1, Zenon DEF Left, LinesOf
<1>3. OutInStep(m)' /\ InitInStep(m)' /\ LiveInStep(m)'
  BY <1>1 DEF OutInStep, InitInStep, LiveInStep
<1>4. ExitInStep(m)'
  BY <1>1, <1>2 DEF ExitInStep, BeginOK
<1>5. (\A i \in line[m] .. Len(todo[m]) : todo[m][i] \in Tested \cup held[m])'
  BY <1>1, Zenon DEF BeginOK, LinesOf
<1>6. ASSUME m = "wcd" PROVE WcdInStep'
  BY <1>1, <1>6 DEF WcdInStep
<1>7. Own(m)'
  BY <1>3, <1>4, <1>5, <1>6, Zenon DEF Own
<1>8. \A n \in Modules \ {m} : at'[n] = at[n] /\ step'[n] = step[n] /\ todo'[n] = todo[n] /\ line'[n] = line[n]
  BY DEF Begin, ModulesTypeOK
<1>9. at' \in [Modules -> {"out", "init", "live", "exit"}] /\ step' \in [Modules -> 1 .. 16]
      /\ line' \in [Modules -> 1 .. 20]
  BY DEF Begin, ModulesTypeOK
<1>10. todo' \in [Modules -> {<<>>} \cup UNION {UnwindLists(n) : n \in Modules}]
  <2>1. list \in UNION {UnwindLists(n) : n \in Modules}
    BY DEF BeginOK
  <2> QED BY <2>1 DEF Begin, ModulesTypeOK
<1> QED BY <1>1, <1>7, <1>8, <1>9, <1>10

LEMMA TakeInv == ASSUME ModulesInv, NEW m \in Modules, Take(m) PROVE ModulesInv'
<1>t. ModulesTypeOK /\ AdspInStep /\ Own(m)
  BY OwnSplit
<1>0. m \in Plain /\ m # "wcd"
  BY DEF Take, Plain, Modules
<1>g. PICK g : g = step[m]
  OBVIOUS
<1>1. /\ at[m] = "init" /\ g \in 1 .. Len(InitOrder(m)) /\ held[m] = TakenBefore(m, g)
      /\ todo[m] = <<>> /\ line[m] \in 1 .. 20
  BY <1>t, <1>0, <1>g, OrderLengths DEF Take, ModulesTypeOK, Own, InitInStep, Plain
<1>2. PICK found \in SUBSET InitOrder(m)[g] : MayFind(m, found) /\ TakeFound(m, found)
  BY <1>g DEF Take, Group
<1>3. held' = [held EXCEPT ![m] = @ \cup found] /\ UNCHANGED <<chosen, mode, adsp, codec>>
  BY <1>2 DEF TakeFound, Take
<1>4. held'[m] = TakenBefore(m, g) \cup found /\ \A n \in Modules \ {m} : held'[n] = held[n]
  BY <1>1, <1>3, <1>t DEF ModulesTypeOK
<1>5. held'[m] \subseteq ResourcesOf(m)
  BY <1>1, <1>2, <1>4, GroupFacts
<1>6. held' \in [Modules -> SUBSET (UNION {ResourcesOf(n) : n \in Modules})]
  BY <1>t, <1>3, <1>4, <1>5 DEF ModulesTypeOK
<1>7. AdspInStep /\ ~(m = "audio" /\ adsp)
  BY <1>t, <1>1 DEF AdspInStep
<1>8. CASE found = Group(m) /\ step' = [step EXCEPT ![m] = @ + 1] /\ UNCHANGED <<at, todo, line>>
  <2>1. /\ at'[m] = "init" /\ step'[m] = g + 1 /\ todo'[m] = <<>> /\ line'[m] = line[m]
        /\ held'[m] = TakenBefore(m, g + 1)
    BY <1>t, <1>1, <1>4, <1>8, <1>g, GroupFacts DEF ModulesTypeOK, Group
  <2>2. \A n \in Modules \ {m} : Same(n)
    BY <1>t, <1>4, <1>8 DEF Same, ModulesTypeOK
  <2>3. ModulesTypeOK'
    <3>1. step' \in [Modules -> 1 .. 16]
      BY <1>t, <1>1, <1>8, <1>g, GroupFacts DEF ModulesTypeOK
    <3> QED BY <1>t, <1>3, <1>6, <1>8, <3>1 DEF ModulesTypeOK
  <2>4. AdspInStep'
    BY <1>3, <1>7, <2>2 DEF AdspInStep, Same, Modules
  <2>5. Own(m)'
    <3>1. OutInStep(m)' /\ ExitInStep(m)' /\ LiveInStep(m)'
      BY <2>1 DEF OutInStep, ExitInStep, LiveInStep
    <3>2. InitInStep(m)'
      BY <2>1, <1>1, GroupFacts DEF InitInStep
    <3>3. (\A i \in line[m] .. Len(todo[m]) : todo[m][i] \in Tested \cup held[m])'
      <4>1. line'[m] \in Nat /\ line'[m] > 0 /\ Len(todo'[m]) = 0
        <5>1. line'[m] \in 1 .. 20
          BY <1>1, <2>1, Zenon
        <5>2. Len(todo'[m]) = 0
          BY <2>1
        <5> QED BY <5>1, <5>2, SMTT(30)
      <4> QED BY <4>1
    <3> QED BY <1>0, <3>1, <3>2, <3>3 DEF Own
  <2> QED BY <2>2, <2>3, <2>4, <2>5, Local
<1>9. CASE (found # Group(m) \/ found \cap CheckedAfter # {}) /\ Begin(m, Unwind(m, step[m]))
  <2>1. FailOK(m, g, found)
    <3>1. CASE m = "audio"
      BY <1>1, <1>2, <3>1, AudioFails, OrderLengths
    <3>2. CASE m \in {"lpi", "card"}
      <4>1. g >= 2 /\ found = {}
        BY <1>1, <1>2, <1>9, <1>g, <3>2, SingletonFails DEF MayFind, Group
      <4>2. CASE m = "lpi"
        <5>1. g \in 2 .. 6
          <6>1. g \in 1 .. 6
            BY <1>1, <4>2, OrderLengths, Zenon
          <6> QED BY <6>1, <4>1
        <5> QED BY <4>1, <4>2, <5>1, LpiFails, Zenon
      <4>3. CASE m = "card"
        <5>1. g \in 2 .. 4
          <6>1. g \in 1 .. 4
            BY <1>1, <4>3, OrderLengths, Zenon
          <6> QED BY <6>1, <4>1
        <5> QED BY <4>1, <4>3, <5>1, CardFails, Zenon
      <4> QED BY <3>2, <4>2, <4>3
    <3> QED BY <1>0, <3>1, <3>2 DEF Plain
  <2>2. BeginOK(m, Unwind(m, g), held'[m])
    BY <1>4, <2>1 DEF FailOK, BeginOK
  <2>3. Begin(m, Unwind(m, g))
    BY <1>9, <1>g
  <2>4. /\ Own(m)' /\ \A n \in Modules \ {m} : at'[n] = at[n] /\ step'[n] = step[n]
                                              /\ todo'[n] = todo[n] /\ line'[n] = line[n]
        /\ at' \in [Modules -> {"out", "init", "live", "exit"}]
        /\ step' \in [Modules -> 1 .. 16] /\ line' \in [Modules -> 1 .. 20]
        /\ todo' \in [Modules -> {<<>>} \cup UNION {UnwindLists(n) : n \in Modules}]
    BY <1>t, <2>2, <2>3, BeginOwn
  <2>5. \A n \in Modules \ {m} : Same(n)
    BY <1>4, <2>4 DEF Same
  <2>6. ModulesTypeOK'
    BY <1>t, <1>3, <1>6, <2>4 DEF ModulesTypeOK
  <2>7. AdspInStep'
    BY <1>3, <1>7, <2>5 DEF AdspInStep, Same, Modules
  <2> QED BY <2>4, <2>5, <2>6, <2>7, Local
<1> QED BY <1>2, <1>8, <1>9 DEF TakeFound

(* The chained lookups of the wcd module. *)
LEMMA WcdTaken ==
    /\ TakenBefore("wcd", 8) = Range(WcdPut) /\ LinesOf(WcdPut) = Range(WcdPut)
    /\ LinesOf(<<"codec">>) = {"codec"}
<1>1. TakenBefore("wcd", 8) = {"glink", "apr", "q6afe", "rx_master", "tx_master", "rx", "tx"}
  BY OtherGroups DEF TakenBefore
<1>2. LinesOf(WcdPut) = Range(WcdPut)
  BY OtherLines DEF LinesOf, Range
<1>3. LinesOf(<<"codec">>) = {"codec"}
  BY DEF LinesOf
<1> QED BY <1>1, <1>2, <1>3, ListRanges

LEMMA WcdLookupInv == ASSUME ModulesInv, WcdLookup PROVE ModulesInv'
<1>t. ModulesTypeOK /\ AdspInStep /\ Own("wcd") /\ "wcd" \in Modules
  BY OwnSplit DEF Modules
<1>g. PICK g : g = step["wcd"]
  OBVIOUS
<1>1. /\ at["wcd"] = "init" /\ g \in 1 .. 7 /\ held["wcd"] \subseteq TakenBefore("wcd", g)
      /\ todo["wcd"] = <<>> /\ line["wcd"] \in 1 .. 20
  BY <1>t, <1>g DEF WcdLookup, ModulesTypeOK, Own, WcdInStep
<1>2. PICK r \in WcdOrder[g] :
        held' = [held EXCEPT !["wcd"] = IF Findable("wcd", r) THEN @ \cup {r} ELSE @]
  BY <1>g DEF WcdLookup
<1>3. r \in InitOrder("wcd")[g] /\ g \in 1 .. Len(InitOrder("wcd"))
  <2>1. InitOrder("wcd") = WcdOrder
    BY DEF InitOrder
  <2> QED BY <1>1, <1>2, <2>1, OrderLengths
<1>4. held'["wcd"] \subseteq held["wcd"] \cup {r} /\ \A n \in Modules \ {"wcd"} : held'[n] = held[n]
  BY <1>2, <1>t DEF ModulesTypeOK
<1>5. held'["wcd"] \subseteq TakenBefore("wcd", g + 1) /\ held'["wcd"] \subseteq ResourcesOf("wcd")
  BY <1>t, <1>1, <1>3, <1>4, GroupFacts, SMTT(30)
<1>6. held' \in [Modules -> SUBSET (UNION {ResourcesOf(n) : n \in Modules})]
  BY <1>t, <1>2, <1>4, <1>5 DEF ModulesTypeOK
<1>7. /\ at'["wcd"] = "init" /\ step'["wcd"] = g + 1 /\ todo'["wcd"] = <<>> /\ line'["wcd"] = line["wcd"]
      /\ step' = [step EXCEPT !["wcd"] = g + 1] /\ UNCHANGED <<at, todo, line, mode, adsp, codec>>
  BY <1>t, <1>1, <1>g DEF WcdLookup, ModulesTypeOK
<1>8. \A n \in Modules \ {"wcd"} : Same(n)
  BY <1>t, <1>4, <1>7 DEF Same, ModulesTypeOK
<1>9. ModulesTypeOK'
  <2>1. step' \in [Modules -> 1 .. 16]
    BY <1>t, <1>1, <1>7 DEF ModulesTypeOK
  <2> QED BY <1>t, <1>6, <1>7, <2>1 DEF ModulesTypeOK
<1>10. AdspInStep'
  BY <1>t, <1>7, <1>8 DEF AdspInStep, Same, Modules
<1>11. Own("wcd")'
  <2>1. OutInStep("wcd")' /\ ExitInStep("wcd")'
    BY <1>7 DEF OutInStep, ExitInStep
  <2>2. WcdInStep'
    BY <1>1, <1>5, <1>7 DEF WcdInStep
  <2>3. (\A i \in line["wcd"] .. Len(todo["wcd"]) : todo["wcd"][i] \in Tested \cup held["wcd"])'
    <3>1. line'["wcd"] \in Nat /\ line'["wcd"] > 0 /\ Len(todo'["wcd"]) = 0
      BY <1>1, <1>7, SMTT(30)
    <3> QED BY <3>1
  <2> QED BY <2>1, <2>2, <2>3 DEF Own
<1> QED BY <1>t, <1>8, <1>9, <1>10, <1>11, Local

LEMMA WcdRegisterInv == ASSUME ModulesInv, WcdRegister PROVE ModulesInv'
<1>t. ModulesTypeOK /\ AdspInStep /\ Own("wcd") /\ "wcd" \in Modules
  BY OwnSplit DEF Modules
<1>1. /\ at["wcd"] = "init" /\ step["wcd"] = 8 /\ held["wcd"] \subseteq Range(WcdPut)
      /\ todo["wcd"] = <<>> /\ adsp' = adsp /\ mode' = mode
  BY <1>t, WcdTaken DEF WcdRegister, ModulesTypeOK, Own, WcdInStep
<1>2. CASE /\ held' = [held EXCEPT !["wcd"] = @ \cup {"codec"}]
           /\ codec' = IF "nodes" \in held["audio"] THEN "valid" ELSE "dangling"
           /\ step' = [step EXCEPT !["wcd"] = 9]
           /\ todo' = [todo EXCEPT !["wcd"] = WcdPut] /\ line' = [line EXCEPT !["wcd"] = 1]
           /\ UNCHANGED at
  <2>1. /\ at'["wcd"] = "init" /\ step'["wcd"] = 9 /\ todo'["wcd"] = WcdPut /\ line'["wcd"] = 1
        /\ held'["wcd"] = held["wcd"] \cup {"codec"}
    BY <1>t, <1>1, <1>2 DEF ModulesTypeOK
  <2>2. \A n \in Modules \ {"wcd"} : Same(n)
    BY <1>t, <1>2 DEF Same, ModulesTypeOK
  <2>3. ModulesTypeOK'
    <3>1. held'["wcd"] \subseteq ResourcesOf("wcd")
      BY <1>1, <2>1, AllResources
    <3>2. held' \in [Modules -> SUBSET (UNION {ResourcesOf(n) : n \in Modules})]
      BY <1>t, <1>2, <2>1, <3>1 DEF ModulesTypeOK
    <3>3. todo' \in [Modules -> {<<>>} \cup UNION {UnwindLists(n) : n \in Modules}]
      BY <1>t, <1>2, WcdLists DEF ModulesTypeOK
    <3>4. codec' \in {"none", "valid", "dangling"}
      BY <1>2
    <3>5. step' \in [Modules -> 1 .. 16] /\ line' \in [Modules -> 1 .. 20]
      BY <1>t, <1>2, SMTT(30) DEF ModulesTypeOK
    <3> QED BY <1>t, <1>1, <1>2, <3>2, <3>3, <3>4, <3>5 DEF ModulesTypeOK
  <2>4. AdspInStep'
    BY <1>t, <1>1, <2>2 DEF AdspInStep, Same, Modules
  <2>5. Left("wcd")' = Range(WcdPut)
    BY <2>1, WcdTaken, Zenon DEF Left, LinesOf
  <2>6. Own("wcd")'
    <3>1. OutInStep("wcd")' /\ ExitInStep("wcd")'
      BY <2>1 DEF OutInStep, ExitInStep
    <3>2. WcdInStep'
      BY <1>1, <2>1, <2>5 DEF WcdInStep
    <3>3. (\A i \in line["wcd"] .. Len(todo["wcd"]) : todo["wcd"][i] \in Tested \cup held["wcd"])'
      BY <2>5, TestedFacts, Zenon DEF Left
    <3> QED BY <3>1, <3>2, <3>3 DEF Own
  <2> QED BY <1>t, <2>2, <2>3, <2>4, <2>6, Local
<1>3. CASE UNCHANGED <<held, codec>> /\ Begin("wcd", WcdPut)
  <2>1. BeginOK("wcd", WcdPut, held'["wcd"])
    <3>1. held'["wcd"] \subseteq Range(WcdPut)
      BY <1>1, <1>3
    <3>2. Range(WcdPut) \cap NodeRefs = {}
      BY ListRanges DEF NodeRefs
    <3> QED BY <3>1, <3>2, WcdTaken, WcdLists, TestedFacts DEF BeginOK
  <2>2. /\ Own("wcd")' /\ \A n \in Modules \ {"wcd"} : at'[n] = at[n] /\ step'[n] = step[n]
                                              /\ todo'[n] = todo[n] /\ line'[n] = line[n]
        /\ at' \in [Modules -> {"out", "init", "live", "exit"}]
        /\ step' \in [Modules -> 1 .. 16] /\ line' \in [Modules -> 1 .. 20]
        /\ todo' \in [Modules -> {<<>>} \cup UNION {UnwindLists(n) : n \in Modules}]
    BY <1>t, <1>3, <2>1, BeginOwn
  <2>3. \A n \in Modules \ {"wcd"} : Same(n)
    BY <1>3, <2>2 DEF Same
  <2>4. ModulesTypeOK'
    BY <1>t, <1>1, <1>3, <2>2 DEF ModulesTypeOK
  <2>5. AdspInStep'
    BY <1>t, <1>1, <2>3 DEF AdspInStep, Same, Modules
  <2> QED BY <1>t, <2>2, <2>3, <2>4, <2>5, Local
<1> QED BY <1>2, <1>3 DEF WcdRegister

(* return 0. *)
LEMMA NoneDue ==
    ASSUME NEW m \in Modules, Due(m) = {}
    PROVE  \A i \in line[m] .. Len(todo[m]) : todo[m][i] \in Tested /\ todo[m][i] \notin held[m]
BY DEF Due

LEMMA LiveInv == ASSUME ModulesInv, NEW m \in Modules, Live(m) PROVE ModulesInv'
<1>t. ModulesTypeOK /\ AdspInStep /\ Own(m)
  BY OwnSplit
<1>1. /\ at[m] = "init" /\ at'[m] = "live" /\ at' = [at EXCEPT ![m] = "live"]
      /\ UNCHANGED <<step, todo, line, held, mode, adsp, codec>>
  BY <1>t DEF Live, ModulesTypeOK
<1>2. \A n \in Modules \ {m} : Same(n)
  BY <1>t, <1>1 DEF Same, ModulesTypeOK
<1>3. ModulesTypeOK'
  BY <1>t, <1>1 DEF ModulesTypeOK
<1>4. AdspInStep'
  BY <1>t, <1>1, <1>2 DEF AdspInStep, Same, Modules
<1>5. OutInStep(m)' /\ ExitInStep(m)'
  BY <1>1 DEF OutInStep, ExitInStep
<1>6. (\A i \in line[m] .. Len(todo[m]) : todo[m][i] \in Tested \cup held[m])'
  BY <1>1, <1>t DEF Own
<1>7. ASSUME m # "wcd" PROVE InitInStep(m)' /\ LiveInStep(m)'
  <2>1. /\ step[m] \in 1 .. Len(InitOrder(m)) + 1 /\ held[m] = TakenBefore(m, step[m]) /\ todo[m] = <<>>
    BY <1>t, <1>1, <1>7 DEF Own, InitInStep
  <2>2. CASE step[m] > Len(InitOrder(m))
    <3>1. Len(InitOrder(m)) \in Nat
      BY OrderLengths DEF Modules
    <3>2. step[m] = Len(InitOrder(m)) + 1
      BY <2>1, <2>2, <3>1
    <3>3. held[m] = ResourcesOf(m)
      BY <2>1, <3>2, Zenon DEF ResourcesOf
    <3> QED BY <1>1, <2>1, <3>3 DEF InitInStep, LiveInStep
  <2>3. CASE m = "audio" /\ step[m] = 3
    BY <1>1, <2>1, <2>3 DEF InitInStep, LiveInStep
  <2> QED BY <2>2, <2>3 DEF Live
<1>8. ASSUME m = "wcd" PROVE WcdInStep'
  <2>1. step["wcd"] > 8 /\ Due("wcd") = {}
    BY <1>8, OrderLengths DEF Live
  <2>2. todo["wcd"] = WcdPut /\ "codec" \in held["wcd"] /\ held["wcd"] \subseteq Left("wcd") \cup {"codec"}
    BY <1>t, <1>1, <1>8, <2>1 DEF Own, WcdInStep
  <2>3. Left("wcd") \cap held["wcd"] = {}
    BY <2>1, <1>8, NoneDue, Zenon DEF Left
  <2>4. held["wcd"] = {"codec"}
    BY <2>2, <2>3
  <2> QED BY <1>1, <1>8, <2>2, <2>4 DEF WcdInStep
<1>9. Own(m)'
  BY <1>5, <1>6, <1>7, <1>8 DEF Own
<1> QED BY <1>2, <1>3, <1>4, <1>9, Local

(* rmmod: the exit function gives back all that the loaded module holds. *)
LEMMA ExitCovers ==
    ASSUME ModulesTypeOK, NEW m \in Modules, Own(m), at[m] = "live"
    PROVE  BeginOK(m, Exit(m), held[m])
<1>0. Exit(m) \in UnwindLists(m)
  BY DEF UnwindLists
<1>1. CASE m = "audio"
  <2>1. LinesOf(Cleanup) = Range(Cleanup)
    BY CleanupLines DEF LinesOf, Range
  <2>2. held["audio"] = ResourcesOf("audio") \/ held["audio"] = TakenBefore("audio", 3)
    BY <1>1 DEF Own, LiveInStep
  <2>3. TakenBefore("audio", 3) \subseteq ResourcesOf("audio")
    BY LastGroup, TakenGrows
  <2>4. Exit(m) = Cleanup
    BY <1>1 DEF Exit
  <2> QED BY <1>0, <1>1, <2>1, <2>2, <2>3, <2>4, AllResources, TestedFacts DEF BeginOK
<1>2. CASE m = "lpi"
  <2>1. LinesOf(LpiExit) = ResourcesOf("lpi")
    BY OtherLines, AllResources DEF LinesOf
  <2>2. held["lpi"] = ResourcesOf("lpi") /\ Exit(m) = LpiExit
    BY <1>2 DEF Own, LiveInStep, Exit
  <2>3. ResourcesOf("lpi") \cap NodeRefs = {}
    BY AllResources DEF NodeRefs
  <2> QED BY <1>0, <1>2, <2>1, <2>2, <2>3 DEF BeginOK
<1>3. CASE m = "card"
  <2>1. LinesOf(CardExit) = ResourcesOf("card")
    BY OtherLines, AllResources DEF LinesOf
  <2>2. held["card"] = ResourcesOf("card") /\ Exit(m) = CardExit
    BY <1>3 DEF Own, LiveInStep, Exit
  <2>3. ResourcesOf("card") \cap NodeRefs = {}
    BY AllResources DEF NodeRefs
  <2> QED BY <1>0, <1>3, <2>1, <2>2, <2>3 DEF BeginOK
<1>4. CASE m = "wcd"
  <2>1. held["wcd"] = {"codec"} /\ Exit(m) = <<"codec">>
    BY <1>4 DEF Own, WcdInStep, Exit
  <2>2. {"codec"} \cap NodeRefs = {}
    BY DEF NodeRefs
  <2> QED BY <1>0, <1>4, <2>1, <2>2, WcdTaken DEF BeginOK
<1> QED BY <1>1, <1>2, <1>3, <1>4 DEF Modules

LEMMA RmmodInv == ASSUME ModulesInv, NEW m \in Modules, Rmmod(m) PROVE ModulesInv'
<1>t. ModulesTypeOK /\ AdspInStep /\ Own(m)
  BY OwnSplit
<1>1. at[m] = "live" /\ Begin(m, Exit(m)) /\ UNCHANGED <<held, mode, adsp, codec>>
  BY DEF Rmmod
<1>2. BeginOK(m, Exit(m), held'[m])
  BY <1>t, <1>1, ExitCovers
<1>3. /\ Own(m)' /\ \A n \in Modules \ {m} : at'[n] = at[n] /\ step'[n] = step[n]
                                          /\ todo'[n] = todo[n] /\ line'[n] = line[n]
      /\ at' \in [Modules -> {"out", "init", "live", "exit"}]
      /\ step' \in [Modules -> 1 .. 16] /\ line' \in [Modules -> 1 .. 20]
      /\ todo' \in [Modules -> {<<>>} \cup UNION {UnwindLists(n) : n \in Modules}]
      /\ at'[m] = "exit" /\ line'[m] = 1
  BY <1>t, <1>1, <1>2, BeginOwn
<1>4. \A n \in Modules \ {m} : Same(n)
  BY <1>1, <1>3 DEF Same
<1>5. ModulesTypeOK'
  BY <1>t, <1>1, <1>3 DEF ModulesTypeOK
<1>6. AdspInStep'
  BY <1>t, <1>1, <1>3, <1>4 DEF AdspInStep, Same, Modules
<1> QED BY <1>3, <1>4, <1>5, <1>6, Local

(* One line of an unwinding. *)
LEMMA ReleasingList ==
    ASSUME ModulesTypeOK, NEW m \in Modules, Own(m), Due(m) # {}
    PROVE  /\ todo[m] \in UnwindLists(m)
           /\ at[m] = "exit" \/ (m = "wcd" /\ at[m] = "init" /\ step[m] = 9 /\ todo[m] = WcdPut)
<1>1. ASSUME todo[m] = <<>> PROVE FALSE
  <2>1. line[m] \in 1 .. 20 /\ Len(todo[m]) = 0
    BY <1>1 DEF ModulesTypeOK
  <2> QED BY <2>1 DEF Due
<1>2. CASE at[m] = "exit"
  BY <1>2 DEF Own, ExitInStep
<1>3. CASE at[m] # "exit" /\ m # "wcd"
  BY <1>1, <1>3 DEF Own, OutInStep, InitInStep, LiveInStep, ModulesTypeOK
<1>4. CASE at[m] = "out"
  BY <1>1, <1>4 DEF Own, OutInStep
<1>5. CASE m = "wcd" /\ at[m] = "live"
  <2>1. held["wcd"] = {"codec"} /\ todo["wcd"] = WcdPut
    BY <1>5 DEF Own, WcdInStep
  <2>2. \A i \in 1 .. 7 : WcdPut[i] \in Tested /\ WcdPut[i] # "codec"
    BY OtherLines, ListRanges, TestedFacts
  <2>3. Due("wcd") = {}
    <3>1. line["wcd"] \in 1 .. 20
      BY <1>5 DEF ModulesTypeOK
    <3>2. Due("wcd") = {j \in line["wcd"] .. 7 : WcdPut[j] \in Tested => WcdPut[j] \in {"codec"}}
      BY <2>1, OtherLines, Zenon DEF Due
    <3>3. \A j \in line["wcd"] .. 7 : j \in 1 .. 7
      BY <3>1
    <3> QED BY <2>2, <3>2, <3>3
  <2> QED BY <1>5, <2>3
<1>6. CASE m = "wcd" /\ at[m] = "init"
  <2>1. step["wcd"] \in 1 .. 16
    BY <1>6 DEF ModulesTypeOK
  <2>2. step["wcd"] = 9 /\ todo["wcd"] = WcdPut
    BY <1>1, <1>6, <2>1 DEF Own, WcdInStep
  <2> QED BY <1>6, <2>2, WcdLists
<1>7. at[m] \in {"out", "init", "live", "exit"}
  BY DEF ModulesTypeOK
<1> QED BY <1>2, <1>3, <1>4, <1>5, <1>6, <1>7

LEMMA ReleaseInv ==
    ASSUME ModulesInv, NEW m \in Modules, NEW i \in 1 .. Len(todo[m]), ReleaseLine(m, i)
    PROVE  ModulesInv'
<1>t. ModulesTypeOK /\ AdspInStep /\ Own(m)
  BY OwnSplit
<1>l. PICK l : l = todo[m]
  OBVIOUS
<1>n. PICK k : k = line[m] /\ k \in 1 .. 20
  BY <1>t DEF ModulesTypeOK
<1>d. i \in Due(m) /\ \A j \in Due(m) : i <= j
  BY DEF ReleaseLine
<1>1. /\ l \in UnwindLists(m) /\ ListOK(m, l)
      /\ at[m] = "exit" \/ (m = "wcd" /\ at[m] = "init" /\ step[m] = 9 /\ l = WcdPut)
  BY <1>t, <1>l, <1>d, ReleasingList, ListsOK
<1>2. Len(l) \in 0 .. 19 /\ i \in k .. Len(l) /\ i + 1 \in 1 .. 20
  <2>1. Len(l) \in 0 .. 19
    BY <1>1 DEF ListOK
  <2>2. i \in k .. Len(l)
    BY <1>l, <1>n, <1>d, Zenon DEF Due
  <2>3. \A a \in 1 .. 20 : \A n \in 0 .. 19 : \A j \in a .. n : j + 1 \in 1 .. 20
    OBVIOUS
  <2> QED BY <1>n, <2>1, <2>2, <2>3, Zenon
<1>3. \A j \in k .. Len(l) : j < i => l[j] \in Tested /\ l[j] \notin held[m]
  BY <1>d, <1>l, <1>n, <1>2 DEF Due
<1>4. /\ at'[m] = at[m] /\ step'[m] = step[m] /\ todo'[m] = l /\ line'[m] = i + 1
      /\ held'[m] = held[m] \ {l[i]}
  BY <1>t, <1>l DEF ReleaseLine, ModulesTypeOK
<1>5. \A n \in Modules \ {m} : Same(n)
  BY <1>t DEF ReleaseLine, Same, ModulesTypeOK
<1>6. ModulesTypeOK'
  <2>1. adsp' \in BOOLEAN
    BY Zenon DEF ReleaseLine
  <2>2. codec' \in {"none", "valid", "dangling"}
    BY <1>t DEF ReleaseLine, ModulesTypeOK
  <2>3. line' \in [Modules -> 1 .. 20]
    BY <1>t, <1>2 DEF ReleaseLine, ModulesTypeOK
  <2>4. held' \in [Modules -> SUBSET (UNION {ResourcesOf(n) : n \in Modules})]
    BY <1>t DEF ReleaseLine, ModulesTypeOK
  <2>5. UNCHANGED <<at, step, todo, mode>>
    BY DEF ReleaseLine
  <2> QED BY <1>t, <2>1, <2>2, <2>3, <2>4, <2>5 DEF ModulesTypeOK
<1>7. AdspInStep'
  <2>1. adsp' => adsp
    BY Zenon DEF ReleaseLine
  <2>2. CASE m # "audio"
    BY <1>t, <1>5, <2>1, <2>2 DEF AdspInStep, Same, Modules
  <2>3. ASSUME m = "audio", adsp PROVE ~adsp'
    <3>1. l = Cleanup /\ k = 1 /\ "pas" \in held[m]
      BY <1>t, <1>1, <1>n, <2>3, AudioLists, AllResources, ListRanges DEF AdspInStep
    <3>2. 1 \in Due(m)
      BY <1>l, <1>n, <3>1, CleanupLines DEF Due
    <3>3. i = 1
      BY <1>d, <1>2, <3>2
    <3>4. todo[m][i] = "pas"
      BY <1>l, <3>1, <3>3, CleanupLines
    <3> QED BY <3>4, Zenon DEF ReleaseLine
  <2> QED BY <2>1, <2>2, <2>3 DEF AdspInStep
<1>8. Left(m) = {l[j] : j \in k .. Len(l)} /\ Left(m)' = {l[j] : j \in i + 1 .. Len(l)}
  BY <1>l, <1>n, <1>4, Zenon DEF Left
<1>9. (Left(m) \cap held[m]) \ {l[i]} \subseteq Left(m)'
  <2> SUFFICES ASSUME NEW x \in Left(m), x \in held[m], x # l[i] PROVE x \in Left(m)'
    OBVIOUS
  <2>1. PICK j \in k .. Len(l) : x = l[j]
    BY <1>8
  <2>2. ~(j < i) /\ j # i
    BY <1>3, <2>1
  <2>3. j \in i + 1 .. Len(l)
    BY <1>n, <1>2, <2>1, <2>2
  <2> QED BY <1>8, <2>1, <2>3
<1>10. \A j \in i + 1 .. Len(l) : l[j] \in Tested \cup held'[m]
  <2> SUFFICES ASSUME NEW j \in i + 1 .. Len(l) PROVE l[j] \in Tested \cup held'[m]
    OBVIOUS
  <2>1. j \in k .. Len(l) /\ j \in 1 .. Len(l) /\ i \in 1 .. Len(l) /\ i < j
    BY <1>n, <1>2
  <2>2. l[j] \in Tested \cup held[m]
    BY <1>t, <1>l, <1>n, <2>1 DEF Own
  <2>3. l[i] # l[j]
    BY <1>1, <2>1 DEF ListOK
  <2> QED BY <1>4, <2>2, <2>3
<1>11. Own(m)'
  <2>1. (\A j \in line[m] .. Len(todo[m]) : todo[m][j] \in Tested \cup held[m])'
    BY <1>4, <1>10, Zenon
  <2>2. CASE at[m] = "exit"
    <3>1. OutInStep(m)' /\ InitInStep(m)' /\ LiveInStep(m)'
      BY <1>4, <2>2 DEF OutInStep, InitInStep, LiveInStep
    <3>2. ExitInStep(m)'
      BY <1>t, <1>1, <1>4, <1>9, <2>2 DEF ExitInStep, Own
    <3>3. ASSUME m = "wcd" PROVE WcdInStep'
      BY <1>4, <2>2, <3>3 DEF WcdInStep
    <3> QED BY <2>1, <3>1, <3>2, <3>3 DEF Own
  <2>3. CASE m = "wcd" /\ at[m] = "init" /\ step[m] = 9 /\ l = WcdPut
    <3>1. OutInStep(m)' /\ ExitInStep(m)'
      BY <1>4, <2>3 DEF OutInStep, ExitInStep
    <3>2. "codec" \in held["wcd"] /\ held["wcd"] \subseteq Left("wcd") \cup {"codec"}
      BY <1>t, <2>3 DEF Own, WcdInStep
    <3>3. l[i] # "codec"
      BY <1>2, <1>n, <2>3, OtherLines
    <3>4. "codec" \in held'["wcd"] /\ held'["wcd"] \subseteq Left("wcd")' \cup {"codec"}
      BY <1>4, <1>9, <2>3, <3>2, <3>3
    <3>5. WcdInStep'
      BY <1>4, <2>3, <3>4 DEF WcdInStep
    <3> QED BY <2>1, <2>3, <3>1, <3>5 DEF Own
  <2> QED BY <1>1, <2>2, <2>3
<1> QED BY <1>5, <1>6, <1>7, <1>11, Local

LEMMA UnloadedInv == ASSUME ModulesInv, NEW m \in Modules, Unloaded(m) PROVE ModulesInv'
<1>t. ModulesTypeOK /\ AdspInStep /\ Own(m)
  BY OwnSplit
<1>1. /\ at[m] = "exit" /\ at'[m] = "out" /\ todo'[m] = <<>> /\ line'[m] = 1
      /\ step'[m] = step[m] /\ held'[m] = held[m] /\ UNCHANGED <<step, held, mode, adsp, codec>>
  BY <1>t DEF Unloaded, ModulesTypeOK
<1>2. held[m] \subseteq NodeRefs /\ (m # "audio" => held[m] = {}) /\ step[m] = 1
  <2>1. Left(m) \cap held[m] = {}
    BY NoneDue, Zenon DEF Unloaded, Left
  <2>2. /\ held[m] \subseteq Left(m) \cup NodeRefs /\ (m # "audio" => held[m] \cap NodeRefs = {})
        /\ step[m] = 1
    BY <1>t, <1>1 DEF Own, ExitInStep
  <2> QED BY <2>1, <2>2
<1>3. \A n \in Modules \ {m} : Same(n)
  BY <1>t DEF Unloaded, Same, ModulesTypeOK
<1>4. ModulesTypeOK'
  BY <1>t DEF Unloaded, ModulesTypeOK
<1>5. AdspInStep'
  <2>1. ASSUME m = "audio" PROVE ~adsp
    <3>1. "pas" \in ResourcesOf("audio") /\ "pas" \notin NodeRefs
      BY AllResources, ListRanges DEF NodeRefs
    <3> QED BY <1>t, <1>2, <2>1, <3>1 DEF AdspInStep
  <2> QED BY <1>t, <1>1, <1>3, <2>1 DEF AdspInStep, Same, Modules
<1>6. OutInStep(m)' /\ ExitInStep(m)' /\ InitInStep(m)' /\ LiveInStep(m)'
  BY <1>1, <1>2 DEF OutInStep, ExitInStep, InitInStep, LiveInStep
<1>7. ASSUME m = "wcd" PROVE WcdInStep'
  BY <1>1, <1>7 DEF WcdInStep
<1>8. (\A i \in line[m] .. Len(todo[m]) : todo[m][i] \in Tested \cup held[m])'
  <2>1. line'[m] = 1 /\ Len(todo'[m]) = 0
    BY <1>1
  <2> QED BY <2>1
<1>9. Own(m)'
  BY <1>6, <1>7, <1>8 DEF Own
<1> QED BY <1>3, <1>4, <1>5, <1>9, Local

(* The processor. *)
LEMMA AdspInv == ASSUME ModulesInv, AdspStarts \/ AdspStops PROVE ModulesInv'
<1>t. ModulesTypeOK /\ AdspInStep /\ \A m \in Modules : Own(m)
  BY OwnSplit
<1>1. UNCHANGED <<at, step, todo, line, held, mode, codec>> /\ adsp' \in BOOLEAN
  BY DEF AdspStarts, AdspStops
<1>2. \A m \in Modules : Same(m)
  BY <1>1 DEF Same
<1>3. ModulesTypeOK'
  BY <1>t, <1>1 DEF ModulesTypeOK
<1>4. AdspInStep'
  <2>1. CASE AdspStops
    BY <2>1 DEF AdspStops, AdspInStep
  <2>2. CASE AdspStarts
    <3>1. "pas" \notin TakenBefore("audio", 3)
      BY AudioGroups DEF TakenBefore
    <3>2. held["audio"] = ResourcesOf("audio") /\ at["audio"] = "live"
      BY <1>t, <2>2, <3>1 DEF AdspStarts, Own, LiveInStep, Modules
    <3> QED BY <1>1, <3>2 DEF AdspInStep
  <2> QED BY <2>1, <2>2
<1>5. Own("wcd")' /\ "wcd" \in Modules
  BY <1>t, <1>2, SameOwn DEF Modules
<1> QED BY <1>2, <1>3, <1>4, <1>5, Local

LEMMA ModulesInitInv == ModulesInit => ModulesInv
<1> SUFFICES ASSUME ModulesInit PROVE ModulesInv
  OBVIOUS
<1>1. \A m \in Modules : /\ at[m] = "out" /\ step[m] = 1 /\ todo[m] = <<>> /\ line[m] = 1
                         /\ held[m] = {}
  BY DEF ModulesInit
<1>2. ModulesTypeOK
  <2>1. mode \in BOOLEAN /\ adsp \in BOOLEAN
    BY ModulesAssumption, Zenon DEF ModulesInit
  <2>2. held \in [Modules -> SUBSET (UNION {ResourcesOf(m) : m \in Modules})]
    BY DEF ModulesInit
  <2>3. todo \in [Modules -> {<<>>} \cup UNION {UnwindLists(m) : m \in Modules}]
    BY DEF ModulesInit
  <2> QED BY <2>1, <2>2, <2>3 DEF ModulesInit, ModulesTypeOK
<1>3. AdspInStep
  BY DEF ModulesInit, AdspInStep
<1>4. ASSUME NEW m \in Modules PROVE Own(m)
  <2>1. OutInStep(m) /\ ExitInStep(m) /\ InitInStep(m) /\ LiveInStep(m)
    BY <1>1 DEF OutInStep, ExitInStep, InitInStep, LiveInStep
  <2>2. WcdInStep
    BY <1>1 DEF WcdInStep, Modules
  <2>3. \A i \in line[m] .. Len(todo[m]) : todo[m][i] \in Tested \cup held[m]
    <3>1. line[m] = 1 /\ Len(todo[m]) = 0
      BY <1>1
    <3> QED BY <3>1
  <2> QED BY <2>1, <2>2, <2>3 DEF Own
<1> QED BY <1>2, <1>3, <1>4, OwnSplit

LEMMA ModulesNextInv == ModulesInv /\ [ModulesNext]_moduleVars => ModulesInv'
<1> SUFFICES ASSUME ModulesInv, [ModulesNext]_moduleVars PROVE ModulesInv'
  OBVIOUS
<1>1. ASSUME NEW m \in Modules, Load(m) \/ ReturnError(m) \/ Rmmod(m) \/ InitOrExit(m)
      PROVE  ModulesInv'
  <2>1. CASE Load(m)
    BY <2>1, LoadInv
  <2>2. CASE ReturnError(m)
    BY <2>2, ReturnErrorInv
  <2>3. CASE Rmmod(m)
    BY <2>3, RmmodInv
  <2>4. CASE Take(m)
    BY <2>4, TakeInv
  <2>5. CASE Live(m)
    BY <2>5, LiveInv
  <2>6. CASE Release(m)
    BY <2>6, ReleaseInv DEF Release
  <2>7. CASE Unloaded(m)
    BY <2>7, UnloadedInv
  <2> QED BY <1>1, <2>1, <2>2, <2>3, <2>4, <2>5, <2>6, <2>7 DEF InitOrExit
<1>2. CASE WcdLookup
  BY <1>2, WcdLookupInv
<1>3. CASE WcdRegister
  BY <1>3, WcdRegisterInv
<1>4. CASE AdspStarts \/ AdspStops
  BY <1>4, AdspInv
<1>5. CASE UNCHANGED moduleVars
  <2>1. UNCHANGED <<at, step, todo, line, held, mode, adsp, codec>>
    BY <1>5 DEF moduleVars
  <2>2. \A m \in Modules : Same(m)
    BY <2>1 DEF Same
  <2>3. ModulesTypeOK /\ AdspInStep /\ Own("wcd") /\ "wcd" \in Modules
    BY OwnSplit DEF Modules
  <2>4. ModulesTypeOK' /\ AdspInStep'
    BY <2>1, <2>3 DEF ModulesTypeOK, AdspInStep
  <2> QED BY <2>2, <2>3, <2>4, SameOwn, Local
<1> QED BY <1>1, <1>2, <1>3, <1>4, <1>5 DEF ModulesNext

LEMMA ModulesInvSafe == ModulesInv => ModulesSafe
<1> SUFFICES ASSUME ModulesInv PROVE ModulesSafe
  OBVIOUS
<1>1. AdspOnItsNodes
  <2>1. AudioNeeds("pas") \cup {"pas"} \subseteq ResourcesOf("audio")
    BY AllResources, ListRanges DEF AudioNeeds, Virqs
  <2> QED BY <2>1 DEF ModulesInv, AdspInStep, AdspOnItsNodes
<1>2. LookupsReturned
  BY DEF ModulesInv, WcdInStep, OutInStep, LookupsReturned, Modules
<1> QED BY <1>1, <1>2 DEF ModulesSafe, ModulesInv

(* The four modules, loaded and removed in any order and failing anywhere: the *)
(* processor runs only on its nodes, interrupts and domains, the aggregate     *)
(* keeps no lookup reference, no label or exit function undoes a step that was *)
(* not made, and a module that is gone holds nothing but the two node          *)
(* references its init never puts.                                             *)
THEOREM ModulesAreSafe == ModulesSpec => []ModulesSafe
<1>1. ModulesSpec => []ModulesInv
  BY ModulesInitInv, ModulesNextInv, PTL DEF ModulesSpec
<1> QED BY <1>1, ModulesInvSafe, PTL

(* -------------------------------------------------------- the refinement *)
LEMMA NeedsOfIs == \A m : \A r \in ResourcesOf(m) : NeedsOf(m)[r] = NeedsFor(m, r)
BY Zenon DEF NeedsOf, NeedsFor

LEMMA WcdNeedsNothing == \A r \in ResourcesOf("wcd") : NeedsOf("wcd")[r] = {}
<1>1. \A r \in ResourcesOf("wcd") : OtherNeeds(r) = {}
  BY AllResources, ListRanges DEF OtherNeeds
<1> QED BY <1>1, NeedsOfIs DEF NeedsFor

(* The steps Lifecycle allows a module, with its phase and what it holds.    *)
TakesInit(m) == at[m] = "out" /\ at'[m] = "init" /\ held'[m] \subseteq NodeRefs

Grows(m) ==
    /\ held[m] \subseteq held'[m] /\ held'[m] \subseteq ResourcesOf(m)
    /\ \A r \in held'[m] \ held[m] : NeedsOf(m)[r] \subseteq held'[m]

Acquires(m) == at[m] = "init" /\ at'[m] = "init" /\ Grows(m)

GoesLive(m) == at[m] = "init" /\ at'[m] = "live" /\ held'[m] = held[m]

Ends(m) ==
    /\ at[m] \in {"init", "live"} /\ at'[m] = "exit" /\ Grows(m)
    /\ at[m] = "live" => held'[m] = held[m]

Releases(m) ==
    /\ at[m] \in {"init", "exit"} /\ at'[m] = at[m]
    /\ \E r \in held[m] :
         /\ \A other \in held[m] \ {r} : r \notin NeedsOf(m)[other]
         /\ held'[m] = held[m] \ {r}

GoesOut(m) ==
    /\ at[m] \in {"init", "exit"} /\ at'[m] = "out"
    /\ held[m] \subseteq NodeRefs /\ held'[m] = held[m]

Still(m) == at'[m] = at[m] /\ held'[m] = held[m]

StepOf(m) ==
    \/ TakesInit(m) \/ Acquires(m) \/ GoesLive(m) \/ Ends(m) \/ Releases(m) \/ GoesOut(m)
    \/ Still(m)

OnlyStep(m) == StepOf(m) /\ \A n \in Modules \ {m} : Still(n)

LEMMA LoadSteps == ASSUME ModulesInv, NEW m \in Modules, Load(m) PROVE OnlyStep(m)
<1>1. ModulesTypeOK
  BY DEF ModulesInv
<1>2. TakesInit(m) /\ \A n \in Modules \ {m} : Still(n)
  BY <1>1 DEF Load, TakesInit, Still, ModulesTypeOK
<1> QED BY <1>2 DEF OnlyStep, StepOf

LEMMA ReturnErrorSteps == ASSUME ModulesInv, NEW m \in Modules, ReturnError(m) PROVE OnlyStep(m)
<1>1. ModulesTypeOK
  BY DEF ModulesInv
<1>2. GoesOut(m) /\ \A n \in Modules \ {m} : Still(n)
  BY <1>1 DEF ReturnError, GoesOut, Still, ModulesTypeOK
<1> QED BY <1>2 DEF OnlyStep, StepOf

LEMMA LiveSteps == ASSUME ModulesInv, NEW m \in Modules, Live(m) PROVE OnlyStep(m)
<1>1. ModulesTypeOK
  BY DEF ModulesInv
<1>2. GoesLive(m) /\ \A n \in Modules \ {m} : Still(n)
  BY <1>1 DEF Live, GoesLive, Still, ModulesTypeOK
<1> QED BY <1>2 DEF OnlyStep, StepOf

LEMMA UnloadedSteps == ASSUME ModulesInv, NEW m \in Modules, Unloaded(m) PROVE OnlyStep(m)
<1>1. ModulesTypeOK /\ Own(m)
  BY OwnSplit
<1>2. held[m] \subseteq NodeRefs
  <2>1. Left(m) \cap held[m] = {}
    BY NoneDue, Zenon DEF Unloaded, Left
  <2>2. held[m] \subseteq Left(m) \cup NodeRefs
    BY <1>1 DEF Unloaded, Own, ExitInStep
  <2> QED BY <2>1, <2>2
<1>3. GoesOut(m) /\ \A n \in Modules \ {m} : Still(n)
  BY <1>1, <1>2 DEF Unloaded, GoesOut, Still, ModulesTypeOK
<1> QED BY <1>3 DEF OnlyStep, StepOf

LEMMA RmmodSteps == ASSUME ModulesInv, NEW m \in Modules, Rmmod(m) PROVE OnlyStep(m)
<1>1. ModulesTypeOK /\ Own(m)
  BY OwnSplit
<1>2. held[m] \subseteq ResourcesOf(m)
  <2>1. CASE m = "wcd"
    BY <1>1, <2>1, AllResources DEF Rmmod, Own, WcdInStep
  <2>2. CASE m # "wcd"
    <3>1. TakenBefore("audio", 3) \subseteq ResourcesOf("audio")
      BY LastGroup, TakenGrows
    <3> QED BY <1>1, <2>2, <3>1 DEF Rmmod, Own, LiveInStep
  <2> QED BY <2>1, <2>2
<1>3. Ends(m) /\ \A n \in Modules \ {m} : Still(n)
  BY <1>1, <1>2 DEF Rmmod, Begin, Ends, Grows, Still, ModulesTypeOK
<1> QED BY <1>3 DEF OnlyStep, StepOf

LEMMA TakeSteps == ASSUME ModulesInv, NEW m \in Modules, Take(m) PROVE OnlyStep(m)
<1>t. ModulesTypeOK /\ Own(m)
  BY OwnSplit
<1>0. m \in Plain /\ m # "wcd"
  BY DEF Take, Plain, Modules
<1>g. PICK g : g = step[m]
  OBVIOUS
<1>1. at[m] = "init" /\ g \in 1 .. Len(InitOrder(m)) /\ held[m] = TakenBefore(m, g)
  BY <1>t, <1>0, <1>g, OrderLengths DEF Take, ModulesTypeOK, Own, InitInStep, Plain
<1>2. PICK found \in SUBSET InitOrder(m)[g] : TakeFound(m, found)
  BY <1>g DEF Take, Group
<1>3. held'[m] = TakenBefore(m, g) \cup found /\ \A n \in Modules \ {m} : held'[n] = held[n]
  BY <1>1, <1>2, <1>t DEF TakeFound, ModulesTypeOK
<1>4. Grows(m)
  <2>1. held[m] \subseteq held'[m] /\ held'[m] \subseteq ResourcesOf(m)
    BY <1>1, <1>2, <1>3, GroupFacts
  <2>2. ASSUME NEW r \in held'[m] \ held[m] PROVE NeedsOf(m)[r] \subseteq held'[m]
    <3>1. r \in InitOrder(m)[g]
      BY <1>1, <1>3
    <3>2. NeedsFor(m, r) \subseteq TakenBefore(m, g)
      BY <1>0, <1>1, <3>1, NeedsTaken
    <3> QED BY <1>3, <2>1, <3>2, NeedsOfIs
  <2> QED BY <2>1, <2>2 DEF Grows
<1>5. /\ at'[m] \in {"init", "exit"} /\ \A n \in Modules \ {m} : at'[n] = at[n]
  BY <1>t, <1>1, <1>2 DEF TakeFound, Begin, ModulesTypeOK
<1>6. Acquires(m) \/ Ends(m)
  BY <1>1, <1>4, <1>5 DEF Acquires, Ends
<1> QED BY <1>3, <1>5, <1>6 DEF OnlyStep, StepOf, Still

LEMMA WcdLookupSteps == ASSUME ModulesInv, WcdLookup PROVE OnlyStep("wcd")
<1>t. ModulesTypeOK /\ Own("wcd") /\ "wcd" \in Modules
  BY OwnSplit DEF Modules
<1>g. PICK g : g = step["wcd"]
  OBVIOUS
<1>1. at["wcd"] = "init" /\ g \in 1 .. 7 /\ held["wcd"] \subseteq TakenBefore("wcd", g)
  <2>1. at["wcd"] = "init" /\ g \in 1 .. 7
    BY <1>t, <1>g DEF WcdLookup, ModulesTypeOK
  <2> QED BY <1>t, <1>g, <2>1 DEF Own, WcdInStep
<1>2. PICK r \in WcdOrder[g] :
        held' = [held EXCEPT !["wcd"] = IF Findable("wcd", r) THEN @ \cup {r} ELSE @]
  BY <1>g DEF WcdLookup
<1>3. r \in InitOrder("wcd")[g] /\ g \in 1 .. Len(InitOrder("wcd"))
  <2>1. InitOrder("wcd") = WcdOrder
    BY DEF InitOrder
  <2> QED BY <1>1, <1>2, <2>1, OrderLengths
<1>4. /\ held["wcd"] \subseteq held'["wcd"] /\ held'["wcd"] \subseteq held["wcd"] \cup {r}
      /\ at'["wcd"] = "init" /\ \A n \in Modules \ {"wcd"} : Still(n)
  BY <1>1, <1>2, <1>t DEF WcdLookup, Still, ModulesTypeOK
<1>5. held'["wcd"] \subseteq ResourcesOf("wcd")
  BY <1>t, <1>1, <1>3, <1>4, GroupFacts
<1>6. Acquires("wcd")
  BY <1>1, <1>4, <1>5, WcdNeedsNothing DEF Acquires, Grows
<1> QED BY <1>4, <1>6 DEF OnlyStep, StepOf

LEMMA WcdRegisterSteps == ASSUME ModulesInv, WcdRegister PROVE OnlyStep("wcd")
<1>t. ModulesTypeOK /\ Own("wcd") /\ "wcd" \in Modules
  BY OwnSplit DEF Modules
<1>1. at["wcd"] = "init" /\ held["wcd"] \subseteq Range(WcdPut)
  BY <1>t, WcdTaken DEF WcdRegister, ModulesTypeOK, Own, WcdInStep
<1>2. /\ held["wcd"] \subseteq held'["wcd"] /\ held'["wcd"] \subseteq held["wcd"] \cup {"codec"}
      /\ at'["wcd"] \in {"init", "exit"} /\ \A n \in Modules \ {"wcd"} : Still(n)
  BY <1>1, <1>t DEF WcdRegister, Begin, Still, ModulesTypeOK
<1>3. Grows("wcd")
  BY <1>1, <1>2, WcdNeedsNothing, AllResources DEF Grows
<1>4. Acquires("wcd") \/ Ends("wcd")
  BY <1>1, <1>2, <1>3 DEF Acquires, Ends
<1> QED BY <1>2, <1>4 DEF OnlyStep, StepOf

LEMMA ReleaseSteps ==
    ASSUME ModulesInv, NEW m \in Modules, NEW i \in 1 .. Len(todo[m]), ReleaseLine(m, i)
    PROVE  OnlyStep(m)
<1>t. ModulesTypeOK /\ Own(m)
  BY OwnSplit
<1>l. PICK l : l = todo[m]
  OBVIOUS
<1>n. PICK k : k = line[m] /\ k \in 1 .. 20
  BY <1>t DEF ModulesTypeOK
<1>d. i \in Due(m) /\ \A j \in Due(m) : i <= j
  BY DEF ReleaseLine
<1>1. /\ l \in UnwindLists(m) /\ ListOK(m, l)
      /\ at[m] = "exit" \/ (m = "wcd" /\ at[m] = "init" /\ step[m] = 9 /\ l = WcdPut)
  BY <1>t, <1>l, <1>d, ReleasingList, ListsOK
<1>2. Len(l) \in 0 .. 19 /\ i \in k .. Len(l)
  <2>1. Len(l) \in 0 .. 19
    BY <1>1 DEF ListOK
  <2>2. i \in k .. Len(l)
    BY <1>l, <1>n, <1>d, Zenon DEF Due
  <2> QED BY <2>1, <2>2
<1>3. \A j \in k .. Len(l) : j < i => l[j] \in Tested /\ l[j] \notin held[m]
  BY <1>d, <1>l, <1>n, <1>2 DEF Due
<1>4. at'[m] = at[m] /\ held'[m] = held[m] \ {l[i]} /\ \A n \in Modules \ {m} : Still(n)
  BY <1>t, <1>l DEF ReleaseLine, Still, ModulesTypeOK
<1>5. l[i] \in held[m]
  <2>1. l[i] \in Tested \cup held[m]
    BY <1>t, <1>l, <1>n, <1>2, Zenon DEF Own
  <2>2. l[i] \in Tested => l[i] \in held[m]
    BY <1>l, <1>d, Zenon DEF Due
  <2> QED BY <2>1, <2>2
<1>6. ASSUME NEW other \in held[m] \ {l[i]} PROVE l[i] \notin NeedsOf(m)[other]
  <2>1. CASE other \in Left(m)
    <3>1. PICK j \in k .. Len(l) : other = l[j]
      BY <1>l, <1>n, <2>1, Zenon DEF Left
    <3>2. j \in 1 .. Len(l) /\ i < j
      <4>1. j # i /\ ~(j < i)
        BY <1>3, <1>6, <3>1, Zenon
      <4> QED BY <1>n, <1>2, <3>1, <4>1
    <3> QED BY <1>1, <3>1, <3>2, NeedsOfIs DEF ListOK
  <2>2. CASE m = "audio" /\ other \in NodeRefs
    <3>1. other \in ResourcesOf("audio") /\ AudioNeeds(other) = {}
      BY <2>2, AllResources DEF AudioNeeds, NodeRefs, Virqs
    <3> QED BY <2>2, <3>1, NeedsOfIs DEF NeedsFor
  <2>3. CASE m = "wcd" /\ other = "codec"
    BY <2>3, AllResources, WcdNeedsNothing
  <2>4. \/ other \in Left(m) \/ (m = "audio" /\ other \in NodeRefs) \/ (m = "wcd" /\ other = "codec")
    BY <1>t, <1>1, <1>6 DEF Own, ExitInStep, WcdInStep
  <2> QED BY <2>1, <2>2, <2>3, <2>4
<1>7. Releases(m)
  BY <1>1, <1>4, <1>5, <1>6 DEF Releases
<1> QED BY <1>4, <1>7 DEF OnlyStep, StepOf

LEMMA EveryStep ==
    ASSUME ModulesInv, [ModulesNext]_moduleVars PROVE \A n \in Modules : StepOf(n)
<1>0. \A m \in Modules : OnlyStep(m) => \A n \in Modules : StepOf(n)
  BY DEF OnlyStep, StepOf
<1>1. ASSUME NEW m \in Modules, Load(m) \/ ReturnError(m) \/ Rmmod(m) \/ InitOrExit(m)
      PROVE  OnlyStep(m)
  <2>1. CASE Load(m)
    BY <2>1, LoadSteps
  <2>2. CASE ReturnError(m)
    BY <2>2, ReturnErrorSteps
  <2>3. CASE Rmmod(m)
    BY <2>3, RmmodSteps
  <2>4. CASE Take(m)
    BY <2>4, TakeSteps
  <2>5. CASE Live(m)
    BY <2>5, LiveSteps
  <2>6. CASE Release(m)
    BY <2>6, ReleaseSteps DEF Release
  <2>7. CASE Unloaded(m)
    BY <2>7, UnloadedSteps
  <2> QED BY <1>1, <2>1, <2>2, <2>3, <2>4, <2>5, <2>6, <2>7 DEF InitOrExit
<1>2. CASE WcdLookup \/ WcdRegister
  BY <1>0, <1>2, WcdLookupSteps, WcdRegisterSteps DEF Modules
<1>3. CASE AdspStarts \/ AdspStops \/ UNCHANGED moduleVars
  BY <1>3 DEF AdspStarts, AdspStops, moduleVars, StepOf, Still
<1> QED BY <1>0, <1>1, <1>2, <1>3 DEF ModulesNext

LEMMA AudioLifeSteps ==
    /\ ModulesInit => AudioLife!LifeInit
    /\ StepOf("audio") => [AudioLife!LifeNext]_(AudioLife!LifeVars)
<1>1. ModulesInit => AudioLife!LifeInit
  BY DEF ModulesInit, Modules, AudioLife!LifeInit
<1>2. StepOf("audio") => [AudioLife!LifeNext]_(AudioLife!LifeVars)
  BY Zenon DEF StepOf, TakesInit, Acquires, Grows, GoesLive, Ends, Releases, GoesOut, Still,
       AudioLife!LifeNext, AudioLife!LifeLoad, AudioLife!LifeAcquire, AudioLife!LifeLive, AudioLife!LifeEnd, AudioLife!LifeRelease,
       AudioLife!LifeOut, AudioLife!LifeVars
<1> QED BY <1>1, <1>2

LEMMA LpiLifeSteps ==
    /\ ModulesInit => LpiLife!LifeInit
    /\ StepOf("lpi") => [LpiLife!LifeNext]_(LpiLife!LifeVars)
<1>1. ModulesInit => LpiLife!LifeInit
  BY DEF ModulesInit, Modules, LpiLife!LifeInit
<1>2. StepOf("lpi") => [LpiLife!LifeNext]_(LpiLife!LifeVars)
  BY Zenon DEF StepOf, TakesInit, Acquires, Grows, GoesLive, Ends, Releases, GoesOut, Still,
       LpiLife!LifeNext, LpiLife!LifeLoad, LpiLife!LifeAcquire, LpiLife!LifeLive, LpiLife!LifeEnd, LpiLife!LifeRelease,
       LpiLife!LifeOut, LpiLife!LifeVars
<1> QED BY <1>1, <1>2

LEMMA WcdLifeSteps ==
    /\ ModulesInit => WcdLife!LifeInit
    /\ StepOf("wcd") => [WcdLife!LifeNext]_(WcdLife!LifeVars)
<1>1. ModulesInit => WcdLife!LifeInit
  BY DEF ModulesInit, Modules, WcdLife!LifeInit
<1>2. StepOf("wcd") => [WcdLife!LifeNext]_(WcdLife!LifeVars)
  BY Zenon DEF StepOf, TakesInit, Acquires, Grows, GoesLive, Ends, Releases, GoesOut, Still,
       WcdLife!LifeNext, WcdLife!LifeLoad, WcdLife!LifeAcquire, WcdLife!LifeLive, WcdLife!LifeEnd, WcdLife!LifeRelease,
       WcdLife!LifeOut, WcdLife!LifeVars
<1> QED BY <1>1, <1>2

LEMMA CardLifeSteps ==
    /\ ModulesInit => CardLife!LifeInit
    /\ StepOf("card") => [CardLife!LifeNext]_(CardLife!LifeVars)
<1>1. ModulesInit => CardLife!LifeInit
  BY DEF ModulesInit, Modules, CardLife!LifeInit
<1>2. StepOf("card") => [CardLife!LifeNext]_(CardLife!LifeVars)
  BY Zenon DEF StepOf, TakesInit, Acquires, Grows, GoesLive, Ends, Releases, GoesOut, Still,
       CardLife!LifeNext, CardLife!LifeLoad, CardLife!LifeAcquire, CardLife!LifeLive, CardLife!LifeEnd, CardLife!LifeRelease,
       CardLife!LifeOut, CardLife!LifeVars
<1> QED BY <1>1, <1>2

(* Each of the four modules implements Lifecycle: nothing is taken before what *)
(* it rests on or released under what rests on it, nothing is released twice,  *)
(* and a module that is gone has left only the two node references.            *)
THEOREM ModulesImplement == ModulesSpec => ImplementsLifecycle
<1>1. ModulesSpec => []ModulesInv
  BY ModulesInitInv, ModulesNextInv, PTL DEF ModulesSpec
<1>2. ModulesInv /\ [ModulesNext]_moduleVars =>
        StepOf("audio") /\ StepOf("lpi") /\ StepOf("wcd") /\ StepOf("card")
  BY EveryStep DEF Modules
<1>3. ModulesInv /\ [ModulesNext]_moduleVars =>
        /\ [AudioLife!LifeNext]_(AudioLife!LifeVars) /\ [LpiLife!LifeNext]_(LpiLife!LifeVars)
        /\ [WcdLife!LifeNext]_(WcdLife!LifeVars) /\ [CardLife!LifeNext]_(CardLife!LifeVars)
  BY <1>2, AudioLifeSteps, LpiLifeSteps, WcdLifeSteps, CardLifeSteps
<1> QED BY <1>1, <1>3, AudioLifeSteps, LpiLifeSteps, WcdLifeSteps, CardLifeSteps, PTL
        DEF ModulesSpec, ImplementsLifecycle, AudioLife!LifeSpec, LpiLife!LifeSpec,
            WcdLife!LifeSpec, CardLife!LifeSpec

-----------------------------------------------------------------------------
(* Compressed streams: fragments and their place in the ring               *)

(* Division with remainder. *)
LEMMA Division ==
  ASSUME NEW n \in Nat, NEW d \in Nat \ {0}
  PROVE  /\ n \div d \in Nat /\ n % d \in 0 .. d - 1
         /\ n = d * (n \div d) + (n % d)
BY Z3

(* Quotient and remainder are unique. *)
LEMMA DivisionUnique ==
  ASSUME NEW d \in Nat \ {0}, NEW q \in Nat, NEW r \in 0 .. d - 1
  PROVE  (d * q + r) \div d = q /\ (d * q + r) % d = r
<1> DEFINE n == d * q + r
<1>0. n \in Nat
  BY Z3
<1>1. n \div d \in Nat /\ n % d \in 0 .. d - 1 /\ n = d * (n \div d) + (n % d)
  BY <1>0, Division
<1> HIDE DEF n
<1>q. n = d * q + r
  BY DEF n
<1> DEFINE a == n \div d
<1> DEFINE b == n % d
<1>2. a \in Nat /\ b \in 0 .. d - 1 /\ d * a + b = d * q + r
  BY <1>1, <1>q
<1> HIDE DEF a, b
<1>3. ~(a < q)
  <2> SUFFICES ASSUME a < q PROVE FALSE
    OBVIOUS
  <2>1. PICK k \in Nat : q = a + 1 + k
    <3>1. q - a - 1 \in Nat /\ q = a + 1 + (q - a - 1)
      BY <1>2
    <3> QED BY <3>1
  <2>2. d * q = d * a + d + d * k
    BY <1>2, <2>1, Z3
  <2>3. d * k \in Nat /\ d * a \in Nat /\ d * q \in Nat
    BY <1>2, Z3
  <2> QED BY <1>2, <2>2, <2>3
<1>4. ~(q < a)
  <2> SUFFICES ASSUME q < a PROVE FALSE
    OBVIOUS
  <2>1. PICK k \in Nat : a = q + 1 + k
    <3>1. a - q - 1 \in Nat /\ a = q + 1 + (a - q - 1)
      BY <1>2
    <3> QED BY <3>1
  <2>2. d * a = d * q + d + d * k
    BY <1>2, <2>1, Z3
  <2>3. d * k \in Nat /\ d * a \in Nat /\ d * q \in Nat
    BY <1>2, Z3
  <2> QED BY <1>2, <2>2, <2>3
<1>5. a = q
  BY <1>2, <1>3, <1>4
<1>6. b = r
  BY <1>2, <1>5, Z3
<1> QED BY <1>5, <1>6 DEF a, b, n

(* How many fragments hold n bytes, the last one perhaps in part. *)
Whole(n) == (n + Fragment - 1) \div Fragment

(* Align rounds up to the end of the fragment it is in. *)
LEMMA WholeUp ==
  ASSUME NEW n \in Nat
  PROVE  /\ Whole(n) \in Nat /\ Align(n) \in Nat /\ Align(n) = Fragment * Whole(n)
         /\ n <= Align(n) /\ Align(n) <= n + Fragment - 1
<1>1. Fragment \in Nat \ {0}
  BY ComprAssumption
<1>2. n + Fragment - 1 \in Nat
  BY <1>1
<1>3. /\ Whole(n) \in Nat /\ (n + Fragment - 1) % Fragment \in 0 .. Fragment - 1
      /\ n + Fragment - 1 = Fragment * Whole(n) + ((n + Fragment - 1) % Fragment)
  BY <1>1, <1>2, Division DEF Whole
<1>4. Align(n) = Whole(n) * Fragment
  BY DEF Align, Whole
<1>5. Whole(n) * Fragment = Fragment * Whole(n) /\ Fragment * Whole(n) \in Nat
  BY <1>1, <1>3, SMT
<1> QED BY <1>1, <1>3, <1>4, <1>5

(* A partly filled fragment counts as one. *)
LEMMA WholeOf ==
  ASSUME NEW k \in Nat, NEW r \in 1 .. Fragment
  PROVE  Whole(Fragment * k + r) = k + 1
<1>1. Fragment \in Nat \ {0}
  BY ComprAssumption
<1>2. Fragment * (k + 1) = Fragment * k + Fragment /\ Fragment * k \in Nat
  BY <1>1, SMT
<1>3. (Fragment * k + r) + Fragment - 1 = Fragment * (k + 1) + (r - 1)
  BY <1>1, <1>2
<1>4. r - 1 \in 0 .. Fragment - 1 /\ k + 1 \in Nat
  BY <1>1
<1>5. (Fragment * (k + 1) + (r - 1)) \div Fragment = k + 1
  BY <1>1, <1>4, DivisionUnique
<1> QED BY <1>3, <1>5 DEF Whole

(* Whole fragments are aligned already. *)
LEMMA WholeMultiple ==
  ASSUME NEW k \in Nat
  PROVE  Whole(Fragment * k) = k /\ Align(Fragment * k) = Fragment * k
<1>1. Fragment \in Nat \ {0}
  BY ComprAssumption
<1>2. Fragment * k \in Nat /\ Fragment - 1 \in 0 .. Fragment - 1
  BY <1>1, SMT
<1>3. (Fragment * k + (Fragment - 1)) \div Fragment = k
  BY <1>1, <1>2, DivisionUnique
<1>4. Fragment * k + Fragment - 1 = Fragment * k + (Fragment - 1)
  BY <1>1, <1>2
<1>5. Whole(Fragment * k) = k
  BY <1>3, <1>4 DEF Whole
<1> QED BY <1>2, <1>5, WholeUp

(* The place of a count of fragments in the ring, and of the one after       *)
(* it.                                                                       *)
LEMMA RingPosition ==
  ASSUME NEW k \in Nat
  PROVE  /\ k % Fragments \in 0 .. Fragments - 1
         /\ (Fragment * k) % Size = (k % Fragments) * Fragment
         /\ ((k % Fragments) + 1) % Fragments = (k + 1) % Fragments
<1>1. Fragment \in Nat \ {0} /\ Fragments \in Nat \ {0}
  BY ComprAssumption
<1> DEFINE q == k \div Fragments
<1> DEFINE r == k % Fragments
<1>2. q \in Nat /\ r \in 0 .. Fragments - 1 /\ k = Fragments * q + r
  BY <1>1, Division
<1> HIDE DEF q, r
<1>3. (Fragment * k) % Size = r * Fragment
  <2>1. Fragment * k = Size * q + r * Fragment
    BY <1>1, <1>2, SMT DEF Size
  <2>2. Size \in Nat \ {0}
    BY <1>1, SMT DEF Size
  <2>3. r * Fragment \in 0 .. Size - 1
    <3>1. PICK s \in Nat : Fragments = r + 1 + s
      <4>1. Fragments - r - 1 \in Nat /\ Fragments = r + 1 + (Fragments - r - 1)
        BY <1>1, <1>2
      <4> QED BY <4>1
    <3>2. Size = r * Fragment + Fragment + Fragment * s
      BY <1>1, <1>2, <3>1, SMT DEF Size
    <3>3. r * Fragment \in Nat /\ Fragment * s \in Nat
      BY <1>1, <1>2, SMT
    <3> QED BY <1>1, <3>2, <3>3
  <2> QED BY <1>2, <2>1, <2>2, <2>3, DivisionUnique
<1>4. (r + 1) % Fragments = (k + 1) % Fragments
  <2>1. CASE r + 1 < Fragments
    <3>1. r + 1 \in 0 .. Fragments - 1
      BY <1>1, <1>2, <2>1
    <3>2. k + 1 = Fragments * q + (r + 1) /\ r + 1 = Fragments * 0 + (r + 1)
      BY <1>1, <1>2, SMT
    <3>3. (Fragments * q + (r + 1)) % Fragments = r + 1
      BY <1>1, <1>2, <3>1, DivisionUnique
    <3>4. (Fragments * 0 + (r + 1)) % Fragments = r + 1
      BY <1>1, <3>1, DivisionUnique
    <3> QED BY <3>2, <3>3, <3>4
  <2>2. CASE r + 1 = Fragments
    <3>1. k + 1 = Fragments * (q + 1) + 0 /\ r + 1 = Fragments * 1 + 0
      BY <1>1, <1>2, <2>2, SMT
    <3>2. (Fragments * (q + 1) + 0) % Fragments = 0
      BY <1>1, <1>2, DivisionUnique
    <3>3. (Fragments * 1 + 0) % Fragments = 0
      BY <1>1, DivisionUnique
    <3> QED BY <3>1, <3>2, <3>3
  <2> QED BY <1>1, <1>2, <2>1, <2>2
<1> QED BY <1>2, <1>3, <1>4 DEF r

(* What is said of one message. *)
ComprMessages == [op : {"WRITE", "RUN", "PAUSE", "EOS", "CLOSE"}, sid : {1, 2}, len : Nat,
                  at : Nat, slot : Nat]
IsOld(m, other) == m.op \in {"EOS", "CLOSE"} /\ m.sid = other
Carries(m, sid, left) ==
    m.op = "WRITE" => /\ m.sid = sid /\ m.len = left /\ m.len \in 1 .. Fragment
                      /\ m.at % Size = m.slot * Fragment

(* What is said of a queue. *)
Only(s, ops) == \A i \in DOMAIN s : s[i].op \in ops
Lacks(s, op) == \A i \in DOMAIN s : s[i].op # op
Lone(s) == \A i, j \in DOMAIN s : s[i].op = "WRITE" /\ s[j].op = "WRITE" => i = j
AllCarry(s, sid, left) == \A i \in DOMAIN s : Carries(s[i], sid, left)
NoOld(s, other) == \A i \in DOMAIN s : ~IsOld(s[i], other)
NoEos(s, sid) == \A i \in DOMAIN s : ~(s[i].op = "EOS" /\ s[i].sid = sid)
ClosesOld(s, other) == \A i \in DOMAIN s : s[i].op = "CLOSE" => s[i].sid = other
OldFirst(s, other) ==
    \A i, j \in DOMAIN s : i < j /\ IsOld(s[j], other) =>
        s[i].op \in {"RUN", "PAUSE"} \/ IsOld(s[i], other)
NoDataAfterEos(s, sid) ==
    \A i, j \in DOMAIN s : j < i /\ s[j].op = "EOS" /\ s[j].sid = sid => s[i].op # "WRITE"
EosLast(s) ==
    \A i, j \in DOMAIN s : j < i /\ s[j].op = "EOS" => s[i].op \notin {"WRITE", "EOS"}

(* An empty queue satisfies everything said of a queue. *)
LEMMA EmptyQueue ==
    /\ <<>> \in Seq(ComprMessages)
    /\ \A ops : Only(<<>>, ops)
    /\ \A op : Lacks(<<>>, op)
    /\ Lone(<<>>) /\ EosLast(<<>>)
    /\ \A sid, left : AllCarry(<<>>, sid, left)
    /\ \A sid : NoOld(<<>>, sid) /\ NoEos(<<>>, sid) /\ ClosesOld(<<>>, sid) /\ OldFirst(<<>>, sid)
    /\ \A sid : NoDataAfterEos(<<>>, sid)
BY DEF Only, Lacks, Lone, EosLast, AllCarry, NoOld, NoEos, ClosesOld, OldFirst, NoDataAfterEos

(* What a message appended to a queue has to satisfy. *)
LEMMA ComprAppend ==
    ASSUME NEW s \in Seq(ComprMessages), NEW m \in ComprMessages
    PROVE  /\ Append(s, m) \in Seq(ComprMessages)
           /\ \A ops : Only(s, ops) /\ m.op \in ops => Only(Append(s, m), ops)
           /\ \A op : Lacks(Append(s, m), op) <=> Lacks(s, op) /\ m.op # op
           /\ Lone(s) /\ (m.op # "WRITE" \/ Lacks(s, "WRITE")) => Lone(Append(s, m))
           /\ \A sid, left : AllCarry(s, sid, left) /\ Carries(m, sid, left) =>
                             AllCarry(Append(s, m), sid, left)
           /\ \A o : NoOld(Append(s, m), o) <=> NoOld(s, o) /\ ~IsOld(m, o)
           /\ \A k : NoEos(Append(s, m), k) <=> NoEos(s, k) /\ ~(m.op = "EOS" /\ m.sid = k)
           /\ \A o : ClosesOld(s, o) /\ (m.op = "CLOSE" => m.sid = o) => ClosesOld(Append(s, m), o)
           /\ \A o : OldFirst(s, o) /\ ~IsOld(m, o) => OldFirst(Append(s, m), o)
           /\ \A k : NoDataAfterEos(s, k) /\ (m.op # "WRITE" \/ NoEos(s, k)) =>
                     NoDataAfterEos(Append(s, m), k)
           /\ EosLast(s) /\ (m.op \notin {"WRITE", "EOS"} \/ Lacks(s, "EOS")) => EosLast(Append(s, m))
<1> DEFINE t == Append(s, m)
<1>1. t \in Seq(ComprMessages) /\ DOMAIN s = 1 .. Len(s) /\ DOMAIN t = 1 .. Len(s) + 1 /\ Len(s) \in Nat
  OBVIOUS
<1>2. \A i \in DOMAIN s : i \in DOMAIN t /\ t[i] = s[i]
  OBVIOUS
<1>3. Len(s) + 1 \in DOMAIN t /\ t[Len(s) + 1] = m
  OBVIOUS
<1>4. \A i \in DOMAIN t : i \in DOMAIN s \/ i = Len(s) + 1
  BY <1>1
<1> HIDE DEF t
<1>5. \A ops : Only(s, ops) /\ m.op \in ops => Only(t, ops)
  BY <1>2, <1>3, <1>4 DEF Only
<1>6. \A op : Lacks(t, op) <=> Lacks(s, op) /\ m.op # op
  BY <1>2, <1>3, <1>4 DEF Lacks
<1>7. Lone(s) /\ (m.op # "WRITE" \/ Lacks(s, "WRITE")) => Lone(t)
  BY <1>2, <1>3, <1>4 DEF Lone, Lacks
<1>8. \A sid, left : AllCarry(s, sid, left) /\ Carries(m, sid, left) => AllCarry(t, sid, left)
  BY <1>2, <1>3, <1>4 DEF AllCarry
<1>9. \A o : NoOld(t, o) <=> NoOld(s, o) /\ ~IsOld(m, o)
  BY <1>2, <1>3, <1>4 DEF NoOld
<1>10. \A k : NoEos(t, k) <=> NoEos(s, k) /\ ~(m.op = "EOS" /\ m.sid = k)
  BY <1>2, <1>3, <1>4 DEF NoEos
<1>11. \A o : ClosesOld(s, o) /\ (m.op = "CLOSE" => m.sid = o) => ClosesOld(t, o)
  BY <1>2, <1>3, <1>4 DEF ClosesOld
<1>12. \A o : OldFirst(s, o) /\ ~IsOld(m, o) => OldFirst(t, o)
  <2> SUFFICES ASSUME NEW o, OldFirst(s, o), ~IsOld(m, o), NEW i \in DOMAIN t, NEW j \in DOMAIN t,
                      i < j, IsOld(t[j], o)
               PROVE  t[i].op \in {"RUN", "PAUSE"} \/ IsOld(t[i], o)
    BY DEF OldFirst
  <2>1. j \in DOMAIN s
    BY <1>3, <1>4
  <2>2. i \in DOMAIN s
    BY <1>1, <2>1
  <2> QED BY <1>2, <2>1, <2>2 DEF OldFirst
<1>13. \A k : NoDataAfterEos(s, k) /\ (m.op # "WRITE" \/ NoEos(s, k)) => NoDataAfterEos(t, k)
  <2> SUFFICES ASSUME NEW k, NoDataAfterEos(s, k), m.op # "WRITE" \/ NoEos(s, k),
                      NEW i \in DOMAIN t, NEW j \in DOMAIN t, j < i, t[j].op = "EOS", t[j].sid = k
               PROVE  t[i].op # "WRITE"
    BY DEF NoDataAfterEos
  <2>1. j \in DOMAIN s
    BY <1>1
  <2> QED BY <1>2, <1>3, <1>4, <2>1 DEF NoDataAfterEos, NoEos
<1>14. EosLast(s) /\ (m.op \notin {"WRITE", "EOS"} \/ Lacks(s, "EOS")) => EosLast(t)
  <2> SUFFICES ASSUME EosLast(s), m.op \notin {"WRITE", "EOS"} \/ Lacks(s, "EOS"),
                      NEW i \in DOMAIN t, NEW j \in DOMAIN t, j < i, t[j].op = "EOS"
               PROVE  t[i].op \notin {"WRITE", "EOS"}
    BY DEF EosLast
  <2>1. j \in DOMAIN s
    BY <1>1
  <2> QED BY <1>2, <1>3, <1>4, <2>1 DEF EosLast, Lacks
<1> QED BY <1>1, <1>5, <1>6, <1>7, <1>8, <1>9, <1>10, <1>11, <1>12, <1>13, <1>14 DEF t

(* What the head of a queue is known to be, and what remains true without    *)
(* it.                                                                       *)
LEMMA ComprTail ==
    ASSUME NEW s \in Seq(ComprMessages), s # <<>>
    PROVE  /\ Head(s) \in ComprMessages /\ Tail(s) \in Seq(ComprMessages)
           /\ \A ops : Only(s, ops) => Head(s).op \in ops /\ Only(Tail(s), ops)
           /\ \A op : Lacks(s, op) <=> Head(s).op # op /\ Lacks(Tail(s), op)
           /\ Lone(s) => Lone(Tail(s)) /\ (Head(s).op = "WRITE" => Lacks(Tail(s), "WRITE"))
           /\ \A sid, left : AllCarry(s, sid, left) =>
                             Carries(Head(s), sid, left) /\ AllCarry(Tail(s), sid, left)
           /\ \A o : NoOld(s, o) <=> NoOld(Tail(s), o) /\ ~IsOld(Head(s), o)
           /\ \A k : NoEos(s, k) <=> NoEos(Tail(s), k) /\ ~(Head(s).op = "EOS" /\ Head(s).sid = k)
           /\ \A o : ClosesOld(s, o) =>
                     ClosesOld(Tail(s), o) /\ (Head(s).op = "CLOSE" => Head(s).sid = o)
           /\ \A o : OldFirst(s, o) =>
                     /\ OldFirst(Tail(s), o)
                     /\ Head(s).op \in {"RUN", "PAUSE"} \/ IsOld(Head(s), o) \/ NoOld(Tail(s), o)
           /\ \A k : NoDataAfterEos(s, k) =>
                     /\ NoDataAfterEos(Tail(s), k)
                     /\ Head(s).op = "EOS" /\ Head(s).sid = k => Lacks(Tail(s), "WRITE")
           /\ EosLast(s) => /\ EosLast(Tail(s))
                            /\ Head(s).op = "EOS" => Lacks(Tail(s), "WRITE") /\ Lacks(Tail(s), "EOS")
<1> DEFINE t == Tail(s)
<1> DEFINE h == Head(s)
<1>1. /\ h \in ComprMessages /\ t \in Seq(ComprMessages) /\ Len(s) \in Nat \ {0}
      /\ DOMAIN s = 1 .. Len(s) /\ DOMAIN t = 1 .. Len(s) - 1 /\ h = s[1] /\ 1 \in DOMAIN s
  OBVIOUS
<1>2. \A i \in DOMAIN t : i + 1 \in DOMAIN s /\ t[i] = s[i + 1]
  BY <1>1
<1>3. \A i \in DOMAIN s : i # 1 => i - 1 \in DOMAIN t /\ s[i] = t[i - 1]
  <2> SUFFICES ASSUME NEW i \in DOMAIN s, i # 1 PROVE i - 1 \in DOMAIN t /\ s[i] = t[i - 1]
    OBVIOUS
  <2>1. i - 1 \in DOMAIN t /\ (i - 1) + 1 = i
    BY <1>1
  <2> QED BY <1>2, <2>1
<1>4. \A i \in DOMAIN t : 1 < i + 1
  BY <1>1
<1>5. \A i, j \in DOMAIN t : i < j => i + 1 < j + 1
  BY <1>1
<1>6. \A i, j \in DOMAIN t : i + 1 = j + 1 => i = j
  BY <1>1
<1> HIDE DEF t, h
<1>7. \A ops : Only(s, ops) => h.op \in ops /\ Only(t, ops)
  BY <1>1, <1>2 DEF Only
<1>8. \A op : Lacks(s, op) <=> h.op # op /\ Lacks(t, op)
  BY <1>1, <1>2, <1>3 DEF Lacks
<1>9. Lone(s) => Lone(t) /\ (h.op = "WRITE" => Lacks(t, "WRITE"))
  <2> SUFFICES ASSUME Lone(s) PROVE Lone(t) /\ (h.op = "WRITE" => Lacks(t, "WRITE"))
    OBVIOUS
  <2>1. Lone(t)
    BY <1>2, <1>6 DEF Lone
  <2>2. ASSUME h.op = "WRITE", NEW i \in DOMAIN t PROVE t[i].op # "WRITE"
    <3>1. i + 1 # 1
      BY <1>1
    <3> QED BY <1>1, <1>2, <2>2, <3>1 DEF Lone
  <2> QED BY <2>1, <2>2 DEF Lacks
<1>10. \A sid, left : AllCarry(s, sid, left) => Carries(h, sid, left) /\ AllCarry(t, sid, left)
  BY <1>1, <1>2 DEF AllCarry
<1>11. \A o : NoOld(s, o) <=> NoOld(t, o) /\ ~IsOld(h, o)
  BY <1>1, <1>2, <1>3 DEF NoOld
<1>12. \A k : NoEos(s, k) <=> NoEos(t, k) /\ ~(h.op = "EOS" /\ h.sid = k)
  BY <1>1, <1>2, <1>3 DEF NoEos
<1>13. \A o : ClosesOld(s, o) => ClosesOld(t, o) /\ (h.op = "CLOSE" => h.sid = o)
  BY <1>1, <1>2 DEF ClosesOld
<1>14. ASSUME NEW o, OldFirst(s, o)
       PROVE  OldFirst(t, o) /\ (h.op \in {"RUN", "PAUSE"} \/ IsOld(h, o) \/ NoOld(t, o))
  <2>1. OldFirst(t, o)
    BY <1>2, <1>5, <1>14 DEF OldFirst
  <2>2. ASSUME NEW j \in DOMAIN t, IsOld(t[j], o) PROVE h.op \in {"RUN", "PAUSE"} \/ IsOld(h, o)
    BY <1>1, <1>2, <1>4, <1>14, <2>2 DEF OldFirst
  <2> QED BY <2>1, <2>2 DEF NoOld
<1>15. ASSUME NEW k, NoDataAfterEos(s, k)
       PROVE  NoDataAfterEos(t, k) /\ (h.op = "EOS" /\ h.sid = k => Lacks(t, "WRITE"))
  <2>1. NoDataAfterEos(t, k)
    BY <1>2, <1>5, <1>15 DEF NoDataAfterEos
  <2>2. ASSUME h.op = "EOS", h.sid = k, NEW i \in DOMAIN t PROVE t[i].op # "WRITE"
    BY <1>1, <1>2, <1>4, <1>15, <2>2 DEF NoDataAfterEos
  <2> QED BY <2>1, <2>2 DEF Lacks
<1>16. ASSUME EosLast(s)
       PROVE  EosLast(t) /\ (h.op = "EOS" => Lacks(t, "WRITE") /\ Lacks(t, "EOS"))
  <2>1. EosLast(t)
    BY <1>2, <1>5, <1>16 DEF EosLast
  <2>2. ASSUME h.op = "EOS", NEW i \in DOMAIN t PROVE t[i].op # "WRITE" /\ t[i].op # "EOS"
    BY <1>1, <1>2, <1>4, <1>16, <2>2 DEF EosLast
  <2> QED BY <2>1, <2>2 DEF Lacks
<1> QED
  BY <1>1, <1>7, <1>8, <1>9, <1>10, <1>11, <1>12, <1>13, <1>14, <1>15, <1>16 DEF t, h

(* When the active stream changes, all that is left of it in the queue is old. *)
LEMMA TurnsOld ==
    ASSUME NEW s \in Seq(ComprMessages), NEW m \in ComprMessages, NEW k \in {1, 2},
           Lacks(s, "WRITE"), NoOld(s, Other(k)), ClosesOld(s, Other(k))
    PROVE  OldFirst(Append(s, m), k) /\ ClosesOld(s, k) /\ NoEos(s, Other(k))
<1> DEFINE t == Append(s, m)
<1>1. DOMAIN s = 1 .. Len(s) /\ DOMAIN t = 1 .. Len(s) + 1 /\ Len(s) \in Nat
  OBVIOUS
<1>2. \A i \in DOMAIN s : t[i] = s[i] /\ s[i] \in ComprMessages
  OBVIOUS
<1> HIDE DEF t
<1>3. ASSUME NEW i \in DOMAIN s PROVE s[i].op \in {"RUN", "PAUSE"} \/ IsOld(s[i], k)
  <2>1. s[i].op \in {"RUN", "PAUSE", "EOS", "CLOSE"} /\ s[i].sid \in {1, 2}
    BY <1>2 DEF ComprMessages, Lacks
  <2>2. s[i].op \in {"EOS", "CLOSE"} => s[i].sid # Other(k)
    BY DEF NoOld, IsOld
  <2> QED BY <2>1, <2>2 DEF IsOld, Other
<1>4. \A i, j \in DOMAIN t : i < j => i \in DOMAIN s
  BY <1>1
<1>5. OldFirst(t, k)
  BY <1>2, <1>3, <1>4 DEF OldFirst
<1>6. ClosesOld(s, k)
  BY <1>3 DEF ClosesOld, IsOld
<1>7. NoEos(s, Other(k))
  BY DEF NoOld, NoEos, IsOld
<1> QED BY <1>5, <1>6, <1>7 DEF t

-----------------------------------------------------------------------------
(* The fields of the runtime data. *)
Records == [state : {"IDLE", "RUNNING", "STOPPED"}, received : Nat, sent : Nat, copied : Nat,
            sid : {1, 2}, nextSid : 0 .. 2, nextTrack : BOOLEAN, drain : BOOLEAN]

(* The states of the compress core. *)
CoreStates == {"open", "failed", "setup", "prepared", "running", "paused", "draining",
               "stopped", "closed"}

(* Types. *)
ComprTyped ==
    /\ cstate \in CoreStates /\ total \in Nat /\ partial \in BOOLEAN /\ switched \in BOOLEAN
    /\ p \in Records /\ dspBuf \in 0 .. Fragments - 1
    /\ ccmds \in Seq(ComprMessages) /\ cevts \in Seq(ComprMessages)
    /\ cdsp \in [open : SUBSET {1, 2}, running : BOOLEAN, held : Seq(ComprMessages),
                 ended : SUBSET {1, 2}]

(* No buffer is on its way to the DSP, held there, or on its way back. *)
NoBuffer == Lacks(ccmds, "WRITE") /\ Lacks(cdsp.held, "WRITE") /\ Lacks(cevts, "WRITE")

(* At most one buffer is in flight, and it is what has been sent and not yet *)
(* come back.                                                                *)
BufferInv ==
    /\ Only(cdsp.held, {"WRITE", "EOS"}) /\ Only(cevts, {"WRITE", "EOS", "RUN"})
    /\ Lone(ccmds) /\ Lone(cdsp.held) /\ Lone(cevts)
    /\ Lacks(ccmds, "WRITE") \/ Lacks(cdsp.held, "WRITE")
    /\ Lacks(ccmds, "WRITE") \/ Lacks(cevts, "WRITE")
    /\ Lacks(cdsp.held, "WRITE") \/ Lacks(cevts, "WRITE")
    /\ AllCarry(ccmds, p.sid, p.sent - p.copied)
    /\ AllCarry(cdsp.held, p.sid, p.sent - p.copied)
    /\ AllCarry(cevts, p.sid, p.sent - p.copied)
    /\ cstate # "closed" /\ NoBuffer => p.copied = p.sent

(* What is left in the queue of the stream that was active before. *)
OldInv ==
    LET other == Other(p.sid)
    IN /\ OldFirst(ccmds, other) /\ ClosesOld(ccmds, other)
       /\ NoOld(ccmds, other) \/ (cdsp.held = <<>> /\ Lacks(cevts, "WRITE") /\ Lacks(cevts, "EOS"))
       /\ NoEos(ccmds, other) \/ other \in cdsp.ended

(* Where the end of the active stream may be. *)
EosInv ==
    /\ cstate \in {"open", "failed", "setup", "prepared", "running", "paused"} =>
         NoEos(ccmds, p.sid) /\ Lacks(cdsp.held, "EOS") /\ Lacks(cevts, "EOS")
    /\ cstate = "draining" /\ p.nextTrack /\ switched =>
         NoEos(ccmds, p.sid) /\ Lacks(cdsp.held, "EOS") /\ Lacks(cevts, "EOS")
    /\ cstate = "draining" =>
         /\ (NoEos(ccmds, p.sid) /\ Lacks(cdsp.held, "EOS") /\ Lacks(cevts, "EOS"))
              \/ p.received = p.sent
         /\ NoDataAfterEos(ccmds, p.sid) /\ EosLast(cdsp.held) /\ EosLast(cevts)
         /\ Lacks(cdsp.held, "EOS")
              \/ (Lacks(ccmds, "WRITE") /\ Lacks(cevts, "EOS") /\ p.sid \in cdsp.ended)
         /\ Lacks(cevts, "EOS")
              \/ (Lacks(ccmds, "WRITE") /\ Lacks(cdsp.held, "WRITE") /\ p.sid \in cdsp.ended)

(* The byte counts. *)
CountInv ==
    /\ p.sent <= p.received /\ total <= p.copied + Size
    /\ dspBuf = Whole(p.sent) % Fragments
    /\ p.sent < p.received => p.sent = Fragment * Whole(p.sent)
    /\ p.state = "RUNNING" /\ cstate # "closed" /\ p.sent < p.received => ~NoBuffer

(* What the core's state says of the rest. *)
StateInv ==
    /\ partial => cstate = "draining" /\ p.nextTrack
    /\ p.drain => cstate \in {"draining", "stopped", "closed"}
    /\ cstate = "draining" => p.drain
    /\ cstate = "stopped" /\ p.state = "RUNNING" => ~p.drain /\ p.received = p.sent
    /\ cstate \in {"prepared", "running", "paused", "draining"} => p.state = "RUNNING"
    /\ cstate \in {"prepared", "running", "paused", "draining", "stopped"} => p.sent > 0
    /\ cstate \in {"open", "failed", "setup", "closed"} =>
         ccmds = <<>> /\ cevts = <<>> /\ cdsp.held = <<>>
    /\ cstate \in {"open", "failed", "setup"} =>
         p.sent = 0 /\ p.received = 0 /\ p.copied = 0 /\ total = 0 /\ ~p.nextTrack
    /\ cstate = "setup" => p.state = "RUNNING"
    /\ p.nextTrack /\ switched => p.received = p.sent /\ NoBuffer

(* Which streams the DSP may have open. *)
OpenInv ==
    /\ Other(p.sid) \in cdsp.open /\ Lacks(ccmds, "CLOSE") => p.nextTrack /\ ~switched
    /\ p.nextSid # 0 => (p.nextSid = Other(p.sid) <=> p.nextTrack /\ ~switched)
    /\ p.state = "IDLE" => cdsp.open = {}
    /\ cstate \in {"open", "failed"} => p.state = "IDLE"
    /\ cstate = "closed" /\ ~p.nextTrack => cdsp.open = {}

(* The inductive invariant. *)
ComprInv == ComprTyped /\ BufferInv /\ OldInv /\ EosInv /\ CountInv /\ StateInv /\ OpenInv

(* The first state satisfies the invariant. *)
LEMMA ComprStart == ASSUME ComprInit PROVE ComprInv
<1>1. Whole(0) = 0 /\ 0 % Fragments = 0
  <2>1. Fragment * 0 = 0 /\ Fragments * 0 + 0 = 0
    BY ComprAssumption
  <2> QED BY <2>1, WholeMultiple, DivisionUnique, ComprAssumption
<1>2. ComprTyped
  <2>1. 0 \in 0 .. Fragments - 1
    BY ComprAssumption
  <2>2. p \in Records
    BY DEF ComprInit, Records
  <2>3. /\ cdsp \in [open : SUBSET {1, 2}, running : BOOLEAN, held : Seq(ComprMessages),
                     ended : SUBSET {1, 2}]
    BY EmptyQueue DEF ComprInit
  <2> QED BY <2>1, <2>2, <2>3, EmptyQueue DEF ComprInit, ComprTyped, CoreStates
<1>3. BufferInv
  BY EmptyQueue DEF ComprInit, BufferInv, NoBuffer
<1>4. OldInv
  BY EmptyQueue DEF ComprInit, OldInv
<1>5. EosInv
  BY EmptyQueue DEF ComprInit, EosInv
<1>6. CountInv
  BY <1>1, ComprAssumption, SMT DEF ComprInit, CountInv, Size
<1>7. StateInv
  BY DEF ComprInit, StateInv
<1>8. OpenInv
  BY DEF ComprInit, OpenInv
<1> QED BY <1>2, <1>3, <1>4, <1>5, <1>6, <1>7, <1>8 DEF ComprInv

(* q6asm_dai_compr_set_params keeps the invariant, whether or not it fails. *)
LEMMA SetParamsKeeps == ASSUME ComprInv, SetParams PROVE ComprInv'
<1> USE DEF ComprInv
<1>1. ComprTyped'
  BY DEF ComprTyped, SetParams, CoreStates, Records
<1>2. /\ p'.sent = p.sent /\ p'.received = p.received /\ p'.copied = p.copied /\ p'.sid = p.sid
      /\ p'.nextTrack = p.nextTrack /\ p'.drain = p.drain /\ p'.nextSid = p.nextSid
      /\ cdsp'.held = cdsp.held
      /\ cdsp'.ended = cdsp.ended /\ p.sid \in {1, 2}
  BY DEF ComprTyped, SetParams, Records
<1>3. /\ ccmds' = ccmds /\ cevts' = cevts /\ dspBuf' = dspBuf /\ total' = total /\ partial' = partial
      /\ switched' = switched /\ cstate = "open" /\ cstate' \in {"setup", "failed"}
  BY DEF SetParams
<1>4. BufferInv'
  BY <1>2, <1>3 DEF BufferInv, NoBuffer
<1>5. OldInv'
  BY <1>2, <1>3 DEF OldInv
<1>6. EosInv'
  BY <1>2, <1>3 DEF EosInv
<1>7. CountInv'
  BY <1>2, <1>3 DEF CountInv, StateInv, NoBuffer
<1>8. StateInv'
  <2>1. cstate' = "setup" => p'.state = "RUNNING"
    BY DEF SetParams, ComprTyped, Records
  <2> QED BY <1>2, <1>3, <2>1 DEF StateInv, NoBuffer
<1>9. OpenInv'
  <2>1. \/ cstate' = "setup" /\ p'.state = "RUNNING" /\ cdsp'.open = {p.sid}
        \/ cstate' = "failed" /\ p' = p /\ cdsp' = cdsp
    BY DEF SetParams, ComprTyped, Records
  <2>2. Other(p.sid) \notin {p.sid}
    BY <1>2 DEF Other
  <2> QED BY <1>2, <1>3, <2>1, <2>2 DEF OpenInv
<1> QED BY <1>1, <1>4, <1>5, <1>6, <1>7, <1>8, <1>9

(* SND_COMPR_NEXT_TRACK keeps the invariant. *)
LEMMA NextTrackKeeps == ASSUME ComprInv, NextTrack PROVE ComprInv'
<1> USE DEF ComprInv
<1>0. p.sid \in {1, 2} /\ Other(p.sid) \in 0 .. 2
  BY DEF ComprTyped, Records, Other
<1>1. ComprTyped'
  BY <1>0 DEF ComprTyped, NextTrack, CoreStates, Records
<1>2. /\ p'.sent = p.sent /\ p'.received = p.received /\ p'.copied = p.copied /\ p'.sid = p.sid
      /\ p'.nextTrack /\ p'.drain = p.drain /\ p'.state = p.state /\ p'.nextSid = Other(p.sid)
  BY DEF ComprTyped, NextTrack, Records
<1>3. /\ ccmds' = ccmds /\ cevts' = cevts /\ dspBuf' = dspBuf /\ total' = total /\ partial' = partial
      /\ ~switched' /\ cstate = "running" /\ cstate' = cstate /\ cdsp' = cdsp
  BY DEF NextTrack
<1>4. BufferInv'
  BY <1>2, <1>3 DEF BufferInv, NoBuffer
<1>5. OldInv'
  BY <1>2, <1>3 DEF OldInv
<1>6. EosInv'
  BY <1>2, <1>3 DEF EosInv
<1>7. CountInv'
  BY <1>2, <1>3 DEF CountInv, NoBuffer
<1>8. StateInv'
  BY <1>2, <1>3 DEF StateInv, NoBuffer
<1>9. OpenInv'
  BY <1>2, <1>3 DEF OpenInv
<1> QED BY <1>1, <1>4, <1>5, <1>6, <1>7, <1>8, <1>9

(* The metadata call that opens the stream of the next track keeps it. *)
LEMMA SetDelayKeeps == ASSUME ComprInv, SetDelay PROVE ComprInv'
<1> USE DEF ComprInv
<1>0. p.sid \in {1, 2} /\ p.nextSid \in {1, 2}
  BY DEF ComprTyped, Records, SetDelay
<1>1. ComprTyped'
  <2>0. 0 \in 0 .. 2
    OBVIOUS
  <2>1. p' \in Records
    BY <2>0 DEF ComprTyped, SetDelay, Records
  <2>2. cdsp.open \cup {p.nextSid} \in SUBSET {1, 2}
    BY <1>0 DEF ComprTyped
  <2>3. cdsp' \in [open : SUBSET {1, 2}, running : BOOLEAN, held : Seq(ComprMessages),
                   ended : SUBSET {1, 2}]
    BY <2>2 DEF ComprTyped, SetDelay
  <2> QED BY <2>1, <2>3 DEF ComprTyped, SetDelay, coreVars
<1>2. /\ p'.sent = p.sent /\ p'.received = p.received /\ p'.copied = p.copied /\ p'.sid = p.sid
      /\ p'.nextTrack = p.nextTrack /\ p'.drain = p.drain /\ p'.state = p.state /\ p'.nextSid = 0
  BY DEF ComprTyped, SetDelay, Records
<1>3. /\ ccmds' = ccmds /\ cevts' = cevts /\ dspBuf' = dspBuf /\ total' = total /\ partial' = partial
      /\ switched' = switched /\ cstate = "running" /\ cstate' = cstate
      /\ cdsp'.held = cdsp.held /\ cdsp'.ended = cdsp.ended
      /\ cdsp'.open = cdsp.open \cup {p.nextSid} /\ p.nextSid # 0
  BY DEF SetDelay, coreVars, ComprTyped
<1>4. BufferInv'
  BY <1>2, <1>3 DEF BufferInv, NoBuffer
<1>5. OldInv'
  BY <1>2, <1>3 DEF OldInv
<1>6. EosInv'
  BY <1>2, <1>3 DEF EosInv
<1>7. CountInv'
  BY <1>2, <1>3 DEF CountInv, NoBuffer
<1>8. StateInv'
  BY <1>2, <1>3 DEF StateInv, NoBuffer
<1>9. OpenInv'
  <2>1. p.state = "RUNNING"
    BY <1>3 DEF StateInv
  <2> QED BY <1>2, <1>3, <2>1 DEF OpenInv
<1> QED BY <1>1, <1>4, <1>5, <1>6, <1>7, <1>8, <1>9

(* Both kinds of drain keep it. *)
LEMMA DrainKeeps == ASSUME ComprInv, Drain PROVE ComprInv'
<1> USE DEF ComprInv
<1>1. ComprTyped'
  BY DEF ComprTyped, Drain, CoreStates, Records
<1>2. /\ p'.sent = p.sent /\ p'.received = p.received /\ p'.copied = p.copied /\ p'.sid = p.sid
      /\ p'.nextTrack = p.nextTrack /\ p'.drain /\ p'.state = p.state /\ p'.nextSid = p.nextSid
  BY DEF ComprTyped, Drain, Records
<1>3. /\ ccmds' = ccmds /\ cevts' = cevts /\ dspBuf' = dspBuf /\ total' = total
      /\ switched' = switched /\ cstate = "running" /\ cstate' = "draining" /\ cdsp' = cdsp
      /\ partial' => p.nextTrack
  BY DEF Drain
<1>4. BufferInv'
  BY <1>2, <1>3 DEF BufferInv, NoBuffer
<1>5. OldInv'
  BY <1>2, <1>3 DEF OldInv
<1>6. EosInv'
  <2>1. NoEos(ccmds, p.sid) /\ Lacks(cdsp.held, "EOS") /\ Lacks(cevts, "EOS")
    BY <1>3 DEF EosInv
  <2>2. NoDataAfterEos(ccmds, p.sid) /\ EosLast(cdsp.held) /\ EosLast(cevts)
    BY <2>1 DEF NoEos, Lacks, NoDataAfterEos, EosLast
  <2> QED BY <1>2, <1>3, <2>1, <2>2 DEF EosInv
<1>7. CountInv'
  BY <1>2, <1>3 DEF CountInv, NoBuffer
<1>8. StateInv'
  BY <1>2, <1>3 DEF StateInv, NoBuffer
<1>9. OpenInv'
  BY <1>2, <1>3 DEF OpenInv
<1> QED BY <1>1, <1>4, <1>5, <1>6, <1>7, <1>8, <1>9

(* RUN, PAUSE and the EOS of a stop. *)
LEMMA TriggerKeeps ==
    ASSUME ComprInv, Run \/ ComprPause \/ ComprStop PROVE ComprInv'
<1> USE DEF ComprInv
<1>0. PICK op \in {"RUN", "PAUSE", "EOS"} : ccmds' = Append(ccmds, Cmd(op, 0)) /\ (op = "EOS" <=> cstate' = "stopped")
  BY DEF Run, ComprPause, ComprStop, ComprTrigger
<1> DEFINE m == Cmd(op, 0)
<1>m. m \in ComprMessages /\ m.op = op /\ m.sid = p.sid /\ p.sid \in {1, 2}
  BY DEF ComprTyped, Records, Cmd, ComprMessages
<1>a. ccmds' = Append(ccmds, m) /\ ccmds \in Seq(ComprMessages)
  BY <1>0 DEF ComprTyped
<1> HIDE DEF m
<1>1. ComprTyped'
  <2>1. ccmds' \in Seq(ComprMessages)
    BY <1>m, <1>a
  <2>2. CASE Run
    BY <2>1, <2>2 DEF ComprTyped, Run, ComprTrigger, CoreStates, Records
  <2>3. CASE ComprPause
    BY <2>1, <2>3 DEF ComprTyped, ComprPause, ComprTrigger, CoreStates, Records
  <2>4. CASE ComprStop
    BY <2>1, <2>4 DEF ComprTyped, ComprStop, ComprTrigger, CoreStates, Records
  <2> QED BY <2>2, <2>3, <2>4
<1>2. /\ p'.sent = p.sent /\ p'.received = p.received /\ p'.copied = p.copied /\ p'.sid = p.sid
      /\ p'.nextTrack = p.nextTrack /\ p'.drain = p.drain /\ p'.nextSid = p.nextSid
      /\ \/ op # "EOS" /\ p'.state = p.state /\ cstate' \in {"running", "paused"} /\ partial' = partial
         \/ op = "EOS" /\ p'.state = "STOPPED" /\ cstate' = "stopped" /\ partial' = FALSE
  BY <1>0 DEF ComprTyped, Run, ComprPause, ComprStop, ComprTrigger, Records
<1>3. /\ cevts' = cevts /\ dspBuf' = dspBuf /\ total' = total
      /\ switched' = switched /\ cdsp' = cdsp
      /\ cstate \in {"prepared", "paused", "running", "draining"}
      /\ op # "EOS" => cstate # "draining"
  BY <1>0 DEF Run, ComprPause, ComprStop, ComprTrigger
<1>q. /\ Lacks(ccmds', "WRITE") <=> Lacks(ccmds, "WRITE")
      /\ Lacks(ccmds', "CLOSE") <=> Lacks(ccmds, "CLOSE")
      /\ Lone(ccmds) => Lone(ccmds')
      /\ \A left : AllCarry(ccmds, p.sid, left) => AllCarry(ccmds', p.sid, left)
      /\ \A o : o # p.sid => (NoOld(ccmds', o) <=> NoOld(ccmds, o)) /\ (NoEos(ccmds', o) <=> NoEos(ccmds, o))
      /\ op # "EOS" => (NoEos(ccmds', p.sid) <=> NoEos(ccmds, p.sid))
      /\ \A o : ClosesOld(ccmds, o) => ClosesOld(ccmds', o)
      /\ \A o : o # p.sid /\ OldFirst(ccmds, o) => OldFirst(ccmds', o)
  BY <1>m, <1>a, ComprAppend DEF IsOld, Carries
<1>o. Other(p.sid) # p.sid
  BY <1>m DEF Other
<1>4. BufferInv'
  BY <1>2, <1>3, <1>q DEF BufferInv, NoBuffer
<1>5. OldInv'
  BY <1>2, <1>3, <1>q, <1>o DEF OldInv
<1>6. EosInv'
  BY <1>2, <1>3, <1>q DEF EosInv
<1>7. CountInv'
  BY <1>2, <1>3, <1>q DEF CountInv, NoBuffer
<1>8. StateInv'
  BY <1>2, <1>3, <1>q DEF StateInv, NoBuffer
<1>9. OpenInv'
  BY <1>2, <1>3, <1>q DEF OpenInv, StateInv
<1> QED BY <1>1, <1>4, <1>5, <1>6, <1>7, <1>8, <1>9

(* q6asm_dai_compr_free leaves no stream open unless a track was             *)
(* announced.                                                                *)
LEMMA FreeKeeps == ASSUME ComprInv, Free PROVE ComprInv'
<1> USE DEF ComprInv
<1>0. p.sid \in {1, 2} /\ Other(p.sid) # p.sid /\ cdsp.open \subseteq {p.sid, Other(p.sid)}
  BY DEF ComprTyped, Records, Other
<1>1. ComprTyped'
  <2>2. cdsp.open \ (FreeCloses \cup Closing) \in SUBSET {1, 2}
    BY DEF ComprTyped
  <2>3. cdsp' \in [open : SUBSET {1, 2}, running : BOOLEAN, held : Seq(ComprMessages),
                   ended : SUBSET {1, 2}]
    BY <2>2, EmptyQueue DEF Free
  <2> QED BY <2>3, EmptyQueue DEF ComprTyped, Free, CoreStates
<1>3. /\ ccmds' = <<>> /\ cevts' = <<>> /\ cdsp'.held = <<>> /\ dspBuf' = dspBuf /\ total' = total
      /\ partial' = partial /\ switched' = switched /\ cstate' = "closed" /\ p' = p
      /\ cdsp'.open = cdsp.open \ (FreeCloses \cup Closing)
      /\ cstate \in {"open", "failed", "setup", "prepared", "stopped"}
  BY DEF Free
<1>4. BufferInv'
  BY <1>3, EmptyQueue DEF BufferInv, NoBuffer
<1>5. OldInv'
  BY <1>3, EmptyQueue DEF OldInv
<1>6. EosInv'
  BY <1>3 DEF EosInv
<1>7. CountInv'
  BY <1>3 DEF CountInv
<1>8. StateInv'
  BY <1>3, EmptyQueue DEF StateInv, NoBuffer
<1>9. OpenInv'
  <2>1. CASE p.state = "IDLE"
    BY <1>3, <2>1 DEF OpenInv
  <2>2. CASE p.state # "IDLE"
    <3>1. p.sid \notin cdsp'.open
      BY <1>3, <2>2 DEF FreeCloses
    <3>2. ASSUME Other(p.sid) \in cdsp'.open PROVE p.nextTrack /\ ~switched
      <4>1. Other(p.sid) \in cdsp.open /\ Other(p.sid) \notin Closing
        BY <1>3, <3>2
      <4>2. Lacks(ccmds, "CLOSE")
        BY <4>1 DEF Lacks, Closing, OldInv, ClosesOld
      <4> QED BY <4>1, <4>2 DEF OpenInv
    <3> QED BY <1>0, <1>3, <2>2, <3>1, <3>2 DEF OpenInv
  <2> QED BY <2>1, <2>2
<1> QED BY <1>1, <1>4, <1>5, <1>6, <1>7, <1>8, <1>9

(* RUN_DONE never finds the client without data. *)
LEMMA RunDoneKeeps == ASSUME ComprInv, RunDone PROVE ComprInv'
<1> USE DEF ComprInv
<1>0. cevts # <<>> /\ cevts \in Seq(ComprMessages) /\ Head(cevts).op = "RUN" /\ cevts' = Tail(cevts)
  BY DEF RunDone, ComprTyped
<1>1. p.sent > 0
  BY <1>0 DEF StateInv, ComprTyped, CoreStates
<1>2. p' = p /\ ccmds' = ccmds /\ dspBuf' = dspBuf
  <2>1. p.sent # 0
    BY <1>1 DEF ComprTyped, Records
  <2> QED BY <2>1 DEF RunDone
<1>3. /\ total' = total /\ partial' = partial /\ switched' = switched /\ cstate' = cstate /\ cdsp' = cdsp
  BY DEF RunDone, coreVars
<1>q. /\ cevts' \in Seq(ComprMessages)
      /\ \A ops : Only(cevts, ops) => Only(cevts', ops)
      /\ \A op : op # "RUN" => (Lacks(cevts, op) <=> Lacks(cevts', op))
      /\ Lone(cevts) => Lone(cevts')
      /\ \A sid, left : AllCarry(cevts, sid, left) => AllCarry(cevts', sid, left)
      /\ EosLast(cevts) => EosLast(cevts')
  BY <1>0, ComprTail
<1>4. ComprTyped'
  BY <1>2, <1>3, <1>q DEF ComprTyped
<1>5. BufferInv'
  BY <1>2, <1>3, <1>q DEF BufferInv, NoBuffer
<1>6. OldInv'
  BY <1>2, <1>3, <1>q DEF OldInv
<1>7. EosInv'
  BY <1>2, <1>3, <1>q DEF EosInv
<1>8. CountInv'
  BY <1>2, <1>3, <1>q DEF CountInv, NoBuffer
<1>9. StateInv'
  BY <1>0, <1>2, <1>3, <1>q DEF StateInv, NoBuffer
<1>10. OpenInv'
  BY <1>2, <1>3 DEF OpenInv
<1> QED BY <1>4, <1>5, <1>6, <1>7, <1>8, <1>9, <1>10

(* The end of a stream, of a whole one or of the track before the next. *)
LEMMA EosDoneKeeps == ASSUME ComprInv, EosDone PROVE ComprInv'
<1> USE DEF ComprInv
<1>0. cevts # <<>> /\ cevts \in Seq(ComprMessages) /\ Head(cevts).op = "EOS" /\ cevts' = Tail(cevts)
  BY DEF EosDone, ComprTyped
<1>q. /\ cevts' \in Seq(ComprMessages)
      /\ \A ops : Only(cevts, ops) => Only(cevts', ops)
      /\ \A op : op # "EOS" => (Lacks(cevts, op) <=> Lacks(cevts', op))
      /\ Lacks(cevts, "EOS") => Lacks(cevts', "EOS")
      /\ Lone(cevts) => Lone(cevts')
      /\ \A sid, left : AllCarry(cevts, sid, left) => AllCarry(cevts', sid, left)
      /\ EosLast(cevts) => EosLast(cevts') /\ Lacks(cevts', "WRITE") /\ Lacks(cevts', "EOS")
      /\ ~Lacks(cevts, "EOS")
  BY <1>0, ComprTail
<1>s. cstate \in {"draining", "stopped"}
  BY <1>0, <1>q DEF StateInv, EosInv, ComprTyped, CoreStates
<1>i. /\ total' = total /\ dspBuf' = dspBuf /\ cdsp' = cdsp
  BY DEF EosDone
<1>1. CASE p.drain /\ partial
  <2>1. /\ ccmds' = Append(ccmds, Cmd("CLOSE", 0)) /\ cstate' = "running" /\ partial' = FALSE
        /\ switched' = TRUE /\ p' = [p EXCEPT !.sid = Other(@), !.drain = FALSE]
    BY <1>1 DEF EosDone
  <2> DEFINE m == Cmd("CLOSE", 0)
  <2>2. /\ m \in ComprMessages /\ m.op = "CLOSE" /\ m.sid = p.sid /\ p.sid \in {1, 2}
        /\ Other(p.sid) \in {1, 2} /\ Other(p.sid) # p.sid /\ Other(Other(p.sid)) = p.sid
    BY DEF ComprTyped, Records, Cmd, ComprMessages, Other
  <2>3. ccmds' = Append(ccmds, m) /\ ccmds \in Seq(ComprMessages)
    BY <2>1 DEF ComprTyped
  <2> HIDE DEF m
  <2>4. /\ p'.sent = p.sent /\ p'.received = p.received /\ p'.copied = p.copied
        /\ p'.sid = Other(p.sid) /\ p'.nextTrack = p.nextTrack /\ ~p'.drain /\ p'.state = p.state
        /\ p'.nextSid = p.nextSid
    BY <2>1 DEF ComprTyped, Records
  <2>5. cstate = "draining" /\ p.nextTrack /\ ~switched
    BY <1>1, <1>q DEF StateInv, EosInv, ComprTyped
  <2>6. /\ Lacks(ccmds, "WRITE") /\ Lacks(cdsp.held, "WRITE") /\ Lacks(cevts', "WRITE")
        /\ Lacks(cdsp.held, "EOS") /\ Lacks(cevts', "EOS") /\ p.sid \in cdsp.ended
        /\ p.received = p.sent /\ NoOld(ccmds, Other(p.sid))
    BY <1>q, <2>5 DEF EosInv, OldInv
  <2>7. cdsp.held = <<>>
    BY <2>6 DEF BufferInv, Only, Lacks, ComprTyped
  <2>8. /\ ccmds' \in Seq(ComprMessages) /\ Lacks(ccmds', "WRITE") /\ Lone(ccmds')
        /\ ~Lacks(ccmds', "CLOSE")
        /\ OldFirst(ccmds', p.sid) /\ ClosesOld(ccmds', p.sid) /\ NoEos(ccmds', Other(p.sid))
    BY <2>2, <2>3, <2>6, ComprAppend, TurnsOld DEF BufferInv, OldInv
  <2>9. NoBuffer' /\ p.copied = p.sent
    <3>1. Lacks(cevts, "WRITE")
      BY <1>q, <2>6
    <3> QED BY <2>5, <2>6, <2>8, <3>1, <1>i DEF NoBuffer, BufferInv
  <2>10. ComprTyped'
    <3>1. p' \in Records
      BY <2>1, <2>2 DEF ComprTyped, Records
    <3> QED BY <1>i, <1>q, <2>1, <2>8, <3>1 DEF ComprTyped, CoreStates
  <2>11. BufferInv'
    <3>1. \A s, sid, left : Lacks(s, "WRITE") => AllCarry(s, sid, left)
      BY DEF Lacks, AllCarry, Carries
    <3> QED BY <1>i, <1>q, <2>4, <2>6, <2>8, <2>9, <3>1 DEF BufferInv
  <2>12. OldInv'
    BY <1>i, <2>2, <2>4, <2>6, <2>7, <2>8 DEF OldInv
  <2>13. EosInv'
    BY <1>i, <2>1, <2>4, <2>6, <2>8 DEF EosInv
  <2>14. CountInv'
    BY <1>i, <2>1, <2>4, <2>6 DEF CountInv, ComprTyped, Records
  <2>15. StateInv'
    BY <1>i, <2>1, <2>4, <2>5, <2>6, <2>9 DEF StateInv
  <2>16. OpenInv'
    <3>1. p.nextSid # 0 => p.nextSid = Other(p.sid)
      BY <2>5 DEF OpenInv
    <3>2. p'.state = "RUNNING"
      BY <2>4, <2>5 DEF StateInv
    <3> QED BY <1>i, <2>1, <2>2, <2>4, <2>8, <3>1, <3>2 DEF OpenInv
  <2> QED BY <2>10, <2>11, <2>12, <2>13, <2>14, <2>15, <2>16
<1>2. CASE ~(p.drain /\ partial)
  <2>1. /\ ccmds' = ccmds /\ partial' = partial /\ switched' = switched
        /\ \/ /\ p.drain /\ ~partial /\ p' = [p EXCEPT !.drain = FALSE]
              /\ cstate' = "stopped"
           \/ ~p.drain /\ p' = [p EXCEPT !.state = "STOPPED"] /\ cstate' = cstate
    BY <1>2, <1>s DEF EosDone
  <2>2. /\ p'.sent = p.sent /\ p'.received = p.received /\ p'.copied = p.copied
        /\ p'.sid = p.sid /\ p'.nextTrack = p.nextTrack /\ p'.nextSid = p.nextSid
        /\ cstate' = "stopped" /\ ~partial /\ ~p'.drain
        /\ p'.state \in {p.state, "STOPPED"}
        /\ p'.state = "RUNNING" => p.received = p.sent
    <3>1. cstate = "draining" => p.received = p.sent
      BY <1>q DEF EosInv
    <3>2. ~p.drain => cstate = "stopped" /\ ~partial
      BY <1>s DEF StateInv
    <3>3. CASE p.drain
      BY <1>s, <2>1, <3>1, <3>3 DEF ComprTyped, Records, StateInv
    <3>4. CASE ~p.drain
      BY <2>1, <3>2, <3>4 DEF ComprTyped, Records
    <3> QED BY <3>3, <3>4
  <2>10. ComprTyped'
    <3>1. p' \in Records
      BY <2>1 DEF ComprTyped, Records
    <3> QED BY <1>i, <1>q, <2>1, <2>2, <3>1 DEF ComprTyped, CoreStates
  <2>11. BufferInv'
    BY <1>i, <1>q, <1>s, <2>1, <2>2 DEF BufferInv, NoBuffer
  <2>12. OldInv'
    BY <1>i, <1>q, <2>1, <2>2 DEF OldInv
  <2>13. EosInv'
    BY <2>2 DEF EosInv
  <2>14. CountInv'
    BY <1>i, <1>s, <2>1, <2>2 DEF CountInv, ComprTyped, Records
  <2>15. StateInv'
    BY <1>i, <1>q, <1>s, <2>1, <2>2 DEF StateInv, NoBuffer
  <2>16. OpenInv'
    BY <1>i, <1>s, <2>1, <2>2 DEF OpenInv, StateInv
  <2> QED BY <2>10, <2>11, <2>12, <2>13, <2>14, <2>15, <2>16
<1> QED BY <1>1, <1>2

(* Sending a buffer from a fragment boundary moves the ring on by one period. *)
LEMMA RingMoves ==
    ASSUME NEW a \in Nat, NEW len \in 1 .. Fragment, a = Fragment * Whole(a)
    PROVE  /\ a % Size = (Whole(a) % Fragments) * Fragment
           /\ ((Whole(a) % Fragments) + 1) % Fragments = Whole(a + len) % Fragments
           /\ ((Whole(a) % Fragments) + 1) % Fragments \in 0 .. Fragments - 1
           /\ len = Fragment => a + len = Fragment * Whole(a + len)
<1>1. Whole(a) \in Nat /\ Whole(a) + 1 \in Nat
  BY WholeUp
<1>2. Whole(a + len) = Whole(a) + 1
  BY <1>1, WholeOf
<1>3. (Fragment * Whole(a)) % Size = (Whole(a) % Fragments) * Fragment
  BY <1>1, RingPosition
<1>4. ((Whole(a) % Fragments) + 1) % Fragments = (Whole(a) + 1) % Fragments
  BY <1>1, RingPosition
<1>5. (Whole(a) + 1) % Fragments \in 0 .. Fragments - 1
  BY <1>1, RingPosition
<1>6. Fragment * (Whole(a) + 1) = Fragment * Whole(a) + Fragment
  BY <1>1, ComprAssumption, SMT
<1>7. len = Fragment => a + len = Fragment * Whole(a + len)
  BY <1>2, <1>6
<1> QED BY <1>2, <1>3, <1>4, <1>5, <1>7

(* A queue without buffers carries whatever is in flight. *)
LEMMA CarryNothing ==
    \A s, sid, left : Lacks(s, "WRITE") => AllCarry(s, sid, left) /\ Lone(s)
BY DEF Lacks, AllCarry, Carries, Lone

(* Without anything of a stream in the queue its EOS is not there. *)
LEMMA NoOldNoEos == \A s, o : NoOld(s, o) => NoEos(s, o)
BY DEF NoOld, NoEos, IsOld

(* A buffer is sent while none is in flight. *)
LEMMA SendsBuffer ==
    ASSUME ComprInv, Lacks(ccmds, "WRITE"),
           NEW a \in Nat, NEW len \in 1 .. Fragment, a = Fragment * Whole(a), Whole(a) = Whole(p.sent)
    PROVE  LET m == [Cmd("WRITE", len) EXCEPT !.at = a]
               q == Append(ccmds, m)
           IN /\ q \in Seq(ComprMessages) /\ Lone(q) /\ ~Lacks(q, "WRITE")
              /\ AllCarry(q, p.sid, len)
              /\ Lacks(q, "CLOSE") <=> Lacks(ccmds, "CLOSE")
              /\ NoOld(q, Other(p.sid)) <=> NoOld(ccmds, Other(p.sid))
              /\ OldFirst(q, Other(p.sid)) /\ ClosesOld(q, Other(p.sid))
              /\ NoEos(q, Other(p.sid)) <=> NoEos(ccmds, Other(p.sid))
              /\ NoEos(q, p.sid) <=> NoEos(ccmds, p.sid)
              /\ NoEos(ccmds, p.sid) => NoDataAfterEos(q, p.sid)
<1> DEFINE m == [Cmd("WRITE", len) EXCEPT !.at = a]
<1>1. /\ m \in ComprMessages /\ m.op = "WRITE" /\ m.sid = p.sid /\ m.len = len /\ m.at = a
      /\ m.slot = dspBuf /\ p.sid \in {1, 2} /\ Other(p.sid) # p.sid
  <2>1. dspBuf \in Nat /\ len \in Nat /\ p.sid \in {1, 2} /\ p.sent \in Nat
    BY ComprAssumption DEF ComprInv, ComprTyped, Records
  <2>2. m = [op |-> "WRITE", sid |-> p.sid, len |-> len, at |-> a, slot |-> dspBuf]
    BY DEF Cmd
  <2> QED BY <2>1, <2>2 DEF ComprMessages, Other
<1> HIDE DEF m
<1>2. Carries(m, p.sid, len)
  <2>1. a % Size = dspBuf * Fragment
    BY RingMoves DEF ComprInv, CountInv
  <2> QED BY <1>1, <2>1 DEF Carries
<1>3. ~IsOld(m, Other(p.sid))
  BY <1>1 DEF IsOld
<1>4. ccmds \in Seq(ComprMessages) /\ Lone(ccmds) /\ AllCarry(ccmds, p.sid, len)
  BY CarryNothing DEF ComprInv, ComprTyped
<1>5. OldFirst(ccmds, Other(p.sid)) /\ ClosesOld(ccmds, Other(p.sid))
  BY DEF ComprInv, OldInv
<1>6. NoEos(ccmds, p.sid) => NoDataAfterEos(ccmds, p.sid)
  BY DEF NoEos, NoDataAfterEos
<1>7. m.op # "CLOSE" /\ ~(m.op = "EOS" /\ m.sid = p.sid)
  BY <1>1
<1>8. Append(ccmds, m) \in Seq(ComprMessages) /\ Lone(Append(ccmds, m))
  BY <1>1, <1>4, ComprAppend
<1>9. AllCarry(Append(ccmds, m), p.sid, len)
  BY <1>1, <1>2, <1>4, ComprAppend
<1>10. /\ OldFirst(Append(ccmds, m), Other(p.sid)) /\ ClosesOld(Append(ccmds, m), Other(p.sid))
       /\ NoOld(Append(ccmds, m), Other(p.sid)) <=> NoOld(ccmds, Other(p.sid))
  BY <1>1, <1>3, <1>4, <1>5, <1>7, ComprAppend
<1>11. /\ NoEos(Append(ccmds, m), p.sid) <=> NoEos(ccmds, p.sid)
       /\ NoEos(ccmds, p.sid) => NoDataAfterEos(Append(ccmds, m), p.sid)
  BY <1>1, <1>4, <1>6, <1>7, ComprAppend
<1> QED BY <1>1, <1>3, <1>4, <1>7, <1>8, <1>9, <1>10, <1>11, ComprAppend DEF m

(* The three outcomes of a copy: nothing sent, a buffer of the active        *)
(* stream sent, and the first buffer of the next track sent.                 *)
LEMMA WriteCases ==
    ASSUME ComprInv, WaitsForDrain, Write
    PROVE  \E count \in Nat \ {0} :
             /\ total' = total + count /\ total' <= p.copied + Size
             /\ \/ \E a \in Nat, len \in 1 .. Fragment :
                     /\ NoBuffer /\ p.copied = p.sent /\ p.received = p.sent /\ p.sent <= a
                     /\ a = Fragment * Whole(a) /\ Whole(a) = Whole(p.sent)
                     /\ len <= count /\ (len # count => len = Fragment)
                     /\ p' = [p EXCEPT !.received = a + count, !.copied = a, !.nextTrack = FALSE,
                                       !.sent = a + len]
                     /\ ccmds' = Append(ccmds, [Cmd("WRITE", len) EXCEPT !.at = a])
                     /\ dspBuf' = (dspBuf + 1) % Fragments
                \/ /\ ~NoBuffer /\ p.sent = Fragment * Whole(p.sent) /\ ~p.nextTrack
                   /\ p' = [p EXCEPT !.received = p.received + count]
                   /\ ccmds' = ccmds /\ dspBuf' = dspBuf
<1> USE DEF ComprInv
<1>1. PICK count \in 1 .. CoreRoom : total' = total + count /\ Copy(count)
  BY DEF Write
<1>2. /\ p.sent \in Nat /\ p.received \in Nat /\ p.copied \in Nat /\ total \in Nat
      /\ Fragment \in Nat \ {0} /\ Size \in Nat
  BY ComprAssumption, SMT DEF ComprTyped, Records, Size
<1>3. count \in Nat \ {0} /\ total' = total + count /\ total' <= p.copied + Size
  BY <1>1, <1>2 DEF CoreRoom, Pointer
<1>4. p.state = "RUNNING" /\ cstate # "closed"
  BY DEF Write, StateInv
<1>5. CASE p.nextTrack
  <2>1. p.received = p.sent /\ NoBuffer /\ p.copied = p.sent
    BY <1>4, <1>5 DEF Write, StateInv, BufferInv
  <2> DEFINE a == Align(p.sent)
  <2> DEFINE len == IF count < Fragment THEN count ELSE Fragment
  <2>2. a \in Nat /\ p.sent <= a /\ a = Fragment * Whole(p.sent) /\ Whole(p.sent) \in Nat
    BY <1>2, WholeUp
  <2>3. Whole(a) = Whole(p.sent)
    BY <2>2, WholeMultiple
  <2> HIDE DEF a
  <2>4. len \in 1 .. Fragment /\ len <= count /\ (len # count => len = Fragment)
    BY <1>2, <1>3
  <2>5. (a + count) - a = count
    BY <1>3, <2>2
  <2>6. /\ p' = [p EXCEPT !.received = a + count, !.copied = a, !.nextTrack = FALSE,
                          !.sent = a + len]
        /\ ccmds' = Append(ccmds, [Cmd("WRITE", len) EXCEPT !.at = a])
        /\ dspBuf' = (dspBuf + 1) % Fragments
    BY <1>1, <1>4, <1>5, <2>1, <2>5 DEF Copy, a
  <2> HIDE DEF len
  <2> QED BY <1>3, <2>1, <2>2, <2>3, <2>4, <2>6
<1>6. CASE ~p.nextTrack
  <2>1. p.received % Fragment = 0
    BY <1>6 DEF Write
  <2>2. p.received = Fragment * Whole(p.received)
    <3>1. /\ p.received \div Fragment \in Nat
          /\ p.received = Fragment * (p.received \div Fragment) + (p.received % Fragment)
      BY <1>2, Division
    <3>2. Fragment * (p.received \div Fragment) \in Nat
      BY <1>2, <3>1, SMT
    <3>3. p.received = Fragment * (p.received \div Fragment)
      BY <2>1, <3>1, <3>2
    <3> QED BY <3>1, <3>3, WholeMultiple
  <2>3. CASE NoBuffer
    <3>1. p.copied = p.sent /\ p.received = p.sent
      BY <1>2, <1>4, <2>3 DEF BufferInv, CountInv
    <3> DEFINE len == IF count < Fragment THEN count ELSE Fragment
    <3>2. len \in 1 .. Fragment /\ len <= count /\ (len # count => len = Fragment)
      BY <1>2, <1>3
    <3>3. (p.sent + count) - p.sent = count
      BY <1>2, <1>3
    <3>4. /\ p' = [p EXCEPT !.received = p.sent + count, !.copied = p.sent, !.nextTrack = FALSE,
                            !.sent = p.sent + len]
          /\ ccmds' = Append(ccmds, [Cmd("WRITE", len) EXCEPT !.at = p.sent])
          /\ dspBuf' = (dspBuf + 1) % Fragments
      BY <1>1, <1>4, <1>6, <3>1, <3>3 DEF Copy
    <3> HIDE DEF len
    <3>5. p.sent <= p.sent
      BY <1>2
    <3> QED BY <1>2, <1>3, <2>2, <2>3, <3>1, <3>2, <3>4, <3>5
  <2>4. CASE ~NoBuffer
    <3>1. p.copied < p.sent
      <4>1. \E m \in ComprMessages : Carries(m, p.sid, p.sent - p.copied) /\ m.op = "WRITE"
        <5>1. ASSUME NEW s \in Seq(ComprMessages), ~Lacks(s, "WRITE"), AllCarry(s, p.sid, p.sent - p.copied)
              PROVE  \E m \in ComprMessages : Carries(m, p.sid, p.sent - p.copied) /\ m.op = "WRITE"
          BY <5>1 DEF Lacks, AllCarry
        <5> QED BY <2>4, <5>1 DEF NoBuffer, BufferInv, ComprTyped
      <4>2. p.sent - p.copied \in 1 .. Fragment
        BY <4>1 DEF Carries
      <4> QED BY <1>2, <4>2
    <3>2. p.received # p.copied /\ p.sent = Fragment * Whole(p.sent)
      BY <1>2, <2>2, <3>1 DEF CountInv
    <3>3. p' = [p EXCEPT !.received = p.received + count] /\ ccmds' = ccmds /\ dspBuf' = dspBuf
      BY <1>1, <1>6, <3>2 DEF Copy, ComprTyped, Records
    <3> QED BY <1>3, <1>6, <2>4, <3>2, <3>3
  <2> QED BY <2>3, <2>4
<1> QED BY <1>5, <1>6

(* A copy from user space keeps the invariant. *)
LEMMA WriteKeeps == ASSUME ComprInv, WaitsForDrain, Write PROVE ComprInv'
<1> USE DEF ComprInv
<1>0. /\ p.sent \in Nat /\ p.received \in Nat /\ p.copied \in Nat /\ total \in Nat /\ p.sid \in {1, 2}
      /\ Fragment \in Nat \ {0} /\ Size \in Nat
  BY ComprAssumption, SMT DEF ComprTyped, Records, Size
<1>1. /\ cevts' = cevts /\ cdsp' = cdsp /\ switched' = switched /\ partial' = partial
      /\ cstate \in {"setup", "prepared", "running"} /\ cstate' \in {"prepared", "running"}
      /\ p.nextTrack => switched
  BY DEF Write
<1>2. p.state = "RUNNING" /\ ~partial /\ ~p.drain
  BY <1>1 DEF StateInv
<1>3. NoEos(ccmds, p.sid) /\ Lacks(cdsp.held, "EOS") /\ Lacks(cevts, "EOS")
  BY <1>1 DEF EosInv
<1>4. PICK count \in Nat \ {0} :
        /\ total' = total + count /\ total' <= p.copied + Size
        /\ \/ \E a \in Nat, len \in 1 .. Fragment :
                /\ NoBuffer /\ p.copied = p.sent /\ p.received = p.sent /\ p.sent <= a
                /\ a = Fragment * Whole(a) /\ Whole(a) = Whole(p.sent)
                /\ len <= count /\ (len # count => len = Fragment)
                /\ p' = [p EXCEPT !.received = a + count, !.copied = a, !.nextTrack = FALSE,
                                  !.sent = a + len]
                /\ ccmds' = Append(ccmds, [Cmd("WRITE", len) EXCEPT !.at = a])
                /\ dspBuf' = (dspBuf + 1) % Fragments
           \/ /\ ~NoBuffer /\ p.sent = Fragment * Whole(p.sent) /\ ~p.nextTrack
              /\ p' = [p EXCEPT !.received = p.received + count]
              /\ ccmds' = ccmds /\ dspBuf' = dspBuf
  BY WriteCases
<1>t. total' = total + count /\ total' <= p.copied + Size
  BY <1>4
<1>5. ASSUME NEW a \in Nat, NEW len \in 1 .. Fragment,
             NoBuffer, p.copied = p.sent, p.received = p.sent, p.sent <= a,
             a = Fragment * Whole(a), Whole(a) = Whole(p.sent),
             len <= count, len # count => len = Fragment,
             p' = [p EXCEPT !.received = a + count, !.copied = a, !.nextTrack = FALSE,
                            !.sent = a + len],
             ccmds' = Append(ccmds, [Cmd("WRITE", len) EXCEPT !.at = a]),
             dspBuf' = (dspBuf + 1) % Fragments
      PROVE  ComprInv'
  <2>1. /\ p'.received = a + count /\ p'.copied = a /\ p'.sent = a + len /\ p'.sid = p.sid
        /\ p'.state = p.state /\ p'.drain = p.drain /\ p'.nextSid = p.nextSid /\ ~p'.nextTrack
    BY <1>5 DEF ComprTyped, Records
  <2>2. /\ ccmds' \in Seq(ComprMessages) /\ Lone(ccmds') /\ ~Lacks(ccmds', "WRITE")
        /\ AllCarry(ccmds', p.sid, len)
        /\ Lacks(ccmds', "CLOSE") <=> Lacks(ccmds, "CLOSE")
        /\ NoOld(ccmds', Other(p.sid)) <=> NoOld(ccmds, Other(p.sid))
        /\ OldFirst(ccmds', Other(p.sid)) /\ ClosesOld(ccmds', Other(p.sid))
        /\ NoEos(ccmds', Other(p.sid)) <=> NoEos(ccmds, Other(p.sid))
        /\ NoEos(ccmds', p.sid)
    BY <1>3, <1>5, SendsBuffer DEF NoBuffer
  <2>3. /\ dspBuf' = Whole(a + len) % Fragments /\ dspBuf' \in 0 .. Fragments - 1
        /\ len = Fragment => a + len = Fragment * Whole(a + len)
    <3>1. dspBuf = Whole(a) % Fragments
      BY <1>5 DEF CountInv
    <3> QED BY <1>5, <3>1, RingMoves
  <2>4. p' \in Records
    <3>1. a + count \in Nat /\ a + len \in Nat
      BY <1>0
    <3> QED BY <1>5, <3>1 DEF ComprTyped, Records
  <2>5. ComprTyped'
    <3>1. total' \in Nat
      BY <1>0, <1>t
    <3> QED BY <1>1, <2>2, <2>3, <2>4, <3>1 DEF ComprTyped, CoreStates
  <2>6. BufferInv'
    <3>1. p'.sent - p'.copied = len
      BY <1>0, <2>1
    <3>2. ~NoBuffer'
      BY <2>2 DEF NoBuffer
    <3>3. Lacks(cdsp.held, "WRITE") /\ Lacks(cevts, "WRITE")
      BY <1>5 DEF NoBuffer
    <3> QED BY <1>1, <2>1, <2>2, <3>1, <3>2, <3>3, CarryNothing DEF BufferInv
  <2>7. OldInv'
    BY <1>1, <2>1, <2>2 DEF OldInv
  <2>8. EosInv'
    BY <1>1, <1>3, <2>1, <2>2 DEF EosInv
  <2>9. CountInv'
    <3>1. p'.sent <= p'.received /\ total' <= p'.copied + Size
      <4>1. p.copied <= a
        BY <1>5
      <4>2. len <= count
        BY <1>5
      <4> QED BY <1>0, <1>t, <2>1, <4>1, <4>2
    <3>2. p'.sent < p'.received => p'.sent = Fragment * Whole(p'.sent)
      <4>1. p'.sent < p'.received => len # count
        BY <1>0, <2>1
      <4> QED BY <1>5, <2>1, <2>3, <4>1
    <3>3. ~NoBuffer'
      BY <2>2 DEF NoBuffer
    <3> QED BY <2>1, <2>3, <3>1, <3>2, <3>3 DEF CountInv
  <2>10. StateInv'
    <3>1. p'.sent > 0
      BY <1>0, <2>1
    <3> QED BY <1>1, <1>2, <2>1, <3>1 DEF StateInv
  <2>11. OpenInv'
    BY <1>1, <1>2, <2>1, <2>2 DEF OpenInv
  <2> QED BY <2>5, <2>6, <2>7, <2>8, <2>9, <2>10, <2>11
<1>6. ASSUME ~NoBuffer, p.sent = Fragment * Whole(p.sent), ~p.nextTrack,
             p' = [p EXCEPT !.received = p.received + count], ccmds' = ccmds, dspBuf' = dspBuf
      PROVE  ComprInv'
  <2>1. /\ p'.received = p.received + count /\ p'.copied = p.copied /\ p'.sent = p.sent /\ p'.sid = p.sid
        /\ p'.state = p.state /\ p'.drain = p.drain /\ p'.nextSid = p.nextSid /\ ~p'.nextTrack
    BY <1>6 DEF ComprTyped, Records
  <2>2. p' \in Records
    <3>1. p.received + count \in Nat
      BY <1>0
    <3> QED BY <1>6, <3>1 DEF ComprTyped, Records
  <2>3. total' \in Nat
    BY <1>0, <1>t
  <2>n. ~NoBuffer'
    BY <1>1, <1>6 DEF NoBuffer
  <2>5. ComprTyped'
    BY <1>1, <1>6, <2>2, <2>3 DEF ComprTyped, CoreStates
  <2>6. BufferInv'
    BY <1>1, <1>6, <2>1, <2>n DEF BufferInv
  <2>7. OldInv'
    BY <1>1, <1>6, <2>1 DEF OldInv
  <2>8. EosInv'
    BY <1>1, <1>3, <1>6, <2>1 DEF EosInv
  <2>9. CountInv'
    <3>1. p'.sent <= p'.received /\ total' <= p'.copied + Size
      BY <1>0, <1>t, <2>1 DEF CountInv
    <3> QED BY <1>6, <2>1, <2>n, <3>1 DEF CountInv
  <2>10. StateInv'
    <3>1. p.sent > 0
      <4>1. cstate # "setup"
        BY <1>6, EmptyQueue DEF StateInv, NoBuffer
      <4> QED BY <1>1, <4>1 DEF StateInv
    <3> QED BY <1>1, <1>2, <2>1, <3>1 DEF StateInv
  <2>11. OpenInv'
    BY <1>1, <1>2, <1>6, <2>1 DEF OpenInv
  <2> QED BY <2>5, <2>6, <2>7, <2>8, <2>9, <2>10, <2>11
<1> QED BY <1>4, <1>5, <1>6

(* A buffer that comes back, with or without the next one or the EOS sent    *)
(* after it.                                                                 *)
LEMMA WriteDoneKeeps == ASSUME ComprInv, WriteDone PROVE ComprInv'
<1> USE DEF ComprInv
<1>0. /\ p.sent \in Nat /\ p.received \in Nat /\ p.copied \in Nat /\ total \in Nat /\ p.sid \in {1, 2}
      /\ Fragment \in Nat \ {0} /\ Size \in Nat /\ Other(p.sid) # p.sid
  BY ComprAssumption, SMT DEF ComprTyped, Records, Size, Other
<1>1. cevts # <<>> /\ cevts \in Seq(ComprMessages) /\ Head(cevts).op = "WRITE" /\ cevts' = Tail(cevts)
  BY DEF WriteDone, ComprTyped
<1>2. cdsp' = cdsp /\ switched' = switched /\ partial' = partial /\ cstate' = cstate /\ total' = total
  BY DEF WriteDone, coreVars
<1>3. /\ cevts' \in Seq(ComprMessages)
      /\ \A ops : Only(cevts, ops) => Only(cevts', ops)
      /\ \A op : op # "WRITE" => (Lacks(cevts, op) <=> Lacks(cevts', op))
      /\ ~Lacks(cevts, "WRITE")
      /\ Lone(cevts) => Lacks(cevts', "WRITE")
      /\ \A sid, left : AllCarry(cevts, sid, left) => Carries(Head(cevts), sid, left)
      /\ EosLast(cevts) => EosLast(cevts')
  BY <1>1, ComprTail
<1>4. /\ Lacks(ccmds, "WRITE") /\ Lacks(cdsp.held, "WRITE") /\ Lacks(cevts', "WRITE")
      /\ NoOld(ccmds, Other(p.sid)) /\ NoEos(ccmds, Other(p.sid)) /\ ~NoBuffer
      /\ cstate \notin {"open", "failed", "setup", "closed"} /\ ~(p.nextTrack /\ switched)
  BY <1>1, <1>3, NoOldNoEos DEF BufferInv, OldInv, NoBuffer, StateInv
<1>5. Written(Head(cevts)) = p.sent - p.copied /\ p.copied + (p.sent - p.copied) = p.sent /\ p.copied < p.sent
  <2>1. Carries(Head(cevts), p.sid, p.sent - p.copied)
    BY <1>3 DEF BufferInv
  <2> QED BY <1>0, <1>1, <2>1 DEF Carries, Written
<1>6. CASE p.state # "RUNNING"
  <2>1. ccmds' = ccmds /\ dspBuf' = dspBuf /\ p' = [p EXCEPT !.copied = p.sent]
    BY <1>5, <1>6 DEF WriteDone
  <2>2. /\ p'.received = p.received /\ p'.copied = p.sent /\ p'.sent = p.sent /\ p'.sid = p.sid
        /\ p'.state = p.state /\ p'.drain = p.drain /\ p'.nextSid = p.nextSid
        /\ p'.nextTrack = p.nextTrack /\ p' \in Records
    BY <1>0, <2>1 DEF ComprTyped, Records
  <2>3. ComprTyped'
    BY <1>2, <1>3, <2>1, <2>2 DEF ComprTyped
  <2>4. BufferInv'
    BY <1>2, <1>3, <1>4, <2>1, <2>2, CarryNothing DEF BufferInv
  <2>5. OldInv'
    BY <1>2, <1>4, <2>1, <2>2 DEF OldInv
  <2>6. EosInv'
    BY <1>2, <1>3, <2>1, <2>2 DEF EosInv
  <2>7. CountInv'
    <3>1. total' <= p'.copied + Size
      BY <1>0, <1>2, <1>5, <2>2 DEF CountInv
    <3> QED BY <1>2, <1>6, <2>1, <2>2, <3>1 DEF CountInv
  <2>8. StateInv'
    BY <1>2, <1>4, <1>6, <2>1, <2>2 DEF StateInv
  <2>9. OpenInv'
    BY <1>2, <2>1, <2>2 DEF OpenInv
  <2> QED BY <2>3, <2>4, <2>5, <2>6, <2>7, <2>8, <2>9
<1>7. CASE p.state = "RUNNING"
  <2> DEFINE avail == p.received - p.sent
  <2> DEFINE len == IF avail > Fragment THEN Fragment ELSE avail
  <2> DEFINE last == p.drain /\ LastBuffer(avail)
  <2> DEFINE q == IF len = 0 THEN ccmds ELSE Append(ccmds, [Cmd("WRITE", len) EXCEPT !.at = p.sent])
  <2> DEFINE e == Cmd("EOS", 0)
  <2>1. avail \in Nat /\ len \in 0 .. Fragment /\ len <= avail /\ (len # avail => len = Fragment)
    BY <1>0 DEF CountInv
  <2>2. /\ ccmds' = IF last THEN Append(q, e) ELSE q
        /\ dspBuf' = (IF len = 0 THEN dspBuf ELSE (dspBuf + 1) % Fragments)
        /\ p' = [p EXCEPT !.copied = p.sent, !.sent = p.sent + len]
    <3> DEFINE m == Cmd("WRITE", len)
    <3>1. [m EXCEPT !.at = p.sent] = m
      BY DEF Cmd
    <3>2. /\ ccmds' = ccmds \o (IF len = 0 THEN <<>> ELSE <<m>>) \o (IF last THEN <<e>> ELSE <<>>)
          /\ dspBuf' = (IF len = 0 THEN dspBuf ELSE (dspBuf + 1) % Fragments)
          /\ p' = [p EXCEPT !.copied = p.sent, !.sent = p.sent + len]
      BY <1>5, <1>7 DEF WriteDone
    <3> HIDE DEF m, e, last, len
    <3>3. \A s \in Seq(ComprMessages), x \in ComprMessages : s \o <<>> = s /\ s \o <<x>> = Append(s, x)
      OBVIOUS
    <3>4. m \in ComprMessages /\ e \in ComprMessages /\ ccmds \in Seq(ComprMessages)
      BY ComprAssumption, <1>0, <2>1 DEF m, e, Cmd, ComprMessages, ComprTyped
    <3>5. Append(ccmds, m) \in Seq(ComprMessages)
      BY <3>4
    <3>6. ccmds \o (IF len = 0 THEN <<>> ELSE <<m>>) = q
      <4>1. CASE len = 0
        BY <3>3, <3>4, <4>1
      <4>2. CASE len # 0
        BY <3>1, <3>3, <3>4, <4>2 DEF m
      <4> QED BY <4>1, <4>2
    <3>7. q \in Seq(ComprMessages)
      BY <3>1, <3>4, <3>5 DEF m
    <3> HIDE DEF q
    <3>8. q \o (IF last THEN <<e>> ELSE <<>>) = IF last THEN Append(q, e) ELSE q
      <4>1. CASE last
        BY <3>3, <3>4, <3>7, <4>1
      <4>2. CASE ~last
        BY <3>3, <3>4, <3>7, <4>2
      <4> QED BY <4>1, <4>2
    <3> QED BY <3>2, <3>6, <3>8
  <2>3. /\ e \in ComprMessages /\ e.op = "EOS" /\ e.sid = p.sid
    BY ComprAssumption, <1>0 DEF Cmd, ComprMessages, ComprTyped
  <2>4. /\ last => cstate = "draining" /\ avail <= Fragment
        /\ ~last => (p.drain => avail > Fragment)
    <3>1. p.drain => cstate = "draining"
      BY <1>4, <1>7 DEF StateInv
    <3>2. LastBuffer(avail) => avail <= Fragment
      BY DEF LastBuffer
    <3>3. p.drain /\ ~LastBuffer(avail) => avail > Fragment
      BY <1>0, <2>1 DEF LastBuffer
    <3> QED BY <3>1, <3>2, <3>3
  <2> HIDE DEF last, e
  <2>5. avail > 0 => /\ p.sent = Fragment * Whole(p.sent) /\ len \in 1 .. Fragment
                     /\ NoEos(ccmds, p.sid) \/ cstate # "draining"
                     /\ cstate = "draining" => Lacks(cdsp.held, "EOS") /\ Lacks(cevts, "EOS")
    <3>1. avail > 0 => p.sent < p.received /\ p.sent # p.received
      BY <1>0
    <3>2. avail > 0 => len \in 1 .. Fragment
      BY <1>0, <2>1
    <3> HIDE DEF avail, len
    <3> QED BY <3>1, <3>2 DEF CountInv, EosInv
  <2>6. avail = 0 <=> len = 0
    BY <1>0, <2>1
  <2>7. /\ q \in Seq(ComprMessages) /\ Lone(q) /\ (Lacks(q, "WRITE") <=> avail = 0)
        /\ AllCarry(q, p.sid, len)
        /\ Lacks(q, "CLOSE") <=> Lacks(ccmds, "CLOSE")
        /\ NoOld(q, Other(p.sid)) /\ OldFirst(q, Other(p.sid)) /\ ClosesOld(q, Other(p.sid))
        /\ NoEos(q, Other(p.sid))
        /\ NoEos(q, p.sid) <=> NoEos(ccmds, p.sid)
        /\ cstate = "draining" => NoDataAfterEos(q, p.sid)
    <3>1. CASE len = 0
      <4>1. q = ccmds
        BY <3>1
      <4> HIDE DEF q
      <4> QED BY <1>4, <2>6, <3>1, <4>1, CarryNothing DEF ComprTyped, OldInv, EosInv
    <3>2. CASE len # 0
      <4>1. q = Append(ccmds, [Cmd("WRITE", len) EXCEPT !.at = p.sent])
        BY <3>2
      <4>2. avail > 0 /\ avail # 0
        BY <2>1, <2>6, <3>2
      <4> HIDE DEF q, avail, len
      <4> QED BY <1>0, <1>4, <2>5, <4>1, <4>2, SendsBuffer
    <3> QED BY <3>1, <3>2
  <2>8. /\ p'.received = p.received /\ p'.copied = p.sent /\ p'.sent = p.sent + len /\ p'.sid = p.sid
        /\ p'.state = p.state /\ p'.drain = p.drain /\ p'.nextSid = p.nextSid
        /\ p'.nextTrack = p.nextTrack /\ p' \in Records
    <3>1. p.sent + len \in Nat
      BY <1>0, <2>1
    <3> HIDE DEF len
    <3> QED BY <1>0, <2>2, <3>1 DEF ComprTyped, Records
  <2>9. /\ p'.sent - p'.copied = len /\ p'.sent <= p'.received /\ (p'.sent = p'.received <=> avail = len)
        /\ avail <= Fragment => p'.sent = p'.received
        /\ p'.sent > 0 /\ p.sent <= p'.sent
    <3>1. p'.sent = p.sent + len /\ p'.copied = p.sent /\ p'.received = p.sent + avail
      BY <1>0, <2>8
    <3>2. p.sent > 0
      BY <1>0, <1>5
    <3> HIDE DEF avail, len
    <3>3. avail <= Fragment => avail = len
      BY <1>0, <2>1 DEF len
    <3> QED BY <1>0, <2>1, <3>1, <3>2, <3>3
  <2>10. /\ dspBuf' = Whole(p'.sent) % Fragments /\ dspBuf' \in 0 .. Fragments - 1
         /\ p'.sent < p'.received => p'.sent = Fragment * Whole(p'.sent) /\ avail > 0
    <3>1. dspBuf = Whole(p.sent) % Fragments
      BY DEF CountInv
    <3>2. CASE len = 0
      <4>1. p'.sent = p.sent /\ dspBuf' = dspBuf /\ avail = 0 /\ ~(p'.sent < p'.received)
        BY <1>0, <2>2, <2>6, <2>8, <2>9, <3>2
      <4> QED BY <3>1, <4>1 DEF ComprTyped
    <3>3. CASE len # 0
      <4>1. avail > 0 /\ dspBuf' = (dspBuf + 1) % Fragments
        BY <2>1, <2>2, <2>6, <3>3
      <4>2. p'.sent < p'.received => len = Fragment
        BY <1>0, <2>1, <2>8
      <4> HIDE DEF avail, len
      <4> QED BY <1>0, <2>5, <2>8, <3>1, <4>1, <4>2, RingMoves
    <3> QED BY <3>2, <3>3
  <2> HIDE DEF q, avail, len
  <2>11. /\ ccmds' \in Seq(ComprMessages) /\ Lone(ccmds') /\ (Lacks(ccmds', "WRITE") <=> avail = 0)
         /\ AllCarry(ccmds', p.sid, len)
         /\ Lacks(ccmds', "CLOSE") <=> Lacks(ccmds, "CLOSE")
         /\ NoOld(ccmds', Other(p.sid)) /\ OldFirst(ccmds', Other(p.sid)) /\ ClosesOld(ccmds', Other(p.sid))
         /\ NoEos(ccmds', Other(p.sid))
         /\ ~last => (NoEos(ccmds', p.sid) <=> NoEos(ccmds, p.sid))
         /\ cstate = "draining" => NoDataAfterEos(ccmds', p.sid)
    <3>1. CASE ~last
      <4>1. ccmds' = q
        BY <2>2, <3>1
      <4> QED BY <2>7, <3>1, <4>1
    <3>2. CASE last
      <4>1. ccmds' = Append(q, e)
        BY <2>2, <3>2
      <4>2. ~IsOld(e, Other(p.sid)) /\ Carries(e, p.sid, len)
        BY <1>0, <2>3 DEF IsOld, Carries
      <4> QED BY <1>0, <2>3, <2>7, <3>2, <4>1, <4>2, ComprAppend
    <3> QED BY <3>1, <3>2
  <2>12. ComprTyped'
    BY <1>2, <1>3, <2>8, <2>10, <2>11 DEF ComprTyped
  <2>13. BufferInv'
    <3>1. NoBuffer' => p'.copied = p'.sent
      <4>1. NoBuffer' => len = 0
        BY <2>6, <2>11 DEF NoBuffer
      <4> QED BY <1>0, <2>8, <4>1
    <3> QED BY <1>2, <1>3, <1>4, <2>8, <2>9, <2>11, <3>1, CarryNothing DEF BufferInv
  <2>14. OldInv'
    BY <2>8, <2>11 DEF OldInv
  <2>15. EosInv'
    <3>1. CASE cstate = "draining"
      <4>1. \/ NoEos(ccmds', p.sid) /\ Lacks(cdsp.held, "EOS") /\ Lacks(cevts', "EOS")
            \/ p'.received = p'.sent
        <5>1. last => p'.received = p'.sent
          BY <2>4, <2>9
        <5>2. avail = 0 => p'.received = p'.sent
          BY <2>6, <2>9
        <5>3. avail # 0 => avail > 0
          BY <2>1
        <5> QED BY <1>3, <2>5, <2>11, <3>1, <5>1, <5>2, <5>3
      <4>2. Lacks(cdsp.held, "EOS")
              \/ (Lacks(ccmds', "WRITE") /\ Lacks(cevts', "EOS") /\ p.sid \in cdsp.ended)
        <5>1. CASE avail = 0
          BY <1>3, <2>11, <3>1, <5>1 DEF EosInv
        <5>2. CASE avail # 0
          BY <2>1, <2>5, <3>1, <5>2
        <5> QED BY <5>1, <5>2
      <4>3. Lacks(cevts', "EOS")
              \/ (Lacks(ccmds', "WRITE") /\ Lacks(cdsp.held, "WRITE") /\ p.sid \in cdsp.ended)
        <5>1. CASE avail = 0
          BY <1>3, <2>11, <3>1, <5>1 DEF EosInv
        <5>2. CASE avail # 0
          BY <1>3, <2>1, <2>5, <3>1, <5>2
        <5> QED BY <5>1, <5>2
      <4>4. EosLast(cdsp.held) /\ EosLast(cevts')
        BY <1>3, <3>1 DEF EosInv
      <4> QED BY <1>2, <1>4, <2>8, <2>11, <3>1, <4>1, <4>2, <4>3, <4>4 DEF EosInv
    <3>2. CASE cstate # "draining"
      <4>1. ~last
        BY <2>4, <3>2
      <4> QED BY <1>2, <1>3, <2>8, <2>11, <3>2, <4>1 DEF EosInv
    <3> QED BY <3>1, <3>2
  <2>16. CountInv'
    <3>1. total' <= p'.copied + Size
      BY <1>0, <1>2, <1>5, <2>8 DEF CountInv
    <3>2. p'.sent < p'.received => ~NoBuffer'
      <4>1. avail > 0 => avail # 0
        BY <2>1
      <4> QED BY <2>10, <2>11, <4>1 DEF NoBuffer
    <3> QED BY <2>9, <2>10, <3>1, <3>2 DEF CountInv
  <2>17. StateInv'
    <3>1. cstate = "stopped" => p'.received = p'.sent
      <4>1. cstate = "stopped" => p.received = p.sent
        BY <1>7 DEF StateInv
      <4>2. p.received = p.sent => avail = 0
        BY <1>0 DEF avail
      <4> QED BY <2>6, <2>9, <4>1, <4>2
    <3> QED BY <1>2, <1>4, <2>8, <2>9, <3>1 DEF StateInv
  <2>18. OpenInv'
    BY <1>2, <2>8, <2>11 DEF OpenInv
  <2> QED BY <2>12, <2>13, <2>14, <2>15, <2>16, <2>17, <2>18
<1> QED BY <1>6, <1>7

(* The DSP takes a command from the queue. *)
LEMMA DspTakeKeeps == ASSUME ComprInv, ~ReportsEachEos, DspTake PROVE ComprInv'
<1> USE DEF ComprInv
<1> DEFINE c == Head(ccmds)
<1> DEFINE other == Other(p.sid)
<1>0. p.sid \in {1, 2} /\ other # p.sid /\ other \in {1, 2}
  BY DEF ComprTyped, Records, Other
<1>1. /\ ccmds # <<>> /\ ccmds \in Seq(ComprMessages) /\ ccmds' = Tail(ccmds) /\ p' = p /\ dspBuf' = dspBuf
      /\ switched' = switched /\ partial' = partial /\ cstate' = cstate /\ total' = total
  BY DEF DspTake, coreVars, ComprTyped
<1>2. /\ c \in ComprMessages /\ ccmds' \in Seq(ComprMessages)
      /\ \A op : Lacks(ccmds, op) <=> c.op # op /\ Lacks(ccmds', op)
      /\ Lone(ccmds) => Lone(ccmds') /\ (c.op = "WRITE" => Lacks(ccmds', "WRITE"))
      /\ \A sid, left : AllCarry(ccmds, sid, left) =>
                        Carries(c, sid, left) /\ AllCarry(ccmds', sid, left)
      /\ \A o : NoOld(ccmds, o) <=> NoOld(ccmds', o) /\ ~IsOld(c, o)
      /\ \A k : NoEos(ccmds, k) <=> NoEos(ccmds', k) /\ ~(c.op = "EOS" /\ c.sid = k)
      /\ \A o : ClosesOld(ccmds, o) => ClosesOld(ccmds', o) /\ (c.op = "CLOSE" => c.sid = o)
      /\ \A o : OldFirst(ccmds, o) =>
                /\ OldFirst(ccmds', o)
                /\ c.op \in {"RUN", "PAUSE"} \/ IsOld(c, o) \/ NoOld(ccmds', o)
      /\ \A k : NoDataAfterEos(ccmds, k) =>
                /\ NoDataAfterEos(ccmds', k)
                /\ c.op = "EOS" /\ c.sid = k => Lacks(ccmds', "WRITE")
  BY <1>1, ComprTail
<1>3. /\ c.op \in {"WRITE", "RUN", "PAUSE", "EOS", "CLOSE"} /\ c.sid \in {1, 2}
      /\ cdsp.held \in Seq(ComprMessages) /\ cevts \in Seq(ComprMessages)
  BY <1>2 DEF ComprMessages, ComprTyped
<1>4. cstate \notin {"open", "failed", "setup", "closed"}
  BY <1>1 DEF StateInv
<1>5. CASE c.op \in {"RUN", "PAUSE"}
  <2>1. /\ cdsp'.held = cdsp.held /\ cdsp'.open = cdsp.open /\ cdsp'.ended = cdsp.ended
        /\ cevts' = (IF c.op = "RUN" THEN Append(cevts, c) ELSE cevts)
        /\ cdsp' \in [open : SUBSET {1, 2}, running : BOOLEAN, held : Seq(ComprMessages),
                      ended : SUBSET {1, 2}]
    BY <1>5 DEF DspTake, ComprTyped
  <2> HIDE DEF c
  <2>2. /\ cevts' \in Seq(ComprMessages)
        /\ Only(cevts, {"WRITE", "EOS", "RUN"}) => Only(cevts', {"WRITE", "EOS", "RUN"})
        /\ Lacks(cevts', "WRITE") <=> Lacks(cevts, "WRITE")
        /\ Lacks(cevts', "EOS") <=> Lacks(cevts, "EOS")
        /\ Lone(cevts) => Lone(cevts')
        /\ \A sid, left : AllCarry(cevts, sid, left) => AllCarry(cevts', sid, left)
        /\ EosLast(cevts) => EosLast(cevts')
    <3>1. CASE c.op = "RUN"
      <4>1. cevts' = Append(cevts, c) /\ (\A sid, left : Carries(c, sid, left))
        BY <2>1, <3>1 DEF Carries
      <4> QED BY <1>2, <1>3, <3>1, <4>1, ComprAppend
    <3>2. CASE c.op # "RUN"
      <4>1. cevts' = cevts
        BY <2>1, <3>2
      <4> QED BY <1>3, <4>1
    <3> QED BY <3>1, <3>2
  <2>3. /\ Lacks(ccmds, "WRITE") <=> Lacks(ccmds', "WRITE")
        /\ Lacks(ccmds, "CLOSE") <=> Lacks(ccmds', "CLOSE")
        /\ \A o : NoOld(ccmds, o) <=> NoOld(ccmds', o)
        /\ \A k : NoEos(ccmds, k) <=> NoEos(ccmds', k)
    BY <1>2, <1>5 DEF IsOld
  <2>4. ComprTyped'
    BY <1>1, <1>2, <2>1, <2>2 DEF ComprTyped
  <2>5. BufferInv'
    BY <1>1, <1>2, <2>1, <2>2, <2>3 DEF BufferInv, NoBuffer
  <2>6. OldInv'
    BY <1>1, <1>2, <2>1, <2>2, <2>3 DEF OldInv
  <2>7. EosInv'
    BY <1>1, <1>2, <2>1, <2>2, <2>3 DEF EosInv
  <2>8. CountInv'
    BY <1>1, <2>1, <2>2, <2>3 DEF CountInv, NoBuffer
  <2>9. StateInv'
    BY <1>1, <1>4, <2>1, <2>2, <2>3 DEF StateInv, NoBuffer
  <2>10. OpenInv'
    BY <1>1, <2>1, <2>3 DEF OpenInv
  <2> QED BY <2>4, <2>5, <2>6, <2>7, <2>8, <2>9, <2>10
<1>6. CASE c.op = "WRITE"
  <2>1. /\ cdsp'.held = Append(cdsp.held, c) /\ cdsp'.open = cdsp.open
        /\ cdsp'.ended = cdsp.ended \ {c.sid} /\ cevts' = cevts
        /\ cdsp' = [cdsp EXCEPT !.held = Append(@, c), !.ended = @ \ {c.sid}]
    BY <1>6 DEF DspTake, ComprTyped
  <2> HIDE DEF c
  <2>2. /\ ~Lacks(ccmds, "WRITE") /\ Lacks(cdsp.held, "WRITE") /\ Lacks(cevts, "WRITE")
        /\ Carries(c, p.sid, p.sent - p.copied) /\ c.sid = p.sid
        /\ NoOld(ccmds', other) /\ NoEos(ccmds', other)
        /\ cstate = "draining" => Lacks(cdsp.held, "EOS") /\ Lacks(cevts, "EOS")
    BY <1>2, <1>6, NoOldNoEos DEF BufferInv, OldInv, EosInv, IsOld, Carries
  <2>3. LET h == Append(cdsp.held, c)
        IN /\ h \in Seq(ComprMessages) /\ Only(h, {"WRITE", "EOS"}) /\ ~Lacks(h, "WRITE") /\ Lone(h)
           /\ AllCarry(h, p.sid, p.sent - p.copied)
           /\ Lacks(h, "EOS") <=> Lacks(cdsp.held, "EOS")
           /\ cstate = "draining" => EosLast(h)
    <3>1. Only(cdsp.held, {"WRITE", "EOS"}) /\ Lone(cdsp.held)
            /\ AllCarry(cdsp.held, p.sid, p.sent - p.copied)
      BY DEF BufferInv
    <3>2. cstate = "draining" => EosLast(cdsp.held)
      BY DEF EosInv
    <3> QED BY <1>2, <1>3, <1>6, <2>2, <3>1, <3>2, ComprAppend
  <2>4. ComprTyped'
    <3>1. cdsp.ended \ {c.sid} \in SUBSET {1, 2}
      BY DEF ComprTyped
    <3>2. cdsp' \in [open : SUBSET {1, 2}, running : BOOLEAN, held : Seq(ComprMessages),
                     ended : SUBSET {1, 2}]
      BY <2>1, <2>3, <3>1 DEF ComprTyped
    <3> QED BY <1>1, <1>2, <2>1, <3>2 DEF ComprTyped
  <2>5. ~NoBuffer'
    BY <2>1, <2>3 DEF NoBuffer
  <2>6. BufferInv'
    BY <1>1, <1>2, <1>6, <2>1, <2>2, <2>3, <2>5 DEF BufferInv
  <2>7. OldInv'
    BY <1>1, <1>2, <2>1, <2>2 DEF OldInv
  <2>8. EosInv'
    BY <1>1, <1>2, <1>6, <2>1, <2>2, <2>3 DEF EosInv
  <2>9. CountInv'
    BY <1>1, <2>5 DEF CountInv
  <2>10. StateInv'
    BY <1>1, <1>4, <2>2 DEF StateInv, NoBuffer
  <2>11. OpenInv'
    BY <1>1, <1>2, <1>6, <2>1 DEF OpenInv
  <2> QED BY <2>4, <2>6, <2>7, <2>8, <2>9, <2>10, <2>11
<1>7. CASE c.op = "EOS"
  <2>1. /\ cdsp'.held = (IF c.sid \in cdsp.ended THEN cdsp.held ELSE Append(cdsp.held, c))
        /\ cdsp'.open = cdsp.open /\ cdsp'.ended = cdsp.ended \cup {c.sid} /\ cevts' = cevts
        /\ cdsp'.running = cdsp.running
    BY <1>7 DEF DspTake, ComprTyped
  <2>r. /\ cdsp' = [cdsp EXCEPT !.held = IF c.sid \in cdsp.ended /\ ~ReportsEachEos
                                         THEN @ ELSE Append(@, c),
                                !.ended = @ \cup {c.sid}]
    BY <1>7 DEF DspTake
  <2> HIDE DEF c
  <2>2. LET h == Append(cdsp.held, c)
        IN /\ h \in Seq(ComprMessages) /\ Only(h, {"WRITE", "EOS"})
           /\ Lacks(h, "WRITE") <=> Lacks(cdsp.held, "WRITE")
           /\ Lone(h) /\ AllCarry(h, p.sid, p.sent - p.copied)
           /\ Lacks(cdsp.held, "EOS") /\ EosLast(cdsp.held) => EosLast(h)
    <3>1. Only(cdsp.held, {"WRITE", "EOS"}) /\ Lone(cdsp.held)
            /\ AllCarry(cdsp.held, p.sid, p.sent - p.copied) /\ Carries(c, p.sid, p.sent - p.copied)
      BY <1>7 DEF BufferInv, Carries
    <3> QED BY <1>2, <1>3, <1>7, <3>1, ComprAppend
  <2>3. /\ cdsp'.held \in Seq(ComprMessages) /\ Only(cdsp'.held, {"WRITE", "EOS"})
        /\ Lacks(cdsp'.held, "WRITE") <=> Lacks(cdsp.held, "WRITE")
        /\ Lone(cdsp'.held) /\ AllCarry(cdsp'.held, p.sid, p.sent - p.copied)
    BY <1>3, <2>1, <2>2 DEF BufferInv
  <2>4. /\ Lacks(ccmds, "WRITE") <=> Lacks(ccmds', "WRITE")
        /\ Lacks(ccmds, "CLOSE") <=> Lacks(ccmds', "CLOSE")
    BY <1>2, <1>7
  <2>5. ComprTyped'
    <3>1. cdsp.ended \cup {c.sid} \in SUBSET {1, 2}
      BY <1>3 DEF ComprTyped
    <3>2. cdsp' \in [open : SUBSET {1, 2}, running : BOOLEAN, held : Seq(ComprMessages),
                     ended : SUBSET {1, 2}]
      BY <1>3, <2>2, <2>r, <3>1 DEF ComprTyped
    <3> QED BY <1>1, <1>2, <2>1, <3>2 DEF ComprTyped
  <2>6. BufferInv'
    BY <1>1, <1>2, <2>1, <2>3, <2>4 DEF BufferInv, NoBuffer
  <2>7. CountInv'
    BY <1>1, <2>1, <2>3, <2>4 DEF CountInv, NoBuffer
  <2>8. StateInv'
    BY <1>1, <1>4, <2>1, <2>3, <2>4 DEF StateInv, NoBuffer
  <2>9. OpenInv'
    BY <1>1, <2>1, <2>4 DEF OpenInv
  <2>10. CASE c.sid = other
    <3>1. IsOld(c, other) /\ ~NoOld(ccmds, other) /\ ~NoEos(ccmds, other)
      BY <1>2, <1>7, <2>10 DEF IsOld
    <3>2. other \in cdsp.ended /\ cdsp'.held = cdsp.held /\ cdsp'.ended = cdsp.ended
      BY <2>1, <2>10, <3>1 DEF OldInv
    <3>3. OldInv'
      BY <1>1, <1>2, <2>1, <3>1, <3>2 DEF OldInv
    <3>4. NoEos(ccmds, p.sid) <=> NoEos(ccmds', p.sid)
      BY <1>0, <1>2, <2>10
    <3>5. EosInv'
      BY <1>1, <1>2, <2>1, <2>4, <3>2, <3>4 DEF EosInv
    <3> QED BY <2>5, <2>6, <2>7, <2>8, <2>9, <3>3, <3>5
  <2>11. CASE c.sid = p.sid
    <3>1. ~IsOld(c, other) /\ NoOld(ccmds', other) /\ NoEos(ccmds', other) /\ ~NoEos(ccmds, p.sid)
      BY <1>0, <1>2, <1>7, <2>11, NoOldNoEos DEF IsOld, OldInv
    <3>2. OldInv'
      BY <1>1, <1>2, <3>1 DEF OldInv
    <3>3. cstate \in {"draining", "stopped"}
      BY <1>4, <3>1 DEF EosInv, ComprTyped, CoreStates
    <3>4. CASE cstate = "stopped"
      <4>1. EosInv'
        BY <1>1, <3>4 DEF EosInv
      <4> QED BY <2>5, <2>6, <2>7, <2>8, <2>9, <3>2, <4>1
    <3>5. CASE cstate = "draining"
      <4>1. /\ p.received = p.sent /\ ~(p.nextTrack /\ switched) /\ Lacks(ccmds', "WRITE")
            /\ NoDataAfterEos(ccmds', p.sid) /\ EosLast(cdsp.held) /\ EosLast(cevts)
        BY <1>2, <1>7, <2>11, <3>1, <3>5 DEF EosInv
      <4>2. p.sid \in cdsp'.ended
        BY <2>1, <2>11
      <4>3. CASE p.sid \in cdsp.ended
        <5>1. cdsp'.held = cdsp.held
          BY <2>1, <2>11, <4>3
        <5>2. EosInv'
          BY <1>1, <2>1, <3>5, <4>1, <4>2, <5>1 DEF EosInv
        <5> QED BY <2>5, <2>6, <2>7, <2>8, <2>9, <3>2, <5>2
      <4>4. CASE p.sid \notin cdsp.ended
        <5>1. cdsp'.held = Append(cdsp.held, c) /\ Lacks(cdsp.held, "EOS") /\ Lacks(cevts, "EOS")
          BY <2>1, <2>11, <3>5, <4>4 DEF EosInv
        <5>2. EosLast(cdsp'.held)
          BY <2>2, <4>1, <5>1
        <5>3. EosInv'
          BY <1>1, <2>1, <3>5, <4>1, <4>2, <5>1, <5>2 DEF EosInv
        <5> QED BY <2>5, <2>6, <2>7, <2>8, <2>9, <3>2, <5>3
      <4> QED BY <4>3, <4>4
    <3> QED BY <3>3, <3>4, <3>5
  <2> QED BY <1>0, <1>3, <2>10, <2>11
<1>8. CASE c.op = "CLOSE"
  <2>1. /\ cdsp' = [cdsp EXCEPT !.open = @ \ {c.sid}, !.held = Without(c.sid, @)] /\ cevts' = cevts
    BY <1>8 DEF DspTake
  <2> HIDE DEF c
  <2>2. c.sid = other /\ IsOld(c, other) /\ ~NoOld(ccmds, other)
    BY <1>2, <1>8 DEF OldInv, IsOld
  <2>3. cdsp.held = <<>>
    BY <2>2 DEF OldInv
  <2>4. /\ cdsp'.held = cdsp.held /\ cdsp'.open = cdsp.open \ {other} /\ cdsp'.ended = cdsp.ended
        /\ cdsp' \in [open : SUBSET {1, 2}, running : BOOLEAN, held : Seq(ComprMessages),
                      ended : SUBSET {1, 2}]
    <3>1. Without(c.sid, cdsp.held) = cdsp.held
      BY <2>3 DEF Without
    <3>2. cdsp.open \ {c.sid} \in SUBSET {1, 2}
      BY DEF ComprTyped
    <3> QED BY <2>1, <2>2, <3>1, <3>2 DEF ComprTyped
  <2>5. /\ Lacks(ccmds, "WRITE") <=> Lacks(ccmds', "WRITE")
        /\ \A k : NoEos(ccmds, k) <=> NoEos(ccmds', k)
    BY <1>2, <1>8
  <2>6. ComprTyped'
    BY <1>1, <1>2, <2>1, <2>4 DEF ComprTyped
  <2>7. BufferInv'
    BY <1>1, <1>2, <2>1, <2>4, <2>5 DEF BufferInv, NoBuffer
  <2>8. OldInv'
    BY <1>1, <1>2, <2>1, <2>2, <2>4, <2>5 DEF OldInv
  <2>9. EosInv'
    BY <1>1, <1>2, <2>1, <2>4, <2>5 DEF EosInv
  <2>10. CountInv'
    BY <1>1, <2>1, <2>4, <2>5 DEF CountInv, NoBuffer
  <2>11. StateInv'
    BY <1>1, <1>4, <2>1, <2>4, <2>5 DEF StateInv, NoBuffer
  <2>12. OpenInv'
    BY <1>1, <1>4, <2>4 DEF OpenInv
  <2> QED BY <2>6, <2>7, <2>8, <2>9, <2>10, <2>11, <2>12
<1> QED BY <1>3, <1>5, <1>6, <1>7, <1>8

(* The DSP finishes the first thing it holds. *)
LEMMA DspPlayKeeps == ASSUME ComprInv, DspPlay PROVE ComprInv'
<1> USE DEF ComprInv
<1> DEFINE h == Head(cdsp.held)
<1>1. /\ cdsp.held # <<>> /\ cdsp.held \in Seq(ComprMessages) /\ cevts \in Seq(ComprMessages)
      /\ cdsp'.held = Tail(cdsp.held) /\ cdsp'.open = cdsp.open /\ cdsp'.ended = cdsp.ended
      /\ cdsp' = [cdsp EXCEPT !.held = Tail(@)]
      /\ cevts' = Append(cevts, h) /\ ccmds' = ccmds /\ p' = p /\ dspBuf' = dspBuf
      /\ switched' = switched /\ partial' = partial /\ cstate' = cstate /\ total' = total
  BY DEF DspPlay, coreVars, ComprTyped
<1>2. /\ h \in ComprMessages /\ cdsp'.held \in Seq(ComprMessages)
      /\ Only(cdsp.held, {"WRITE", "EOS"}) => h.op \in {"WRITE", "EOS"} /\ Only(cdsp'.held, {"WRITE", "EOS"})
      /\ \A op : Lacks(cdsp.held, op) <=> h.op # op /\ Lacks(cdsp'.held, op)
      /\ Lone(cdsp.held) => Lone(cdsp'.held) /\ (h.op = "WRITE" => Lacks(cdsp'.held, "WRITE"))
      /\ \A sid, left : AllCarry(cdsp.held, sid, left) =>
                        Carries(h, sid, left) /\ AllCarry(cdsp'.held, sid, left)
      /\ EosLast(cdsp.held) =>
           /\ EosLast(cdsp'.held)
           /\ h.op = "EOS" => Lacks(cdsp'.held, "WRITE") /\ Lacks(cdsp'.held, "EOS")
  BY <1>1, ComprTail
<1> HIDE DEF h
<1>3. h.op \in {"WRITE", "EOS"} /\ Carries(h, p.sid, p.sent - p.copied)
  BY <1>2 DEF BufferInv
<1>4. /\ cevts' \in Seq(ComprMessages) /\ Only(cevts', {"WRITE", "EOS", "RUN"})
      /\ \A op : Lacks(cevts', op) <=> Lacks(cevts, op) /\ h.op # op
      /\ Lone(cevts')
      /\ AllCarry(cevts', p.sid, p.sent - p.copied)
      /\ EosLast(cevts) /\ Lacks(cevts, "EOS") => EosLast(cevts')
  <2>1. /\ Only(cevts, {"WRITE", "EOS", "RUN"}) /\ Lone(cevts)
        /\ AllCarry(cevts, p.sid, p.sent - p.copied)
        /\ h.op = "WRITE" => Lacks(cevts, "WRITE")
    BY <1>2 DEF BufferInv
  <2>2. h.op \in {"WRITE", "EOS", "RUN"}
    BY <1>3
  <2> QED BY <1>1, <1>2, <1>3, <2>1, <2>2, ComprAppend
<1>5. cstate \notin {"open", "failed", "setup", "closed"} /\ NoOld(ccmds, Other(p.sid))
  BY <1>1 DEF StateInv, OldInv
<1>6. NoBuffer' <=> NoBuffer
  BY <1>1, <1>2, <1>3, <1>4 DEF NoBuffer
<1>7. ComprTyped'
  <2>1. cdsp' \in [open : SUBSET {1, 2}, running : BOOLEAN, held : Seq(ComprMessages),
                   ended : SUBSET {1, 2}]
    BY <1>1, <1>2 DEF ComprTyped
  <2> QED BY <1>1, <1>4, <2>1 DEF ComprTyped
<1>8. BufferInv'
  BY <1>1, <1>2, <1>3, <1>4, <1>6 DEF BufferInv
<1>9. OldInv'
  BY <1>1, <1>5 DEF OldInv
<1>10. EosInv'
  <2>1. CASE cstate = "draining"
    <3>1. Lacks(cevts, "EOS")
      BY <1>2, <1>3, <2>1 DEF EosInv
    <3>2. CASE h.op = "WRITE"
      <4>1. Lacks(cevts', "EOS") /\ (Lacks(cdsp'.held, "EOS") <=> Lacks(cdsp.held, "EOS"))
        BY <1>2, <1>4, <3>1, <3>2
      <4> QED BY <1>1, <1>2, <1>4, <2>1, <3>1, <3>2, <4>1 DEF EosInv
    <3>3. CASE h.op = "EOS"
      <4>1. ~Lacks(cdsp.held, "EOS") /\ Lacks(cdsp'.held, "EOS") /\ Lacks(cdsp'.held, "WRITE")
        BY <1>2, <2>1, <3>3 DEF EosInv
      <4> QED BY <1>1, <1>2, <1>4, <2>1, <3>1, <3>3, <4>1 DEF EosInv
    <3> QED BY <1>3, <3>2, <3>3
  <2>2. CASE cstate # "draining"
    BY <1>1, <1>2, <1>4, <2>2 DEF EosInv
  <2> QED BY <2>1, <2>2
<1>11. CountInv'
  BY <1>1, <1>6 DEF CountInv
<1>12. StateInv'
  BY <1>1, <1>5, <1>6 DEF StateInv
<1>13. OpenInv'
  BY <1>1 DEF OpenInv
<1> QED BY <1>7, <1>8, <1>9, <1>10, <1>11, <1>12, <1>13

(* A stuttering step. *)
LEMMA ComprUnchanged == ASSUME ComprInv, UNCHANGED comprVars PROVE ComprInv'
<1> USE DEF comprVars, ComprInv
<1>1. ComprTyped'
  BY DEF ComprTyped
<1>2. BufferInv'
  BY DEF BufferInv, NoBuffer
<1>3. OldInv'
  BY DEF OldInv
<1>4. EosInv'
  BY DEF EosInv
<1>5. CountInv'
  BY DEF CountInv, NoBuffer
<1>6. StateInv'
  BY DEF StateInv, NoBuffer
<1>7. OpenInv'
  BY DEF OpenInv
<1> QED BY <1>1, <1>2, <1>3, <1>4, <1>5, <1>6, <1>7

(* Every step keeps the invariant. *)
LEMMA ComprStep ==
    ASSUME ComprInv, WaitsForDrain, ~ReportsEachEos, [ComprNext]_comprVars PROVE ComprInv'
<1>1. CASE Client
  BY <1>1, SetParamsKeeps, WriteKeeps, TriggerKeeps, NextTrackKeeps, SetDelayKeeps, DrainKeeps,
     FreeKeeps DEF Client
<1>2. CASE Handler
  BY <1>2, RunDoneKeeps, EosDoneKeeps, WriteDoneKeeps DEF Handler
<1>3. CASE DspTake \/ DspPlay
  BY <1>3, DspTakeKeeps, DspPlayKeeps
<1>4. CASE Closed \/ UNCHANGED comprVars
  BY <1>4, ComprUnchanged DEF Closed
<1> QED BY <1>1, <1>2, <1>3, <1>4 DEF ComprNext

(* The invariant implies the property the run checks. *)
LEMMA ComprInvSafe == ASSUME ComprInv PROVE ComprSafe
<1> USE DEF ComprInv
<1>0. /\ p.sent \in Nat /\ p.received \in Nat /\ p.copied \in Nat /\ total \in Nat
      /\ Fragment \in Nat \ {0} /\ Size \in Nat
  BY ComprAssumption, SMT DEF ComprTyped, Records, Size
<1>1. ComprTypeOK
  BY DEF ComprTyped, ComprTypeOK, Records, CoreStates
<1>2. OneBuffer
  <2>1. ASSUME NEW s, NEW i \in Writes(s) PROVE ~Lacks(s, "WRITE")
    BY <2>1 DEF Writes, Lacks
  <2>2. ASSUME NEW s, Lone(s), NEW i \in Writes(s), NEW j \in Writes(s) PROVE i = j
    BY <2>2 DEF Writes, Lone
  <2> DEFINE buffers == ({"cmds"} \X Writes(ccmds)) \cup ({"held"} \X Writes(cdsp.held))
                        \cup ({"evts"} \X Writes(cevts))
  <2>3. ASSUME NEW b \in buffers, NEW c \in buffers PROVE b = c
    <3>1. CASE b \in {"cmds"} \X Writes(ccmds)
      <4>1. c \in {"cmds"} \X Writes(ccmds)
        BY <2>1, <3>1 DEF BufferInv
      <4> QED BY <2>2, <3>1, <4>1 DEF BufferInv
    <3>2. CASE b \in {"held"} \X Writes(cdsp.held)
      <4>1. c \in {"held"} \X Writes(cdsp.held)
        BY <2>1, <3>2 DEF BufferInv
      <4> QED BY <2>2, <3>2, <4>1 DEF BufferInv
    <3>3. CASE b \in {"evts"} \X Writes(cevts)
      <4>1. c \in {"evts"} \X Writes(cevts)
        BY <2>1, <3>3 DEF BufferInv
      <4> QED BY <2>2, <3>3, <4>1 DEF BufferInv
    <3> QED BY <3>1, <3>2, <3>3
  <2> QED BY <2>3 DEF OneBuffer
<1>3. RingInStep
  <2>1. ASSUME NEW s \in {ccmds, cdsp.held}, NEW i \in DOMAIN s, s[i].op = "WRITE"
        PROVE  s[i].at % Size = s[i].slot * Fragment /\ s[i].len <= Fragment
    <3>1. Carries(s[i], p.sid, p.sent - p.copied)
      BY <2>1 DEF BufferInv, AllCarry
    <3> QED BY <1>0, <2>1, <3>1 DEF Carries
  <2> QED BY <2>1 DEF RingInStep
<1>4. NeverStarved
  <2>1. \A s : ~Lacks(s, "WRITE") => Lengths(s) # {}
    BY DEF Lacks, Lengths, Writes
  <2>2. ~NoBuffer => ComprInFlight
    BY <2>1 DEF NoBuffer, ComprInFlight
  <2>3. p.received > p.sent <=> p.sent < p.received
    BY <1>0
  <2> QED BY <2>2, <2>3 DEF NeverStarved, CountInv
<1>5. OverrunOnlyByPadding
  <2> SUFFICES ASSUME cstate # "closed",
                      NEW n \in {0} \cup Lengths(ccmds) \cup Lengths(cdsp.held)
               PROVE  (p.received - p.sent) + n <= Size + (p.received - total)
    BY DEF OverrunOnlyByPadding
  <2>1. p.copied <= p.sent
    <3>1. ASSUME NEW s, AllCarry(s, p.sid, p.sent - p.copied), ~Lacks(s, "WRITE")
          PROVE  p.sent - p.copied \in 1 .. Fragment
      BY <3>1 DEF AllCarry, Lacks, Carries
    <3>2. CASE NoBuffer
      BY <1>0, <3>2 DEF BufferInv
    <3>3. CASE ~NoBuffer
      <4>1. p.sent - p.copied \in 1 .. Fragment
        BY <3>1, <3>3 DEF NoBuffer, BufferInv
      <4> QED BY <1>0, <4>1
    <3> QED BY <3>2, <3>3
  <2>2. n = 0 \/ n = p.sent - p.copied
    BY DEF Lengths, Writes, BufferInv, AllCarry, Carries
  <2> QED BY <1>0, <2>1, <2>2 DEF CountInv
<1>6. FreeLeavesNothing
  BY DEF OpenInv, FreeLeavesNothing
<1> QED BY <1>1, <1>2, <1>3, <1>4, <1>5, <1>6 DEF ComprSafe

(* Over one compressed stream and its gapless successor: at most one buffer is in    *)
(* flight, the driver's ring index stays in step with the bytes sent, a running      *)
(* stream with data never waits without a buffer in flight, the application          *)
(* overruns only by the padding of a partial fragment, and free leaves no stream     *)
(* open unless a next track was announced and not begun. For every fragment size     *)
(* and count, where user space waits for a drain before it writes and the DSP        *)
(* reports the end of a stream once.                                                 *)
THEOREM ComprIsSafe ==
    ASSUME WaitsForDrain, ~ReportsEachEos PROVE ComprSpec => []ComprSafe
<1>1. ComprInit => ComprInv
  BY ComprStart
<1>2. ComprInv /\ [ComprNext]_comprVars => ComprInv'
  BY ComprStep
<1>3. ComprInv => ComprSafe
  BY ComprInvSafe
<1> QED BY <1>1, <1>2, <1>3, PTL DEF ComprSpec

-----------------------------------------------------------------------------
(* One PCM                                                                 *)

(* The commands that are waited for. *)
SyncOps == {"CLOSE", "UNMAP", "MAP", "OPEN", "FMT"}
(* Those that are not. *)
AsyncOps == {"DATA", "RUN", "PAUSE", "EOS"}
(* What the DSP sends for the latter: replies and events. *)
AsyncReplies == {"RUN", "PAUSE", "DATAERR", "DATADONE", "EOSDONE"}
(* The messages from the DSP whose op is in A. *)
Rep(A) == [op : A, ok : BOOLEAN]
(* The three places where the memory is unmapped. *)
Unmaps == {"p_unmap", "e_unmap", "c_unmap"}

(* A queue that holds nothing but A. *)
Within(s, A) == \A i \in DOMAIN s : s[i] \in A
(* In a queue, only B comes after an A. *)
Behind(s, A, B) == \A i, j \in DOMAIN s : i < j /\ s[i] \in A => s[j] \in B

(* A command that is waited for is on its way to the DSP. *)
Asked == ~Within(cmds, AsyncOps)
(* Its reply is on its way back. *)
Told == ~Within(evts, Rep(AsyncReplies))
(* The DSP has not taken the command of this place yet. *)
Pending == ~sent \/ Asked

(* Nothing is on its way that starts, refills or ends a stream: only buffers the  *)
(* DSP refuses, and commands that are waited for.                                 *)
DataOnly ==
    /\ Within(cmds, {"DATA"} \cup SyncOps) /\ Within(evts, Rep({"DATAERR"} \cup SyncOps))
    /\ rx.op \in {"DATAERR", "none"} \cup SyncOps
(* A reply that has no callback. *)
Silent(r) == r = None \/ r.op = "UNMAP" \/ (r.op = "MAP" /\ ~r.ok)
(* A stream that was just opened: nothing queued, nothing running, the buffers of *)
(* these hw_params.                                                               *)
Fresh == dsp.open /\ dsp.queue = 0 /\ ~dsp.running /\ ~dsp.eos /\ ac.buf = hw

(* Where the ALSA thread can be. *)
PcmPlaces == {"idle", "p_close", "p_unmap", "p_map", "p_open", "p_fmt", "e_close", "e_unmap",
              "c_close", "c_unmap"}

(* What each variable ranges over. *)
PcmTyped ==
    /\ dir \in Dirs /\ badFormat \in BOOLEAN /\ hw \in PeriodCounts \cup {0}
    /\ alsa \in {"closed", "open", "setup", "prepared", "running", "paused"}
    /\ pc \in PcmPlaces /\ sent \in BOOLEAN
    /\ state \in {"IDLE", "STOPPED", "RUNNING"} /\ client \in BOOLEAN /\ resumes \in 0 .. ResumeMax
    /\ ac \in [refs : Nat, buf : PeriodCounts \cup {0}, next : Nat,
               result : Rep(SyncOps \cup AsyncReplies) \cup {None}]
    /\ privLive \in BOOLEAN /\ reused \in BOOLEAN
    /\ cmds \in Seq(SyncOps \cup AsyncOps) /\ evts \in Seq(Rep(SyncOps \cup AsyncReplies))
    /\ rx \in Rep(SyncOps \cup AsyncReplies) \cup {None}
    /\ dsp \in [open : BOOLEAN, mapped : BOOLEAN, running : BOOLEAN, queue : Nat, eos : BOOLEAN]

(* One command is waited for at a time, and nothing but refused buffers comes     *)
(* after it or its reply.                                                         *)
WaitInv ==
    /\ ~sent => ~Asked /\ ~Told
    /\ sent => /\ pc \in DOMAIN Commands
               /\ Within(cmds, AsyncOps \cup {Commands[pc]})
               /\ Within(evts, Rep(AsyncReplies \cup {Commands[pc]}))
               /\ ac.result.op \in AsyncReplies \cup {"none", Commands[pc]}
    /\ ~(Asked /\ Told)
    /\ sent /\ ac.result.op \in SyncOps => ~Asked /\ ~Told
    /\ Behind(cmds, SyncOps, {"DATA"}) /\ Behind(evts, Rep(SyncOps), Rep({"DATAERR"}))

(* Every command but CLOSE is the last thing in flight until its reply has been   *)
(* stored: such a wait never times out.                                           *)
LastInv ==
    sent /\ Commands[pc] # "CLOSE" =>
        /\ Behind(cmds, SyncOps, {}) /\ Behind(evts, Rep(SyncOps), {})
        /\ Told => cmds = <<>>
        /\ ~Asked /\ ~Told => /\ cmds = <<>> /\ evts = <<>>
                              /\ ac.result.op = Commands[pc] /\ rx \in {ac.result, None}

(* After a CLOSE was taken the stream is closed, and after its reply only refused *)
(* buffers are left. Their errors may overwrite the reply, so this wait can time  *)
(* out.                                                                           *)
CloseInv ==
    sent /\ Commands[pc] = "CLOSE" =>
        /\ ~Asked => ~dsp.open /\ Within(cmds, {"DATA"})
        /\ ~Asked /\ ~Told => DataOnly

(* Away from a stream that is set up or being closed, nothing runs and nothing    *)
(* refills.                                                                       *)
CalmInv ==
    \/ pc \in {"p_close", "c_close"}
    \/ pc = "idle" /\ client /\ state # "IDLE"
    \/ DataOnly /\ ~dsp.running /\ ~dsp.eos

(* When the DSP stream is open: never, unless a format was refused, where prepare *)
(* maps or the client is idle; and never without its memory.                      *)
DspInv ==
    /\ ~dsp.open => dsp.queue = 0 /\ ~dsp.running /\ ~dsp.eos
    /\ ~badFormat /\ \/ pc \in {"p_unmap", "p_map", "e_unmap", "c_unmap"}
                     \/ pc = "p_open" /\ Pending
                     \/ pc = "idle" /\ (~client \/ state = "IDLE")
         => ~dsp.open
    /\ ~badFormat /\ dsp.open => dsp.mapped

(* port->buf and the memory mapped on the DSP agree but for the time between a    *)
(* command and its reply; without buffers nothing is in flight.                   *)
MapInv ==
    /\ ac.buf = 0 => /\ ~sent /\ pc \in {"idle", "p_map", "c_unmap"} /\ cmds = <<>> /\ evts = <<>>
                     /\ Silent(rx) /\ (pc = "idle" /\ client => state = "IDLE")
    /\ pc = "p_map" /\ sent /\ Asked => ~dsp.mapped
    /\ pc \in Unmaps /\ ~Pending => ~dsp.mapped
    /\ ~(pc = "p_map" /\ sent) /\ ~(pc \in Unmaps /\ ~Pending) => (dsp.mapped <=> ac.buf # 0)
    /\ ~client => ac.buf = 0 /\ pc = "idle"

(* What a reply says of the DSP as long as it is waited for. *)
Meaning(r) ==
    /\ r.op = "UNMAP" => r.ok
    /\ r.op = "MAP" => (r.ok <=> dsp.mapped)
    /\ r.op = "OPEN" => IF r.ok THEN Fresh ELSE badFormat \/ ~dsp.open
    /\ r.op = "FMT" => badFormat \/ r.ok

(* The stored reply and those on their way still mean that. *)
ReplyInv ==
    sent => Meaning(ac.result) /\ \A i \in DOMAIN evts : Meaning(evts[i])

(* What prepare has set up at each of its places. *)
SetupInv ==
    /\ pc = "p_map" /\ ~sent /\ ac.buf # 0 => dsp.open
    /\ pc = "p_map" /\ sent => ac.buf = hw
    /\ pc = "idle" /\ client /\ state = "IDLE" /\ ac.buf # 0 => dsp.open
    /\ pc = "p_open" /\ Pending => ac.buf = hw \/ dsp.open
    /\ pc = "p_fmt" => Fresh /\ Within(cmds, SyncOps)
    /\ pc = "idle" /\ alsa \in {"prepared", "running", "paused"} =>
         ac.buf = hw /\ client /\ state # "IDLE"
    /\ alsa \notin {"closed", "open"} => hw # 0

(* The places and states that go together, and who holds a reference to the       *)
(* client.                                                                        *)
PlaceInv ==
    /\ alsa = "closed" => ~client
    /\ alsa \in {"running", "paused"} => pc = "idle"
    /\ pc \notin {"idle", "c_close", "c_unmap"} => alsa \in {"setup", "prepared"}
    /\ pc \in {"p_map", "p_open", "p_fmt", "e_close", "e_unmap"} => state = "IDLE"
    /\ ac.refs = (IF client THEN 1 ELSE 0) + (IF rx = None THEN 0 ELSE 1)
    /\ reused \/ alsa = "closed" \/ privLive

(* The events that hand another buffer to the DSP. *)
Kinds == {"DATADONE"} \cup IF dir = "playback" THEN {"RUN"} ELSE {}
(* The commands that are a buffer or lead to such an event. *)
KindOps == {"DATA"} \cup IF dir = "playback" THEN {"RUN"} ELSE {}
(* Everything in flight that is a buffer or will become one. No step of the DSP   *)
(* or the receive worker adds to it.                                              *)
Tokens == Count(cmds, KindOps) + dsp.queue + Count(evts, Rep(Kinds)) + (IF rx.op \in Kinds THEN 1 ELSE 0)
(* What the triggers so far allow. *)
Allowed == IF dir = "playback" THEN resumes + (IF alsa = "prepared" THEN 0 ELSE 1) ELSE ac.buf
(* A stream that is set up stays within it. *)
TokenInv == pc = "idle" /\ alsa \in {"prepared", "running", "paused"} => Tokens <= Allowed

(* The inductive invariant. *)
PcmInv == PcmTyped /\ WaitInv /\ LastInv /\ CloseInv /\ CalmInv /\ DspInv /\ MapInv /\ ReplyInv
          /\ SetupInv /\ PlaceInv /\ TokenInv

(* The commands of each place. *)
LEMMA PcmCommands ==
    /\ DOMAIN Commands = {"p_close", "p_unmap", "p_map", "p_open", "p_fmt", "e_close", "e_unmap",
                          "c_close", "c_unmap"}
    /\ Commands["p_close"] = "CLOSE" /\ Commands["e_close"] = "CLOSE" /\ Commands["c_close"] = "CLOSE"
    /\ Commands["p_unmap"] = "UNMAP" /\ Commands["e_unmap"] = "UNMAP" /\ Commands["c_unmap"] = "UNMAP"
    /\ Commands["p_map"] = "MAP" /\ Commands["p_open"] = "OPEN" /\ Commands["p_fmt"] = "FMT"
BY DEF Commands

(* A typed event is told apart by its op. *)
LEMMA RepIs ==
    /\ \A A, B : \A r \in Rep(A) : r \in Rep(B) <=> r.op \in B
    /\ None.op = "none"
    /\ \A A : \A op \in A : \A ok \in BOOLEAN :
         Reply(op, ok) \in Rep(A) /\ Reply(op, ok).op = op /\ Reply(op, ok).ok = ok
BY DEF Rep, None, Reply

(* An empty queue. *)
LEMMA PcmEmpty ==
    /\ \A A, B : Within(<<>>, A) /\ Behind(<<>>, A, B)
    /\ \A T : \A s \in Seq(T) : Within(s, {}) => s = <<>>
<1>1. \A A, B : Within(<<>>, A) /\ Behind(<<>>, A, B)
  BY DEF Within, Behind
<1>2. ASSUME NEW T, NEW s \in Seq(T), Within(s, {}) PROVE s = <<>>
  <2>1. Len(s) \in Nat /\ DOMAIN s = 1 .. Len(s)
    OBVIOUS
  <2>2. Len(s) = 0
    <3> SUFFICES ASSUME Len(s) # 0 PROVE FALSE
      OBVIOUS
    <3>1. 1 \in DOMAIN s
      BY <2>1
    <3> QED BY <1>2, <3>1 DEF Within
  <2> QED BY <2>2
<1> QED BY <1>1, <1>2

(* What a queue is within, it is within anything larger. *)
LEMMA WithinMore ==
    ASSUME NEW s, NEW A, NEW B, Within(s, A), A \subseteq B
    PROVE  Within(s, B)
BY DEF Within

(* Nothing is behind what is not there. *)
LEMMA BehindNone ==
    ASSUME NEW s, NEW A, NEW B, NEW C, Within(s, C), A \cap C = {}
    PROVE  Behind(s, A, B)
BY DEF Within, Behind

(* A message appended. *)
LEMMA PcmAppend ==
    ASSUME NEW T, NEW s \in Seq(T), NEW m \in T
    PROVE  /\ Append(s, m) \in Seq(T) /\ Append(s, m) # <<>>
           /\ \A A : Within(Append(s, m), A) <=> Within(s, A) /\ m \in A
           /\ \A A, B : Behind(s, A, B) /\ m \in B => Behind(Append(s, m), A, B)
           /\ \A A, B, C : Within(s, C) /\ A \cap C = {} => Behind(Append(s, m), A, B)
<1> DEFINE t == Append(s, m)
<1>1. t \in Seq(T) /\ DOMAIN s = 1 .. Len(s) /\ DOMAIN t = 1 .. Len(s) + 1 /\ Len(s) \in Nat /\ t # <<>>
  OBVIOUS
<1>2. \A i \in DOMAIN s : i \in DOMAIN t /\ t[i] = s[i]
  OBVIOUS
<1>3. Len(s) + 1 \in DOMAIN t /\ t[Len(s) + 1] = m
  OBVIOUS
<1>4. \A i \in DOMAIN t : i \in DOMAIN s \/ i = Len(s) + 1
  BY <1>1
<1>5. \A i, j \in DOMAIN t : i < j => i \in DOMAIN s
  BY <1>1
<1> HIDE DEF t
<1>6. \A A : Within(t, A) <=> Within(s, A) /\ m \in A
  BY <1>2, <1>3, <1>4 DEF Within
<1>7. ASSUME NEW A, NEW B, Behind(s, A, B), m \in B PROVE Behind(t, A, B)
  <2> SUFFICES ASSUME NEW i \in DOMAIN t, NEW j \in DOMAIN t, i < j, t[i] \in A PROVE t[j] \in B
    BY DEF Behind
  <2>1. i \in DOMAIN s
    BY <1>5
  <2>2. CASE j \in DOMAIN s
    BY <1>2, <1>7, <2>1, <2>2 DEF Behind
  <2>3. CASE j = Len(s) + 1
    BY <1>3, <1>7, <2>3
  <2> QED BY <1>4, <2>2, <2>3
<1>8. ASSUME NEW A, NEW B, NEW C, Within(s, C), A \cap C = {} PROVE Behind(t, A, B)
  BY <1>2, <1>5, <1>8 DEF Behind, Within
<1> QED BY <1>1, <1>6, <1>7, <1>8 DEF t

(* The head taken. *)
LEMMA PcmTail ==
    ASSUME NEW T, NEW s \in Seq(T), s # <<>>
    PROVE  /\ Head(s) \in T /\ Tail(s) \in Seq(T)
           /\ \A A : Within(s, A) <=> Head(s) \in A /\ Within(Tail(s), A)
           /\ \A A, B : Behind(s, A, B) =>
                        Behind(Tail(s), A, B) /\ (Head(s) \in A => Within(Tail(s), B))
<1> DEFINE t == Tail(s)
<1> DEFINE h == Head(s)
<1>1. /\ h \in T /\ t \in Seq(T) /\ Len(s) \in Nat \ {0}
      /\ DOMAIN s = 1 .. Len(s) /\ DOMAIN t = 1 .. Len(s) - 1 /\ h = s[1] /\ 1 \in DOMAIN s
  OBVIOUS
<1>2. \A i \in DOMAIN t : i + 1 \in DOMAIN s /\ t[i] = s[i + 1] /\ 1 < i + 1
  BY <1>1
<1>3. \A i \in DOMAIN s : i # 1 => i - 1 \in DOMAIN t /\ s[i] = t[i - 1]
  <2> SUFFICES ASSUME NEW i \in DOMAIN s, i # 1 PROVE i - 1 \in DOMAIN t /\ s[i] = t[i - 1]
    OBVIOUS
  <2>1. i - 1 \in DOMAIN t /\ (i - 1) + 1 = i
    BY <1>1
  <2> QED BY <1>2, <2>1
<1>4. \A i, j \in DOMAIN t : i < j => i + 1 < j + 1
  BY <1>1
<1> HIDE DEF t, h
<1>5. \A A : Within(s, A) <=> h \in A /\ Within(t, A)
  BY <1>1, <1>2, <1>3 DEF Within
<1>6. ASSUME NEW A, NEW B, Behind(s, A, B) PROVE Behind(t, A, B) /\ (h \in A => Within(t, B))
  <2>1. Behind(t, A, B)
    BY <1>2, <1>4, <1>6 DEF Behind
  <2>2. ASSUME h \in A, NEW i \in DOMAIN t PROVE t[i] \in B
    BY <1>1, <1>2, <1>6, <2>2 DEF Behind
  <2> QED BY <2>1, <2>2 DEF Within
<1> QED BY <1>1, <1>5, <1>6 DEF t, h

-----------------------------------------------------------------------------
(* Counting messages                                                       *)

(* The places of a queue that hold an A. *)
Places(s, A) == {i \in DOMAIN s : s[i] \in A}

(* They are finitely many, so their count is a number. *)
LEMMA PlacesFinite ==
    ASSUME NEW T, NEW s \in Seq(T), NEW A
    PROVE  IsFiniteSet(Places(s, A)) /\ Count(s, A) = Cardinality(Places(s, A)) /\ Count(s, A) \in Nat
<1>1. DOMAIN s = 1 .. Len(s) /\ Len(s) \in Int
  OBVIOUS
<1>2. IsFiniteSet(DOMAIN s)
  BY <1>1, FS_Interval
<1>3. Places(s, A) \in SUBSET DOMAIN s
  BY DEF Places
<1>4. IsFiniteSet(Places(s, A))
  BY <1>2, <1>3, FS_Subset
<1> QED BY <1>4, FS_CardinalityType DEF Places, Count

(* A larger set counts more. *)
LEMMA CountMono ==
    ASSUME NEW T, NEW s \in Seq(T), NEW A, NEW B, A \subseteq B
    PROVE  Count(s, A) <= Count(s, B)
<1>1. Places(s, A) \in SUBSET Places(s, B)
  BY DEF Places
<1> QED BY <1>1, PlacesFinite, FS_Subset

(* Nothing of what a queue does not hold. *)
LEMMA CountNone ==
    ASSUME NEW T, NEW s \in Seq(T), NEW A, NEW B, Within(s, B), A \cap B = {}
    PROVE  Count(s, A) = 0
<1>1. Places(s, A) = {}
  BY DEF Places, Within
<1> QED BY <1>1, PlacesFinite, FS_EmptySet

(* The count with a message appended. *)
LEMMA CountAppend ==
    ASSUME NEW T, NEW s \in Seq(T), NEW m \in T, NEW A
    PROVE  Count(Append(s, m), A) = Count(s, A) + IF m \in A THEN 1 ELSE 0
<1> DEFINE t == Append(s, m)
<1> DEFINE n == Len(s) + 1
<1>1. /\ t \in Seq(T) /\ Len(s) \in Nat /\ DOMAIN s = 1 .. Len(s) /\ DOMAIN t = DOMAIN s \cup {n}
      /\ n \notin DOMAIN s /\ t[n] = m
  OBVIOUS
<1>2. \A i \in DOMAIN s : t[i] = s[i]
  OBVIOUS
<1> HIDE DEF t, n
<1>3. IsFiniteSet(Places(s, A)) /\ Count(s, A) = Cardinality(Places(s, A)) /\ Count(s, A) \in Nat
  BY PlacesFinite
<1>4. Count(t, A) = Cardinality(Places(t, A))
  BY <1>1, PlacesFinite
<1>5. CASE m \in A
  <2>1. Places(t, A) = Places(s, A) \cup {n} /\ n \notin Places(s, A)
    BY <1>1, <1>2, <1>5 DEF Places
  <2>2. Cardinality(Places(s, A) \cup {n}) = Cardinality(Places(s, A)) + 1
    BY <1>3, <2>1, FS_AddElement
  <2> QED BY <1>3, <1>4, <1>5, <2>1, <2>2 DEF t
<1>6. CASE m \notin A
  <2>1. Places(t, A) = Places(s, A)
    BY <1>1, <1>2, <1>6 DEF Places
  <2> QED BY <1>3, <1>4, <1>6, <2>1 DEF t
<1> QED BY <1>5, <1>6

(* The count without the head. *)
LEMMA CountTail ==
    ASSUME NEW T, NEW s \in Seq(T), s # <<>>, NEW A
    PROVE  Count(s, A) = Count(Tail(s), A) + IF Head(s) \in A THEN 1 ELSE 0
<1> DEFINE t == Tail(s)
<1> DEFINE P == Places(t, A)
<1> DEFINE Q == Places(s, A) \ {1}
<1> DEFINE f == [i \in P |-> i + 1]
<1>1. /\ t \in Seq(T) /\ Len(s) \in Nat \ {0} /\ DOMAIN s = 1 .. Len(s) /\ DOMAIN t = 1 .. Len(s) - 1
      /\ 1 \in DOMAIN s /\ Head(s) = s[1]
  OBVIOUS
<1>2. \A i \in DOMAIN t : i \in Nat \ {0} /\ i + 1 \in DOMAIN s /\ t[i] = s[i + 1]
  BY <1>1
<1>3. \A i \in DOMAIN s : i # 1 => i - 1 \in DOMAIN t /\ (i - 1) + 1 = i
  BY <1>1
<1> HIDE DEF t
<1>4. f \in [P -> Q]
  <2> SUFFICES ASSUME NEW i \in P PROVE i + 1 \in Q
    OBVIOUS
  <2>1. i + 1 # 1
    BY <1>2 DEF Places
  <2> QED BY <1>2, <2>1 DEF Places
<1>5. \A i, j \in P : f[i] = f[j] => i = j
  <2> SUFFICES ASSUME NEW i \in P, NEW j \in P, i + 1 = j + 1 PROVE i = j
    OBVIOUS
  <2>1. i \in Nat /\ j \in Nat
    BY <1>2 DEF Places
  <2> QED BY <2>1
<1>6. \A j \in Q : \E i \in P : f[i] = j
  <2> SUFFICES ASSUME NEW j \in Q PROVE j - 1 \in P /\ f[j - 1] = j
    OBVIOUS
  <2>1. j \in DOMAIN s /\ j # 1 /\ s[j] \in A
    BY DEF Places
  <2>2. j - 1 \in DOMAIN t /\ (j - 1) + 1 = j
    BY <1>3, <2>1
  <2>3. t[j - 1] = s[j]
    BY <1>2, <2>2
  <2>4. j - 1 \in P
    BY <2>1, <2>2, <2>3 DEF Places
  <2> QED BY <2>2, <2>4
<1>7. f \in Bijection(P, Q)
  BY <1>4, <1>5, <1>6, Zenon DEF Bijection, Injection, Surjection, IsInjective
<1>8. IsFiniteSet(P) /\ Count(t, A) = Cardinality(P) /\ Count(t, A) \in Nat
  BY <1>1, PlacesFinite
<1>9. Cardinality(Q) = Cardinality(P)
  BY <1>7, <1>8, FS_Bijection, Zenon DEF ExistsBijection
<1>10. IsFiniteSet(Places(s, A)) /\ Count(s, A) = Cardinality(Places(s, A)) /\ Count(s, A) \in Nat
  BY PlacesFinite
<1>11. Cardinality(Q) = IF 1 \in Places(s, A) THEN Cardinality(Places(s, A)) - 1 ELSE Cardinality(Places(s, A))
  BY <1>10, FS_RemoveElement
<1>12. 1 \in Places(s, A) <=> Head(s) \in A
  BY <1>1 DEF Places
<1> HIDE DEF P, Q, f
<1> QED BY <1>8, <1>9, <1>10, <1>11, <1>12 DEF t

(* The count of a filled queue: the reads a capture queues at once. *)
LEMMA CountFill ==
    ASSUME NEW n \in Nat, NEW e, NEW A, e \in A
    PROVE  Count([i \in 1 .. n |-> e], A) = n
<1>1. {i \in DOMAIN [j \in 1 .. n |-> e] : [j \in 1 .. n |-> e][i] \in A} = 1 .. n
  OBVIOUS
<1>2. Cardinality(1 .. n) = n
  <2>1. Cardinality(1 .. n) = IF 1 > n THEN 0 ELSE n - 1 + 1
    BY FS_Interval
  <2> QED BY <2>1
<1> QED BY <1>1, <1>2 DEF Count

(* The invariant holds initially. *)
LEMMA PcmStart == ASSUME PcmInit PROVE PcmInv
<1>e. <<>> \in Seq(SyncOps \cup AsyncOps) /\ <<>> \in Seq(Rep(SyncOps \cup AsyncReplies))
  OBVIOUS
<1>1. PcmTyped
  <2>1. resumes \in 0 .. ResumeMax
    BY PcmAssumption DEF PcmInit
  <2>2. ac \in [refs : Nat, buf : PeriodCounts \cup {0}, next : Nat,
               result : Rep(SyncOps \cup AsyncReplies) \cup {None}]
    BY DEF PcmInit
  <2>3. dsp \in [open : BOOLEAN, mapped : BOOLEAN, running : BOOLEAN, queue : Nat, eos : BOOLEAN]
    BY DEF PcmInit
  <2> QED BY <1>e, <2>1, <2>2, <2>3, Zenon DEF PcmInit, PcmTyped, PcmPlaces
<1>2. ~Asked /\ ~Told
  BY PcmEmpty DEF PcmInit, Asked, Told
<1>3. WaitInv
  BY <1>2, PcmEmpty DEF PcmInit, WaitInv
<1>4. LastInv /\ CloseInv
  BY DEF PcmInit, LastInv, CloseInv
<1>5. CalmInv
  BY PcmEmpty, RepIs DEF PcmInit, CalmInv, DataOnly
<1>6. DspInv
  BY DEF PcmInit, DspInv
<1>7. MapInv
  BY DEF PcmInit, MapInv, Silent, Unmaps
<1>8. ReplyInv /\ SetupInv /\ PlaceInv /\ TokenInv
  BY DEF PcmInit, ReplyInv, SetupInv, PlaceInv, TokenInv
<1> QED BY <1>1, <1>3, <1>4, <1>5, <1>6, <1>7, <1>8 DEF PcmInv

(* A stuttering step. *)
LEMMA PcmUnchanged == ASSUME PcmInv, UNCHANGED pcmVars PROVE PcmInv'
<1> USE DEF pcmVars, threadVars, acVars, PcmInv
<1>1. PcmTyped'
  BY DEF PcmTyped
<1>2. WaitInv' /\ LastInv' /\ CloseInv' /\ CalmInv'
  BY DEF WaitInv, LastInv, CloseInv, CalmInv, DataOnly, Asked, Told
<1>3. DspInv' /\ MapInv' /\ ReplyInv'
  BY DEF DspInv, MapInv, ReplyInv, Meaning, Fresh, Silent, Asked, Told, Pending
<1>4. SetupInv' /\ PlaceInv'
  BY DEF SetupInv, PlaceInv, Fresh, Asked, Pending
<1>5. TokenInv'
  BY DEF TokenInv, Tokens, Allowed, Kinds, KindOps
<1> QED BY <1>1, <1>2, <1>3, <1>4, <1>5

(* q6asm_dai_open keeps it, with a fresh client or with one that is still         *)
(* referenced.                                                                    *)
LEMMA PcmOpenKeeps == ASSUME PcmInv, Open PROVE PcmInv'
<1> USE DEF PcmInv
<1>1. /\ pc = "idle" /\ alsa = "closed" /\ alsa' = "open" /\ state' = "IDLE" /\ client'
      /\ dir' = dir /\ badFormat' = badFormat /\ hw' = hw /\ pc' = pc /\ sent' = sent /\ resumes' = resumes
      /\ cmds' = cmds /\ evts' = evts /\ rx' = rx /\ dsp' = dsp
  BY DEF Open
<1>2. ~client /\ ac.buf = 0 /\ ~sent /\ cmds = <<>> /\ evts = <<>> /\ Silent(rx)
  BY <1>1 DEF PlaceInv, MapInv
<1>3. ac.refs = IF rx = None THEN 0 ELSE 1
  BY <1>2 DEF PlaceInv
<1>4. /\ ac'.buf = 0 /\ ac'.refs = ac.refs + 1
      /\ ac' \in [refs : Nat, buf : PeriodCounts \cup {0}, next : Nat,
                  result : Rep(SyncOps \cup AsyncReplies) \cup {None}]
      /\ privLive' \in BOOLEAN /\ reused' \in BOOLEAN /\ (reused' \/ privLive')
  <2>1. ac.refs \in Nat /\ ac \in [refs : Nat, buf : PeriodCounts \cup {0}, next : Nat,
                  result : Rep(SyncOps \cup AsyncReplies) \cup {None}]
    BY DEF PcmTyped
  <2>2. CASE ac.refs = 0
    BY <2>1, <2>2 DEF Open, PcmTyped
  <2>3. CASE ac.refs # 0
    BY <1>2, <2>1, <2>3 DEF Open, PcmTyped
  <2> QED BY <2>2, <2>3
<1>5. PcmTyped'
  BY <1>1, <1>4 DEF PcmTyped
<1>6. ~Asked' /\ ~Told' /\ ~sent'
  BY <1>1, <1>2, PcmEmpty DEF Asked, Told
<1>7. WaitInv' /\ LastInv' /\ CloseInv' /\ ReplyInv'
  BY <1>1, <1>2, <1>6, PcmEmpty DEF WaitInv, LastInv, CloseInv, ReplyInv
<1>8. CalmInv'
  BY <1>1, <1>2 DEF CalmInv, DataOnly
<1>9. DspInv'
  BY <1>1, <1>2 DEF DspInv
<1>10. MapInv'
  BY <1>1, <1>2, <1>4, <1>6 DEF MapInv, Silent, Pending
<1>11. SetupInv'
  BY <1>1, <1>4 DEF SetupInv
<1>12. PlaceInv'
  BY <1>1, <1>2, <1>3, <1>4 DEF PlaceInv
<1>13. TokenInv'
  BY <1>1 DEF TokenInv
<1> QED BY <1>5, <1>7, <1>8, <1>9, <1>10, <1>11, <1>12, <1>13

(* hw_params keeps it. *)
LEMMA HwParamsKeeps == ASSUME PcmInv, HwParams PROVE PcmInv'
<1> USE DEF PcmInv
<1>1. /\ pc = "idle" /\ alsa \in {"open", "setup", "prepared"} /\ alsa' = "setup" /\ hw' \in PeriodCounts
      /\ dir' = dir /\ badFormat' = badFormat /\ pc' = pc /\ sent' = sent /\ resumes' = resumes
      /\ state' = state /\ client' = client /\ ac' = ac /\ privLive' = privLive /\ reused' = reused
      /\ cmds' = cmds /\ evts' = evts /\ rx' = rx /\ dsp' = dsp
  BY DEF HwParams, acVars
<1>2. hw' # 0
  BY <1>1, PcmAssumption
<1>3. PcmTyped'
  BY <1>1 DEF PcmTyped
<1>4. ~sent
  BY <1>1, PcmCommands DEF WaitInv
<1>5. WaitInv' /\ LastInv' /\ CloseInv' /\ ReplyInv'
  BY <1>1, <1>4 DEF WaitInv, LastInv, CloseInv, ReplyInv, Asked, Told
<1>6. CalmInv'
  BY <1>1 DEF CalmInv, DataOnly
<1>7. DspInv'
  BY <1>1 DEF DspInv
<1>8. MapInv'
  BY <1>1, <1>4 DEF MapInv, Silent, Pending
<1>9. SetupInv'
  BY <1>1, <1>2 DEF SetupInv
<1>10. PlaceInv'
  BY <1>1 DEF PlaceInv
<1>11. TokenInv'
  BY <1>1 DEF TokenInv
<1> QED BY <1>3, <1>5, <1>6, <1>7, <1>8, <1>9, <1>10, <1>11

(* The beginning of q6asm_dai_prepare keeps it. *)
LEMMA PrepareKeeps == ASSUME PcmInv, Prepare PROVE PcmInv'
<1> USE DEF PcmInv
<1>1. /\ pc = "idle" /\ alsa \in {"setup", "prepared"} /\ alsa' = alsa /\ client /\ ~sent'
      /\ pc' = (IF state # "IDLE" THEN "p_close" ELSE "p_map")
      /\ dir' = dir /\ badFormat' = badFormat /\ hw' = hw /\ resumes' = resumes
      /\ state' = state /\ client' = client /\ ac' = ac /\ privLive' = privLive /\ reused' = reused
      /\ cmds' = cmds /\ evts' = evts /\ rx' = rx /\ dsp' = dsp
  BY DEF Prepare, Goto, acVars
<1>2. sent' = FALSE
  BY DEF Prepare, Goto
<1>3. PcmTyped'
  <2>1. pc' \in PcmPlaces /\ sent' \in BOOLEAN
    BY <1>1, <1>2 DEF PcmPlaces
  <2> QED BY <1>1, <2>1 DEF PcmTyped
<1>4. ~sent
  BY <1>1, PcmCommands DEF WaitInv
<1>5. WaitInv' /\ LastInv' /\ CloseInv' /\ ReplyInv'
  BY <1>1, <1>4 DEF WaitInv, LastInv, CloseInv, ReplyInv, Asked, Told
<1>6. CalmInv'
  BY <1>1 DEF CalmInv, DataOnly
<1>7. DspInv'
  BY <1>1 DEF DspInv
<1>8. MapInv'
  BY <1>1, <1>4 DEF MapInv, Silent, Pending, Unmaps
<1>9. SetupInv'
  BY <1>1 DEF SetupInv
<1>10. PlaceInv'
  BY <1>1 DEF PlaceInv
<1>11. TokenInv'
  BY <1>1 DEF TokenInv
<1> QED BY <1>3, <1>5, <1>6, <1>7, <1>8, <1>9, <1>10, <1>11

(* The beginning of q6asm_dai_close keeps it. *)
LEMMA PcmCloseKeeps == ASSUME PcmInv, Close PROVE PcmInv'
<1> USE DEF PcmInv
<1>1. /\ pc = "idle" /\ alsa \in {"open", "setup", "prepared"}
      /\ dir' = dir /\ badFormat' = badFormat /\ resumes' = resumes
      /\ state' = state /\ client' = client /\ ac' = ac /\ reused' = reused
      /\ cmds' = cmds /\ evts' = evts /\ rx' = rx /\ dsp' = dsp
  BY DEF Close
<1>2. ~sent
  BY <1>1, PcmCommands DEF WaitInv
<1>3. CASE client
  <2>1. /\ ~sent' /\ sent' = FALSE /\ alsa' = alsa /\ hw' = hw /\ privLive' = privLive
        /\ pc' = IF state # "IDLE" THEN "c_close" ELSE "c_unmap"
    BY <1>3 DEF Close, Goto
  <2>3. PcmTyped'
    <3>1. pc' \in PcmPlaces /\ sent' \in BOOLEAN
      BY <1>1, <2>1 DEF PcmPlaces
    <3> QED BY <1>1, <2>1, <3>1 DEF PcmTyped
  <2>5. WaitInv' /\ LastInv' /\ CloseInv' /\ ReplyInv'
    BY <1>1, <1>2, <2>1 DEF WaitInv, LastInv, CloseInv, ReplyInv, Asked, Told
  <2>6. CalmInv'
    BY <1>1, <2>1 DEF CalmInv, DataOnly
  <2>7. DspInv'
    BY <1>1, <2>1 DEF DspInv
  <2>8. MapInv'
    BY <1>1, <1>2, <1>3, <2>1 DEF MapInv, Silent, Pending, Unmaps
  <2>9. SetupInv'
    BY <1>1, <2>1 DEF SetupInv
  <2>10. PlaceInv'
    BY <1>1, <2>1 DEF PlaceInv
  <2>11. TokenInv'
    BY <1>1, <2>1 DEF TokenInv
  <2> QED BY <2>3, <2>5, <2>6, <2>7, <2>8, <2>9, <2>10, <2>11
<1>4. CASE ~client
  <2>1. sent' = sent /\ pc' = pc /\ alsa' = "closed" /\ hw' = 0 /\ privLive' = FALSE
    BY <1>4 DEF Close
  <2>2. ac.buf = 0
    BY <1>4 DEF MapInv
  <2>3. PcmTyped'
    <3>1. /\ alsa' \in {"closed", "open", "setup", "prepared", "running", "paused"}
          /\ hw' \in PeriodCounts \cup {0} /\ privLive' \in BOOLEAN
      BY <2>1
    <3> QED BY <1>1, <2>1, <3>1 DEF PcmTyped
  <2>5. WaitInv' /\ LastInv' /\ CloseInv' /\ ReplyInv'
    BY <1>1, <1>2, <2>1 DEF WaitInv, LastInv, CloseInv, ReplyInv, Asked, Told
  <2>6. CalmInv'
    BY <1>1, <2>1 DEF CalmInv, DataOnly
  <2>7. DspInv'
    BY <1>1, <2>1 DEF DspInv
  <2>8. MapInv'
    BY <1>1, <1>2, <1>4, <2>1 DEF MapInv, Silent, Pending, Unmaps
  <2>9. SetupInv'
    BY <1>1, <1>4, <2>1 DEF SetupInv
  <2>10. PlaceInv'
    BY <1>1, <1>4, <2>1 DEF PlaceInv
  <2>11. TokenInv'
    BY <1>1, <2>1 DEF TokenInv
  <2> QED BY <2>3, <2>5, <2>6, <2>7, <2>8, <2>9, <2>10, <2>11
<1> QED BY <1>3, <1>4

(* The parts of the sum are numbers. *)
LEMMA TokensType ==
    ASSUME PcmTyped
    PROVE  Count(cmds, KindOps) \in Nat /\ Count(evts, Rep(Kinds)) \in Nat /\ dsp.queue \in Nat
BY PlacesFinite DEF PcmTyped

(* What is allowed is a number. *)
LEMMA AllowedType == ASSUME PcmTyped PROVE Allowed \in Nat
<1>1. resumes \in Nat /\ ac.buf \in PeriodCounts \cup {0}
  BY PcmAssumption DEF PcmTyped
<1>2. ac.buf \in Nat
  <2>1. \A n \in PeriodCounts : n \in Nat
    BY PcmAssumption
  <2> QED BY <1>1, <2>1
<1> QED BY <1>1, <1>2 DEF Allowed

(* A trigger sends its command and does not wait. *)
LEMMA PcmTriggerKeeps ==
    ASSUME PcmInv, NEW op \in {"RUN", "PAUSE", "EOS"}, TokenInv',
           pc = "idle", alsa \in {"prepared", "running", "paused"}, cmds' = Append(cmds, op),
           alsa' \in {"running", "paused", "setup"}, state' \in {state, "STOPPED"},
           resumes' \in 0 .. ResumeMax,
           UNCHANGED <<dir, badFormat, hw, pc, sent, client, acVars, evts, rx, dsp>>
    PROVE  PcmInv'
<1> USE DEF PcmInv
<1>1. /\ dir' = dir /\ badFormat' = badFormat /\ hw' = hw /\ pc' = pc /\ sent' = sent
      /\ client' = client /\ ac' = ac /\ privLive' = privLive /\ reused' = reused
      /\ evts' = evts /\ rx' = rx /\ dsp' = dsp
  BY DEF acVars
<1>2. ac.buf = hw /\ client /\ state # "IDLE" /\ hw # 0 /\ ac.buf # 0 /\ state' # "IDLE"
  BY DEF SetupInv
<1>3. ~sent /\ ~Asked /\ ~Told
  BY PcmCommands DEF WaitInv
<1>4. cmds \in Seq(SyncOps \cup AsyncOps) /\ op \in SyncOps \cup AsyncOps /\ op \in AsyncOps
  BY DEF PcmTyped, AsyncOps
<1>5. cmds' \in Seq(SyncOps \cup AsyncOps)
  BY <1>4, PcmAppend
<1>6. ~Asked' /\ ~Told'
  BY <1>1, <1>3, <1>4, PcmAppend DEF Asked, Told
<1>7. PcmTyped'
  BY <1>1, <1>5 DEF PcmTyped
<1>8. Behind(cmds', SyncOps, {"DATA"})
  <2>1. SyncOps \cap AsyncOps = {}
    BY DEF SyncOps, AsyncOps
  <2>2. Within(cmds, AsyncOps)
    BY <1>3 DEF Asked
  <2>3. Behind(Append(cmds, op), SyncOps, {"DATA"})
    <3>1. \A A, B, C : Within(cmds, C) /\ A \cap C = {} => Behind(Append(cmds, op), A, B)
      BY <1>4, PcmAppend
    <3> QED BY <2>1, <2>2, <3>1, Zenon
  <2> QED BY <2>3
<1>9. WaitInv' /\ LastInv' /\ CloseInv' /\ ReplyInv'
  BY <1>1, <1>3, <1>6, <1>8 DEF WaitInv, LastInv, CloseInv, ReplyInv
<1>10. CalmInv'
  BY <1>1, <1>2 DEF CalmInv
<1>11. DspInv'
  BY <1>1, <1>2 DEF DspInv
<1>12. MapInv'
  BY <1>1, <1>2, <1>3 DEF MapInv, Pending, Unmaps
<1>13. SetupInv'
  BY <1>1, <1>2 DEF SetupInv
<1>14. PlaceInv'
  BY <1>1, <1>2 DEF PlaceInv
<1> QED BY <1>7, <1>9, <1>10, <1>11, <1>12, <1>13, <1>14

(* q6asm_dai_trigger: start, pause, release and stop. *)
LEMMA TriggersKeep == ASSUME PcmInv, Start \/ Pause \/ PauseRelease \/ Stop PROVE PcmInv'
<1>t. PcmTyped /\ TokenInv
  BY DEF PcmInv
<1>c. cmds \in Seq(SyncOps \cup AsyncOps) /\ resumes \in 0 .. ResumeMax /\ resumes \in Nat
  BY <1>t, PcmAssumption DEF PcmTyped
<1>n. Count(cmds, KindOps) \in Nat /\ Count(evts, Rep(Kinds)) \in Nat /\ dsp.queue \in Nat
  BY <1>t, TokensType
<1>k. ASSUME dir' = dir PROVE Kinds' = Kinds /\ KindOps' = KindOps
  BY <1>k DEF Kinds, KindOps
<1>s. ASSUME NEW d \in Nat, UNCHANGED <<dir, evts, rx, dsp>>,
             Count(cmds', KindOps) = Count(cmds, KindOps) + d
      PROVE  Tokens' = Tokens + d /\ Tokens \in Nat
  <2>1. Kinds' = Kinds /\ KindOps' = KindOps /\ evts' = evts /\ rx' = rx /\ dsp' = dsp
    BY <1>k, <1>s
  <2>2. Count(evts, Rep(Kinds))' = Count(evts, Rep(Kinds)) /\ Count(cmds, KindOps)' = Count(cmds, KindOps) + d
    BY <1>s, <2>1
  <2> QED BY <1>n, <2>1, <2>2 DEF Tokens
<1>1. CASE Start
  <2>1. /\ pc = "idle" /\ alsa = "prepared" /\ alsa' = "running" /\ cmds' = Append(cmds, "RUN")
        /\ state' = state /\ resumes' = resumes
        /\ UNCHANGED <<dir, badFormat, hw, pc, sent, client, acVars, evts, rx, dsp>>
    BY <1>1 DEF Start, Trigger
  <2>2. Count(cmds', KindOps) = Count(cmds, KindOps) + IF "RUN" \in KindOps THEN 1 ELSE 0
    BY <1>c, <2>1, CountAppend DEF SyncOps, AsyncOps
  <2>3. "RUN" \in KindOps <=> dir = "playback"
    BY DEF KindOps
  <2>4. TokenInv'
    <3> DEFINE d == IF dir = "playback" THEN 1 ELSE 0
    <3>1. d \in Nat /\ Count(cmds', KindOps) = Count(cmds, KindOps) + d
      BY <1>n, <2>2, <2>3
    <3>2. Tokens' = Tokens + d /\ Tokens \in Nat
      BY <1>s, <2>1, <3>1
    <3>3. Tokens <= Allowed /\ ac' = ac /\ dir' = dir
      BY <1>t, <2>1 DEF TokenInv, acVars
    <3>4. Allowed \in Nat /\ Allowed' = Allowed + d
      BY <1>t, <1>c, <2>1, <3>3, AllowedType DEF Allowed
    <3> HIDE DEF d
    <3> QED BY <3>1, <3>2, <3>3, <3>4 DEF TokenInv
  <2>5. state' \in {state, "STOPPED"} /\ resumes' \in 0 .. ResumeMax
    BY <1>c, <2>1
  <2> QED BY <2>1, <2>4, <2>5, PcmTriggerKeeps
<1>2. CASE Pause
  <2>1. /\ pc = "idle" /\ alsa = "running" /\ alsa' = "paused" /\ cmds' = Append(cmds, "PAUSE")
        /\ state' = state /\ resumes' = resumes
        /\ UNCHANGED <<dir, badFormat, hw, pc, sent, client, acVars, evts, rx, dsp>>
    BY <1>2 DEF Pause, Trigger
  <2>2. Count(cmds', KindOps) = Count(cmds, KindOps) + IF "PAUSE" \in KindOps THEN 1 ELSE 0
    BY <1>c, <2>1, CountAppend DEF SyncOps, AsyncOps
  <2>3. "PAUSE" \notin KindOps
    BY DEF KindOps
  <2>4. TokenInv'
    <3> DEFINE d == 0
    <3>1. d \in Nat /\ Count(cmds', KindOps) = Count(cmds, KindOps) + d
      BY <1>n, <2>2, <2>3
    <3>2. Tokens' = Tokens + d /\ Tokens \in Nat
      BY <1>s, <2>1, <3>1
    <3>3. Tokens <= Allowed /\ ac' = ac /\ dir' = dir
      BY <1>t, <2>1 DEF TokenInv, acVars
    <3>4. Allowed \in Nat /\ Allowed' = Allowed + d
      BY <1>t, <1>c, <2>1, <3>3, AllowedType DEF Allowed
    <3> HIDE DEF d
    <3> QED BY <3>1, <3>2, <3>3, <3>4 DEF TokenInv
  <2>5. state' \in {state, "STOPPED"} /\ resumes' \in 0 .. ResumeMax
    BY <1>c, <2>1
  <2> QED BY <2>1, <2>4, <2>5, PcmTriggerKeeps
<1>3. CASE PauseRelease
  <2>1. /\ pc = "idle" /\ alsa = "paused" /\ alsa' = "running" /\ cmds' = Append(cmds, "RUN")
        /\ state' = state /\ resumes' = resumes + 1 /\ resumes < ResumeMax
        /\ UNCHANGED <<dir, badFormat, hw, pc, sent, client, acVars, evts, rx, dsp>>
    BY <1>3 DEF PauseRelease, Trigger
  <2>2. Count(cmds', KindOps) = Count(cmds, KindOps) + IF "RUN" \in KindOps THEN 1 ELSE 0
    BY <1>c, <2>1, CountAppend DEF SyncOps, AsyncOps
  <2>3. "RUN" \in KindOps <=> dir = "playback"
    BY DEF KindOps
  <2>4. TokenInv'
    <3> DEFINE d == IF dir = "playback" THEN 1 ELSE 0
    <3>1. d \in Nat /\ Count(cmds', KindOps) = Count(cmds, KindOps) + d
      BY <1>n, <2>2, <2>3
    <3>2. Tokens' = Tokens + d /\ Tokens \in Nat
      BY <1>s, <2>1, <3>1
    <3>3. Tokens <= Allowed /\ ac' = ac /\ dir' = dir
      BY <1>t, <2>1 DEF TokenInv, acVars
    <3>4. Allowed \in Nat /\ Allowed' = Allowed + d
      BY <1>t, <1>c, <2>1, <3>3, AllowedType DEF Allowed
    <3> HIDE DEF d
    <3> QED BY <3>1, <3>2, <3>3, <3>4 DEF TokenInv
  <2>5. state' \in {state, "STOPPED"} /\ resumes' \in 0 .. ResumeMax
    BY <1>c, <2>1, PcmAssumption
  <2> QED BY <2>1, <2>4, <2>5, PcmTriggerKeeps
<1>4. CASE Stop
  <2>1. /\ pc = "idle" /\ alsa \in {"running", "paused"} /\ alsa' = "setup" /\ cmds' = Append(cmds, "EOS")
        /\ state' = "STOPPED" /\ resumes' = resumes
        /\ UNCHANGED <<dir, badFormat, hw, pc, sent, client, acVars, evts, rx, dsp>>
    BY <1>4 DEF Stop, Trigger
  <2>4. TokenInv'
    BY <2>1 DEF TokenInv
  <2>5. state' \in {state, "STOPPED"} /\ resumes' \in 0 .. ResumeMax
    BY <1>c, <2>1
  <2> QED BY <2>1, <2>4, <2>5, PcmTriggerKeeps
<1> QED BY <1>1, <1>2, <1>3, <1>4

(* Only the reply to a command that is waited for says anything. *)
LEMMA AsyncMeaning == \A r : r.op \in AsyncReplies \cup {"none"} => Meaning(r)
BY DEF Meaning, AsyncReplies

(* A command that is waited for is sent, after everything sent before it. *)
LEMMA SendCmdKeeps == ASSUME PcmInv, SendCmd PROVE PcmInv'
<1> USE DEF PcmInv
<1>1. /\ pc \in DOMAIN Commands /\ ~sent /\ sent'
      /\ Commands[pc] = "UNMAP" => ac.buf # 0
      /\ Commands[pc] = "MAP" => ac.buf = 0
      /\ cmds' = Append(cmds, Commands[pc])
      /\ dir' = dir /\ badFormat' = badFormat /\ hw' = hw /\ pc' = pc /\ resumes' = resumes
      /\ alsa' = alsa /\ state' = state /\ client' = client /\ privLive' = privLive /\ reused' = reused
      /\ evts' = evts /\ rx' = rx /\ dsp' = dsp
  BY DEF SendCmd
<1>2. ac'.result = None /\ ac'.buf = (IF pc = "p_map" THEN hw ELSE ac.buf) /\ ac'.refs = ac.refs
  BY DEF SendCmd, PcmTyped
<1>3. Commands[pc] \in SyncOps /\ Commands[pc] \notin AsyncOps /\ pc # "idle"
      /\ pc \in PcmPlaces
  BY <1>1, PcmCommands DEF SyncOps, AsyncOps, PcmPlaces
<1>4. ~Asked /\ ~Told /\ cmds \in Seq(SyncOps \cup AsyncOps)
  BY <1>1 DEF WaitInv, PcmTyped
<1>5. hw # 0 \/ pc \in {"c_close", "c_unmap"}
  BY <1>3 DEF PlaceInv, SetupInv
<1>6. ac.buf # 0 \/ pc = "p_map"
  BY <1>1, <1>3, PcmCommands DEF MapInv
<1>7. ac'.buf # 0
  BY <1>2, <1>5, <1>6
<1>8. PcmTyped'
  <2>1. ac' \in [refs : Nat, buf : PeriodCounts \cup {0}, next : Nat,
                 result : Rep(SyncOps \cup AsyncReplies) \cup {None}]
    BY DEF SendCmd, PcmTyped
  <2>2. cmds' \in Seq(SyncOps \cup AsyncOps)
    BY <1>1, <1>3, <1>4, PcmAppend
  <2>3. sent' \in BOOLEAN
    BY DEF SendCmd
  <2> QED BY <1>1, <2>1, <2>2, <2>3 DEF PcmTyped
<1>9. /\ Asked' /\ ~Told'
      /\ Within(cmds', AsyncOps \cup {Commands[pc]})
  <2>1. Within(cmds, AsyncOps) /\ Within(cmds, AsyncOps \cup {Commands[pc]})
    BY <1>4, WithinMore DEF Asked
  <2> QED BY <1>1, <1>3, <1>4, <2>1, PcmAppend DEF Asked, Told
<1>10. \A B : Behind(cmds', SyncOps, B)
  <2>1. SyncOps \cap AsyncOps = {}
    BY DEF SyncOps, AsyncOps
  <2> QED BY <1>1, <1>3, <1>4, <2>1, PcmAppend DEF Asked
<1>11. /\ Within(evts, Rep(AsyncReplies \cup {Commands[pc]}))
       /\ \A B : Behind(evts, Rep(SyncOps), B)
  <2>1. Within(evts, Rep(AsyncReplies)) /\ Rep(AsyncReplies) \subseteq Rep(AsyncReplies \cup {Commands[pc]})
    BY <1>4 DEF Told, Rep
  <2>2. Rep(SyncOps) \cap Rep(AsyncReplies) = {}
    BY DEF Rep, SyncOps, AsyncReplies
  <2> QED BY <2>1, <2>2, WithinMore, BehindNone
<1>12. WaitInv'
  BY <1>1, <1>2, <1>9, <1>10, <1>11, RepIs DEF WaitInv, SyncOps
<1>13. LastInv' /\ CloseInv'
  BY <1>1, <1>9, <1>10, <1>11 DEF LastInv, CloseInv
<1>14. CalmInv'
  <2>1. CASE pc \in {"p_close", "c_close"}
    BY <1>1, <2>1 DEF CalmInv
  <2>2. CASE pc \notin {"p_close", "c_close"}
    <3>1. DataOnly /\ ~dsp.running /\ ~dsp.eos
      BY <1>3, <2>2 DEF CalmInv
    <3>2. Commands[pc] \in {"DATA"} \cup SyncOps
      BY <1>3
    <3>3. Within(cmds', {"DATA"} \cup SyncOps)
      BY <1>1, <1>3, <1>4, <3>1, <3>2, PcmAppend DEF DataOnly
    <3> QED BY <1>1, <3>1, <3>3 DEF CalmInv, DataOnly
  <2> QED BY <2>1, <2>2
<1>15. DspInv'
  BY <1>1, <1>3, <1>9 DEF DspInv, Pending
<1>16. MapInv'
  BY <1>1, <1>2, <1>3, <1>6, <1>7, <1>9, PcmCommands DEF MapInv, Pending
<1>17. ReplyInv'
  <2>1. \A i \in DOMAIN evts : evts[i].op \in AsyncReplies
    BY <1>4 DEF Told, Within, Rep
  <2>2. \A r : r.op \in AsyncReplies \cup {"none"} => Meaning(r)'
    BY DEF Meaning, AsyncReplies
  <2> QED BY <1>1, <1>2, <2>1, <2>2, RepIs DEF ReplyInv
<1>18. SetupInv'
  <2>1. pc = "p_fmt" => Within(cmds', SyncOps)
    BY <1>1, <1>3, <1>4, PcmAppend DEF SetupInv
  <2> QED BY <1>1, <1>2, <1>3, <1>9, <2>1 DEF SetupInv, Fresh, Pending
<1>19. PlaceInv'
  BY <1>1, <1>2 DEF PlaceInv
<1>20. TokenInv'
  BY <1>1, <1>3 DEF TokenInv
<1> QED BY <1>8, <1>12, <1>13, <1>14, <1>15, <1>16, <1>17, <1>18, <1>19, <1>20

(* Only a CLOSE can time out: the reply to any other command is the last thing in flight. *)
LEMMA Waited ==
    ASSUME PcmInv, sent, Commands[pc] # "CLOSE", Answered \/ TimedOut
    PROVE  /\ Answered /\ ~Asked /\ ~Told /\ cmds = <<>> /\ evts = <<>>
           /\ ac.result.op = Commands[pc] /\ rx \in {ac.result, None} /\ Meaning(ac.result)
<1>1. pc \in DOMAIN Commands /\ Commands[pc] \in SyncOps
  BY PcmCommands DEF PcmInv, WaitInv, SyncOps
<1>2. ~Asked /\ ~Told
  <2>1. CASE Answered
    BY <1>1, <2>1 DEF Answered, PcmInv, WaitInv
  <2>2. CASE TimedOut
    BY <2>2, PcmEmpty DEF TimedOut, Asked, Told
  <2> QED BY <2>1, <2>2
<1> QED BY <1>2 DEF PcmInv, LastInv, ReplyInv, Answered

(* The end of a CLOSE, by its reply or by the timeout. *)
LEMMA CloseDoneKeeps == ASSUME PcmInv, CloseDone PROVE PcmInv'
<1> USE DEF PcmInv
<1>1. /\ pc \in {"p_close", "e_close", "c_close"} /\ sent /\ ~sent' /\ sent' = FALSE
      /\ pc' = (CASE pc = "p_close" -> "p_unmap" [] pc = "e_close" -> "e_unmap" [] pc = "c_close" -> "c_unmap")
      /\ dir' = dir /\ badFormat' = badFormat /\ hw' = hw /\ resumes' = resumes /\ alsa' = alsa
      /\ state' = state /\ client' = client /\ ac' = ac /\ privLive' = privLive /\ reused' = reused
      /\ cmds' = cmds /\ evts' = evts /\ rx' = rx /\ dsp' = dsp
  BY DEF CloseDone, Goto, acVars, Answered, TimedOut
<1>2. Commands[pc] = "CLOSE" /\ "CLOSE" \in SyncOps
  BY <1>1, PcmCommands DEF SyncOps
<1>3. ~Asked /\ ~Told
  <2>1. CASE Answered
    BY <1>1, <1>2, <2>1 DEF Answered, WaitInv
  <2>2. CASE TimedOut
    BY <2>2, PcmEmpty DEF TimedOut, Asked, Told
  <2> QED BY <2>1, <2>2 DEF CloseDone
<1>4. DataOnly /\ ~dsp.open /\ ~dsp.running /\ ~dsp.eos
  BY <1>1, <1>2, <1>3 DEF CloseInv, DspInv
<1>5. /\ pc' \in Unmaps /\ pc' \in PcmPlaces /\ pc' # "idle"
      /\ (pc' = "e_unmap" <=> pc = "e_close") /\ (pc' = "c_unmap" <=> pc = "c_close")
      /\ (pc' = "p_unmap" <=> pc = "p_close")
  BY <1>1 DEF Unmaps, PcmPlaces
<1>6. PcmTyped'
  <2>1. sent' \in BOOLEAN
    BY <1>1
  <2> QED BY <1>1, <1>5, <2>1 DEF PcmTyped
<1>7. WaitInv' /\ LastInv' /\ CloseInv' /\ ReplyInv'
  BY <1>1, <1>3 DEF WaitInv, LastInv, CloseInv, ReplyInv, Asked, Told
<1>8. CalmInv'
  BY <1>1, <1>4 DEF CalmInv, DataOnly
<1>9. DspInv'
  BY <1>1, <1>4 DEF DspInv
<1>10. MapInv'
  BY <1>1, <1>5 DEF MapInv, Pending, Unmaps
<1>11. SetupInv'
  BY <1>1, <1>5 DEF SetupInv, Unmaps
<1>12. PlaceInv'
  BY <1>1, <1>5 DEF PlaceInv, Unmaps
<1>13. TokenInv'
  BY <1>1, <1>5 DEF TokenInv
<1> QED BY <1>6, <1>7, <1>8, <1>9, <1>10, <1>11, <1>12, <1>13

(* The end of an unmap, and what prepare, its error path and close do after it. *)
LEMMA UnmapDoneKeeps == ASSUME PcmInv, UnmapDone PROVE PcmInv'
<1> USE DEF PcmInv
<1>1. /\ pc \in Unmaps /\ ~sent' /\ sent' = FALSE
      /\ dir' = dir /\ badFormat' = badFormat /\ resumes' = resumes /\ reused' = reused
      /\ cmds' = cmds /\ evts' = evts /\ rx' = rx /\ dsp' = dsp
  BY DEF UnmapDone, Goto, Unmaps
<1>2. Commands[pc] = "UNMAP"
  BY <1>1, PcmCommands DEF Unmaps
<1>t. /\ ac \in [refs : Nat, buf : PeriodCounts \cup {0}, next : Nat,
                 result : Rep(SyncOps \cup AsyncReplies) \cup {None}]
  BY DEF PcmTyped
<1>3. /\ ~Asked /\ ~Told /\ cmds = <<>> /\ evts = <<>> /\ Silent(rx) /\ ~dsp.mapped
      /\ (IF Ok THEN [ac EXCEPT !.buf = 0] ELSE ac).buf = 0
  <2>1. CASE ~sent /\ ac.buf = 0
    <3>1. ~Asked /\ ~Told /\ cmds = <<>> /\ evts = <<>> /\ Silent(rx) /\ ~dsp.mapped
      BY <2>1 DEF WaitInv, MapInv, Pending
    <3> QED BY <2>1, <3>1 DEF Ok, Answered
  <2>2. CASE Answered \/ TimedOut
    <3>1. sent
      BY <2>2 DEF Answered, TimedOut
    <3>2. /\ Answered /\ ~Asked /\ ~Told /\ cmds = <<>> /\ evts = <<>>
          /\ ac.result.op = "UNMAP" /\ rx \in {ac.result, None} /\ Meaning(ac.result)
      BY <1>2, <2>2, <3>1, Waited
    <3>3. Ok
      BY <3>2 DEF Ok, Meaning
    <3>4. ~dsp.mapped
      BY <1>1, <3>1, <3>2 DEF MapInv, Pending
    <3> QED BY <1>t, <3>2, <3>3, <3>4 DEF Silent
  <2> QED BY <2>1, <2>2 DEF UnmapDone
<1>4. client /\ alsa # "closed"
  BY <1>1 DEF MapInv, Unmaps, PlaceInv
<1>5. DataOnly /\ ~dsp.running /\ ~dsp.eos
  BY <1>1 DEF CalmInv, Unmaps
<1>6. badFormat \/ ~dsp.open
  BY <1>1 DEF DspInv, Unmaps
<1>7. ~Asked' /\ ~Told'
  BY <1>1, <1>3 DEF Asked, Told
<1>8. WaitInv' /\ LastInv' /\ CloseInv' /\ ReplyInv'
  BY <1>1, <1>7 DEF WaitInv, LastInv, CloseInv, ReplyInv
<1>9. CalmInv'
  BY <1>1, <1>5 DEF CalmInv, DataOnly
<1>10. DspInv'
  BY <1>1, <1>6 DEF DspInv
<1>11. CASE pc = "p_unmap"
  <2>1. /\ pc' = "p_map" /\ state' = "IDLE" /\ ac' = (IF Ok THEN [ac EXCEPT !.buf = 0] ELSE ac)
        /\ alsa' = alsa /\ hw' = hw /\ client' = client /\ privLive' = privLive
    BY <1>11 DEF UnmapDone, Goto
  <2>2. ac'.buf = 0 /\ ac'.refs = ac.refs
    BY <1>t, <1>3, <2>1
  <2>3. PcmTyped'
    <3>1. sent' \in BOOLEAN /\ pc' \in PcmPlaces
      BY <1>1, <2>1 DEF PcmPlaces
    <3>2. /\ ac' \in [refs : Nat, buf : PeriodCounts \cup {0}, next : Nat,
                 result : Rep(SyncOps \cup AsyncReplies) \cup {None}]
      BY <1>t, <2>1
    <3> QED BY <1>1, <2>1, <3>1, <3>2 DEF PcmTyped
  <2>4. MapInv'
    BY <1>1, <1>3, <1>4, <2>1, <2>2 DEF MapInv, Silent, Unmaps
  <2>5. SetupInv'
    BY <1>1, <2>1, <2>2 DEF SetupInv
  <2>6. PlaceInv'
    BY <1>1, <1>11, <2>1, <2>2 DEF PlaceInv
  <2>7. TokenInv'
    BY <2>1 DEF TokenInv
  <2> QED BY <1>8, <1>9, <1>10, <2>3, <2>4, <2>5, <2>6, <2>7
<1>12. CASE pc \in {"e_unmap", "c_unmap"}
  <2>1. /\ pc' = "idle" /\ state' = state /\ client' = FALSE
        /\ ac' = [(IF Ok THEN [ac EXCEPT !.buf = 0] ELSE ac) EXCEPT !.refs = @ - 1]
        /\ \/ pc = "e_unmap" /\ alsa' = "setup" /\ hw' = hw /\ privLive' = privLive
           \/ pc = "c_unmap" /\ alsa' = "closed" /\ hw' = 0 /\ privLive' = FALSE
    BY <1>12 DEF UnmapDone, Goto
  <2>2. ac.refs = 1 + (IF rx = None THEN 0 ELSE 1)
    BY <1>4 DEF PlaceInv
  <2>3. ac'.buf = 0 /\ ac'.refs = (IF rx = None THEN 0 ELSE 1)
    BY <1>t, <1>3, <2>1, <2>2
  <2>4. PcmTyped'
    <3>1. /\ sent' \in BOOLEAN /\ pc' \in PcmPlaces /\ client' \in BOOLEAN
          /\ alsa' \in {"closed", "open", "setup", "prepared", "running", "paused"}
      BY <1>1, <2>1 DEF PcmPlaces
    <3>2. hw' \in PeriodCounts \cup {0} /\ privLive' \in BOOLEAN
      BY <2>1 DEF PcmTyped
    <3>3. /\ ac' \in [refs : Nat, buf : PeriodCounts \cup {0}, next : Nat,
                 result : Rep(SyncOps \cup AsyncReplies) \cup {None}]
      <4>1. ac.refs - 1 \in Nat
        BY <2>2
      <4> QED BY <1>t, <2>1, <4>1
    <3> QED BY <1>1, <2>1, <3>1, <3>2, <3>3 DEF PcmTyped
  <2>5. MapInv'
    BY <1>1, <1>3, <2>1, <2>3 DEF MapInv, Silent, Unmaps
  <2>6. SetupInv'
    <3>1. pc = "e_unmap" => hw # 0
      BY DEF PlaceInv, SetupInv
    <3> QED BY <1>1, <2>1, <2>3, <3>1 DEF SetupInv
  <2>7. PlaceInv'
    BY <1>1, <1>4, <2>1, <2>3 DEF PlaceInv
  <2>8. TokenInv'
    BY <2>1 DEF TokenInv
  <2> QED BY <1>8, <1>9, <1>10, <2>4, <2>5, <2>6, <2>7, <2>8
<1> QED BY <1>1, <1>11, <1>12 DEF Unmaps

(* The end of a map. *)
LEMMA MapDoneKeeps == ASSUME PcmInv, MapDone PROVE PcmInv'
<1> USE DEF PcmInv
<1>1. /\ pc = "p_map" /\ ~sent' /\ sent' = FALSE
      /\ dir' = dir /\ badFormat' = badFormat /\ resumes' = resumes /\ reused' = reused /\ hw' = hw
      /\ state' = state /\ client' = client /\ privLive' = privLive
      /\ cmds' = cmds /\ evts' = evts /\ rx' = rx /\ dsp' = dsp
  BY DEF MapDone, Goto
<1>2. Commands[pc] = "MAP" /\ client /\ state = "IDLE" /\ alsa \in {"setup", "prepared"} /\ hw # 0
  BY <1>1, PcmCommands DEF MapInv, PlaceInv, SetupInv
<1>t. /\ ac \in [refs : Nat, buf : PeriodCounts \cup {0}, next : Nat,
                 result : Rep(SyncOps \cup AsyncReplies) \cup {None}]
  BY DEF PcmTyped
<1>3. ASSUME Answered \/ TimedOut
      PROVE  /\ Answered /\ ~Asked /\ ~Told /\ cmds = <<>> /\ evts = <<>> /\ sent
             /\ ac.result.op = "MAP" /\ rx \in {ac.result, None} /\ (ac.result.ok <=> dsp.mapped)
             /\ ac.buf = hw
  <2>1. sent
    BY <1>3 DEF Answered, TimedOut
  <2>2. /\ Answered /\ ~Asked /\ ~Told /\ cmds = <<>> /\ evts = <<>>
        /\ ac.result.op = "MAP" /\ rx \in {ac.result, None} /\ Meaning(ac.result)
    BY <1>2, <1>3, <2>1, Waited
  <2> QED BY <1>1, <2>1, <2>2 DEF Meaning, SetupInv
<1>4. ~Asked /\ ~Told
  <2>1. CASE Answered \/ TimedOut
    BY <1>3, <2>1
  <2>2. CASE ~sent
    BY <2>2 DEF WaitInv
  <2> QED BY <2>1, <2>2 DEF MapDone, Ok
<1>5. DataOnly /\ ~dsp.running /\ ~dsp.eos
  BY <1>1 DEF CalmInv
<1>6. badFormat \/ ~dsp.open
  BY <1>1 DEF DspInv
<1>7. ~Asked' /\ ~Told'
  BY <1>1, <1>4 DEF Asked, Told
<1>8. WaitInv' /\ LastInv' /\ CloseInv' /\ ReplyInv'
  BY <1>1, <1>7 DEF WaitInv, LastInv, CloseInv, ReplyInv, Asked, Told
<1>9. CalmInv'
  BY <1>1, <1>5 DEF CalmInv, DataOnly
<1>10. DspInv'
  BY <1>1, <1>6 DEF DspInv
<1>11. CASE pc' = "p_open" /\ ac' = ac /\ alsa' = alsa /\ ((~sent /\ ac.buf # 0) \/ Ok)
  <2>1. ac.buf # 0 /\ dsp.mapped /\ (ac.buf = hw \/ dsp.open)
    <3>1. CASE ~sent /\ ac.buf # 0
      BY <1>1, <3>1 DEF MapInv, SetupInv, Unmaps
    <3>2. CASE Ok
      BY <1>2, <1>3, <3>2 DEF Ok
    <3> QED BY <1>11, <3>1, <3>2
  <2>2. PcmTyped'
    <3>1. sent' \in BOOLEAN /\ pc' \in PcmPlaces
      BY <1>1, <1>11 DEF PcmPlaces
    <3> QED BY <1>1, <1>11, <3>1 DEF PcmTyped
  <2>3. MapInv'
    BY <1>1, <1>2, <1>11, <2>1 DEF MapInv, Unmaps
  <2>4. SetupInv'
    BY <1>1, <1>2, <1>11, <2>1 DEF SetupInv
  <2>5. PlaceInv'
    BY <1>1, <1>2, <1>11 DEF PlaceInv
  <2>6. TokenInv'
    BY <1>11 DEF TokenInv
  <2> QED BY <1>8, <1>9, <1>10, <2>2, <2>3, <2>4, <2>5, <2>6
<1>12. CASE /\ pc' = "idle" /\ ac' = [ac EXCEPT !.buf = 0] /\ alsa' = "setup"
            /\ (Answered /\ ~Ok) \/ TimedOut
  <2>1. ~dsp.mapped /\ cmds = <<>> /\ evts = <<>> /\ Silent(rx)
    <3>1. Answered /\ ~Ok
      BY <1>3, <1>12 DEF TimedOut
    <3> QED BY <1>3, <3>1 DEF Ok, Silent
  <2>2. ac'.buf = 0 /\ ac'.refs = ac.refs
    BY <1>t, <1>12
  <2>3. PcmTyped'
    <3>1. sent' \in BOOLEAN /\ pc' \in PcmPlaces
      BY <1>1, <1>12 DEF PcmPlaces
    <3>2. /\ ac' \in [refs : Nat, buf : PeriodCounts \cup {0}, next : Nat,
                 result : Rep(SyncOps \cup AsyncReplies) \cup {None}]
      BY <1>t, <1>12
    <3> QED BY <1>1, <1>12, <3>1, <3>2 DEF PcmTyped
  <2>4. MapInv'
    BY <1>1, <1>2, <1>12, <2>1, <2>2 DEF MapInv, Silent, Unmaps
  <2>5. SetupInv'
    BY <1>1, <1>2, <1>12, <2>2 DEF SetupInv
  <2>6. PlaceInv'
    BY <1>1, <1>2, <1>12, <2>2 DEF PlaceInv
  <2>7. TokenInv'
    BY <1>12 DEF TokenInv
  <2> QED BY <1>8, <1>9, <1>10, <2>3, <2>4, <2>5, <2>6, <2>7
<1> QED BY <1>11, <1>12 DEF MapDone, Goto

(* The end of an open, with or without the routing. *)
LEMMA OpenDoneKeeps == ASSUME PcmInv, OpenDone PROVE PcmInv'
<1> USE DEF PcmInv
<1>1. /\ pc = "p_open" /\ ~sent' /\ sent' = FALSE /\ sent
      /\ pc' \in {"p_fmt", "e_close", "e_unmap"} /\ (pc' = "e_unmap" <=> ~Ok)
      /\ dir' = dir /\ badFormat' = badFormat /\ resumes' = resumes /\ reused' = reused /\ hw' = hw
      /\ state' = state /\ client' = client /\ privLive' = privLive /\ ac' = ac /\ alsa' = alsa
      /\ cmds' = cmds /\ evts' = evts /\ rx' = rx /\ dsp' = dsp
  BY DEF OpenDone, Goto, acVars, Answered, TimedOut
<1>2. Commands[pc] = "OPEN" /\ client /\ state = "IDLE" /\ alsa \in {"setup", "prepared"} /\ hw # 0
  BY <1>1, PcmCommands DEF MapInv, PlaceInv, SetupInv
<1>3. /\ Answered /\ ~Asked /\ ~Told /\ cmds = <<>> /\ evts = <<>>
      /\ ac.result.op = "OPEN" /\ Meaning(ac.result)
  BY <1>1, <1>2, Waited DEF OpenDone
<1>4. IF Ok THEN Fresh ELSE badFormat \/ ~dsp.open
  BY <1>3 DEF Ok, Meaning
<1>5. DataOnly /\ ~dsp.running /\ ~dsp.eos
  BY <1>1 DEF CalmInv
<1>6. PcmTyped'
  <2>1. sent' \in BOOLEAN /\ pc' \in PcmPlaces
    BY <1>1 DEF PcmPlaces
  <2> QED BY <1>1, <2>1 DEF PcmTyped
<1>7. ~Asked' /\ ~Told'
  BY <1>1, <1>3 DEF Asked, Told
<1>8. WaitInv' /\ LastInv' /\ CloseInv' /\ ReplyInv'
  BY <1>1, <1>7 DEF WaitInv, LastInv, CloseInv, ReplyInv, Asked, Told
<1>9. CalmInv'
  BY <1>1, <1>5 DEF CalmInv, DataOnly
<1>10. DspInv'
  BY <1>1, <1>4 DEF DspInv
<1>11. MapInv'
  BY <1>1, <1>2 DEF MapInv, Unmaps, Pending
<1>12. SetupInv'
  BY <1>1, <1>2, <1>3, <1>4, PcmEmpty DEF SetupInv, Fresh
<1>13. PlaceInv'
  BY <1>1, <1>2 DEF PlaceInv
<1>14. TokenInv'
  BY <1>1 DEF TokenInv
<1> QED BY <1>6, <1>8, <1>9, <1>10, <1>11, <1>12, <1>13, <1>14

(* The index after k buffers is a period of the buffer. *)
LEMMA AfterIs ==
    ASSUME NEW n \in Nat, NEW k \in Nat, ac.buf \in Nat \ {0}
    PROVE  After(n, k) \in Nat /\ After(n, k) < ac.buf
<1>1. (IF n < ac.buf THEN n ELSE ac.buf - 1) + k \in Nat
  OBVIOUS
<1>2. \A a \in Nat : a % ac.buf \in 0 .. ac.buf - 1
  OBVIOUS
<1> QED BY <1>1, <1>2 DEF After

(* The end of the format block, with the reads of a capture. *)
LEMMA FormatDoneKeeps == ASSUME PcmInv, FormatDone PROVE PcmInv'
<1> USE DEF PcmInv
<1>1. /\ pc = "p_fmt" /\ ~sent' /\ sent' = FALSE /\ sent /\ pc' = "idle" /\ resumes' = 0
      /\ IF Ok THEN state' = "RUNNING" /\ alsa' = "prepared" ELSE state' = state /\ alsa' = "setup"
      /\ dir' = dir /\ badFormat' = badFormat /\ reused' = reused /\ hw' = hw
      /\ client' = client /\ privLive' = privLive
      /\ evts' = evts /\ rx' = rx /\ dsp' = dsp
  BY DEF FormatDone, Goto, Answered, TimedOut
<1>t. /\ ac \in [refs : Nat, buf : PeriodCounts \cup {0}, next : Nat,
                 result : Rep(SyncOps \cup AsyncReplies) \cup {None}]
      /\ hw \in PeriodCounts \cup {0} /\ hw \in Nat
  BY PcmAssumption DEF PcmTyped
<1>2. Commands[pc] = "FMT" /\ client /\ state = "IDLE" /\ alsa \in {"setup", "prepared"} /\ hw # 0
  BY <1>1, PcmCommands DEF MapInv, PlaceInv, SetupInv
<1>3. /\ Answered /\ ~Asked /\ ~Told /\ cmds = <<>> /\ evts = <<>>
      /\ ac.result.op = "FMT" /\ rx \in {ac.result, None} /\ Meaning(ac.result)
  BY <1>1, <1>2, Waited DEF FormatDone
<1>4. badFormat \/ Ok
  BY <1>3 DEF Ok, Meaning
<1>5. DataOnly /\ Fresh /\ dsp.mapped
  BY <1>1, <1>2 DEF CalmInv, SetupInv, MapInv, Unmaps, Fresh
<1>6. /\ ac'.buf = ac.buf /\ ac'.refs = ac.refs
      /\ ac' \in [refs : Nat, buf : PeriodCounts \cup {0}, next : Nat,
                  result : Rep(SyncOps \cup AsyncReplies) \cup {None}]
  <2>1. CASE dir = "capture"
    <3>1. After(ac.next, hw) \in Nat
      BY <1>t, <1>2, <1>5, AfterIs DEF Fresh
    <3> QED BY <1>t, <2>1, <3>1 DEF FormatDone
  <2>2. CASE dir # "capture"
    BY <1>t, <2>2 DEF FormatDone
  <2> QED BY <2>1, <2>2
<1>7. /\ cmds' \in Seq(SyncOps \cup AsyncOps) /\ Within(cmds', {"DATA"})
      /\ cmds' = IF dir = "capture" THEN [i \in 1 .. hw |-> "DATA"] ELSE <<>>
  <2>1. CASE dir = "capture"
    <3>1. [i \in 1 .. hw |-> "DATA"] \in Seq({"DATA"})
      BY <1>t
    <3>2. cmds' = <<>> \o [i \in 1 .. hw |-> "DATA"]
      BY <1>3, <2>1 DEF FormatDone
    <3>3. cmds' = [i \in 1 .. hw |-> "DATA"]
      BY <3>1, <3>2
    <3>4. [i \in 1 .. hw |-> "DATA"] \in Seq(SyncOps \cup AsyncOps)
      BY <1>t DEF AsyncOps
    <3> QED BY <2>1, <3>3, <3>4 DEF Within
  <2>2. CASE dir # "capture"
    BY <1>3, <2>2, PcmEmpty DEF FormatDone
  <2> QED BY <2>1, <2>2
<1>8. PcmTyped'
  <2>1. /\ sent' \in BOOLEAN /\ pc' \in PcmPlaces
        /\ state' \in {"IDLE", "STOPPED", "RUNNING"}
        /\ alsa' \in {"closed", "open", "setup", "prepared", "running", "paused"}
    BY <1>1, <1>2 DEF PcmPlaces
  <2>2. resumes' \in 0 .. ResumeMax
    BY <1>1, PcmAssumption
  <2> QED BY <1>1, <1>6, <1>7, <2>1, <2>2 DEF PcmTyped
<1>9. ~Asked' /\ ~Told'
  <2>1. Within(cmds', AsyncOps)
    BY <1>7, WithinMore DEF AsyncOps
  <2> QED BY <1>1, <1>3, <2>1 DEF Asked, Told
<1>10. WaitInv' /\ LastInv' /\ CloseInv' /\ ReplyInv'
  <2>1. Behind(cmds', SyncOps, {"DATA"})
    BY <1>7, BehindNone DEF SyncOps
  <2> QED BY <1>1, <1>9, <2>1 DEF WaitInv, LastInv, CloseInv, ReplyInv
<1>11. CalmInv'
  <2>1. Within(cmds', {"DATA"} \cup SyncOps)
    BY <1>7, WithinMore
  <2> QED BY <1>1, <1>5, <2>1 DEF CalmInv, DataOnly, Fresh
<1>12. DspInv'
  BY <1>1, <1>2, <1>4, <1>5 DEF DspInv, Fresh
<1>13. MapInv'
  BY <1>1, <1>2, <1>5, <1>6 DEF MapInv, Unmaps, Fresh
<1>14. SetupInv'
  BY <1>1, <1>2, <1>5, <1>6 DEF SetupInv, Fresh
<1>15. PlaceInv'
  BY <1>1, <1>2, <1>6 DEF PlaceInv
<1>16. TokenInv'
  <2>1. Kinds' = Kinds /\ KindOps' = KindOps
    BY <1>1 DEF Kinds, KindOps
  <2>2. rx.op \notin Kinds
    BY <1>3, RepIs DEF Kinds
  <2>3. Count(evts', Rep(Kinds)) = 0
    <3>1. evts' \in Seq({}) /\ Within(evts', {})
      BY <1>1, <1>3, PcmEmpty
    <3> QED BY <3>1, CountNone
  <2>4. Count(cmds', KindOps) = IF dir = "capture" THEN hw ELSE 0
    <3>1. CASE dir = "capture"
      <4>1. "DATA" \in KindOps
        BY DEF KindOps
      <4>2. cmds' = [i \in 1 .. hw |-> "DATA"]
        BY <1>7, <3>1
      <4>3. Count([i \in 1 .. hw |-> "DATA"], KindOps) = hw
        <5> DEFINE K == KindOps
        <5>1. "DATA" \in K /\ hw \in Nat
          BY <1>t, <4>1
        <5> HIDE DEF K
        <5>2. Count([i \in 1 .. hw |-> "DATA"], K) = hw
          BY <5>1, CountFill
        <5> QED BY <5>2 DEF K
      <4> QED BY <3>1, <4>2, <4>3
    <3>2. CASE dir # "capture"
      <4>1. cmds' \in Seq({}) /\ Within(cmds', {})
        BY <1>7, <3>2, PcmEmpty
      <4> QED BY <3>2, <4>1, CountNone
    <3> QED BY <3>1, <3>2
  <2>5. Tokens' = IF dir = "capture" THEN hw ELSE 0
    BY <1>1, <1>t, <1>5, <2>1, <2>2, <2>3, <2>4 DEF Tokens, Fresh
  <2>6. dir \in {"playback", "capture"}
    BY PcmAssumption DEF PcmTyped
  <2> QED BY <1>1, <1>t, <1>5, <1>6, <2>5, <2>6 DEF TokenInv, Allowed, Fresh
<1> QED BY <1>8, <1>10, <1>11, <1>12, <1>13, <1>14, <1>15, <1>16

(* The receive worker takes a message: a reply is stored. *)
LEMMA RxBeginKeeps == ASSUME PcmInv, RxBegin PROVE PcmInv'
<1> DEFINE h == Head(evts)
<1>1. /\ evts # <<>> /\ rx = None /\ evts' = Tail(evts)
      /\ dir' = dir /\ badFormat' = badFormat /\ alsa' = alsa /\ hw' = hw /\ pc' = pc /\ sent' = sent
      /\ state' = state /\ client' = client /\ resumes' = resumes
      /\ privLive' = privLive /\ reused' = reused /\ cmds' = cmds /\ dsp' = dsp
  BY DEF RxBegin, threadVars
<1>i. /\ PcmTyped /\ WaitInv /\ LastInv /\ CloseInv /\ CalmInv /\ DspInv /\ MapInv /\ ReplyInv
      /\ SetupInv /\ PlaceInv /\ TokenInv
  BY DEF PcmInv
<1>t. /\ evts \in Seq(Rep(SyncOps \cup AsyncReplies))
      /\ ac \in [refs : Nat, buf : PeriodCounts \cup {0}, next : Nat,
                 result : Rep(SyncOps \cup AsyncReplies) \cup {None}]
  BY <1>i DEF PcmTyped
<1>2. ac.buf # 0 /\ client /\ ac.refs = 1
  BY <1>i, <1>1 DEF MapInv, PlaceInv
<1>3. /\ rx' = h /\ ac'.refs = 2 /\ ac'.buf = ac.buf
      /\ ac'.result = IF h.op \in Replies THEN h ELSE ac.result
  <2>1. /\ rx' = h
        /\ ac' = [ac EXCEPT !.refs = @ + 1, !.result = IF h.op \in Replies THEN h ELSE @]
    BY <1>2 DEF RxBegin
  <2> HIDE DEF h
  <2> QED BY <1>t, <1>2, <2>1
<1>4. /\ h \in Rep(SyncOps \cup AsyncReplies) /\ evts' \in Seq(Rep(SyncOps \cup AsyncReplies))
      /\ \A A : Within(evts, A) <=> h \in A /\ Within(evts', A)
      /\ \A A, B : Behind(evts, A, B) => Behind(evts', A, B) /\ (h \in A => Within(evts', B))
  BY <1>1, <1>t, PcmTail
<1>5. h.op \in SyncOps \cup AsyncReplies /\ (\A A : h \in Rep(A) <=> h.op \in A) /\ h # None
  <2>1. h.op \in SyncOps \cup AsyncReplies
    BY <1>4 DEF Rep
  <2>2. "none" \notin SyncOps \cup AsyncReplies
    BY DEF SyncOps, AsyncReplies
  <2> HIDE DEF h
  <2>3. h # None
    BY <2>1, <2>2, RepIs
  <2> QED BY <1>4, <2>1, <2>3, RepIs
<1>6. \E i \in DOMAIN evts : evts[i] = h
  <2>1. 1 \in DOMAIN evts /\ evts[1] = h
    BY <1>1, <1>t
  <2> QED BY <2>1
<1>7. \A i \in DOMAIN evts' : i + 1 \in DOMAIN evts /\ evts'[i] = evts[i + 1]
  BY <1>1, <1>t
<1>8. PcmTyped'
  <2>1. ac' \in [refs : Nat, buf : PeriodCounts \cup {0}, next : Nat,
                 result : Rep(SyncOps \cup AsyncReplies) \cup {None}]
    <3>1. ac' = [ac EXCEPT !.refs = @ + 1, !.result = IF h.op \in Replies THEN h ELSE @]
      BY <1>2 DEF RxBegin
    <3>2. PICK x \in Rep(SyncOps \cup AsyncReplies) \cup {None} :
              ac' = [ac EXCEPT !.refs = @ + 1, !.result = x]
      BY <1>t, <1>4, <3>1
    <3>3. ac.refs + 1 \in Nat /\ ac.buf \in PeriodCounts \cup {0} /\ ac.next \in Nat
      BY <1>t
    <3>4. ac' = [refs |-> ac.refs + 1, buf |-> ac.buf, next |-> ac.next, result |-> x]
      BY <1>t, <3>2
    <3> QED BY <3>3, <3>4
  <2> QED BY <1>i, <1>1, <1>3, <1>4, <2>1 DEF PcmTyped
<1> HIDE DEF h
<1>9. SyncOps \cap AsyncReplies = {} /\ SyncOps \subseteq Replies
  BY DEF SyncOps, AsyncReplies, Replies
<1>a. Asked' <=> Asked
  BY <1>1 DEF Asked
<1>10. ASSUME h.op \in SyncOps PROVE WaitInv' /\ LastInv' /\ CloseInv'
  <2>1. Told
    BY <1>4, <1>5, <1>9, <1>10 DEF Told
  <2>2. sent /\ ~Asked /\ ac'.result = h
    BY <1>i, <1>3, <1>9, <1>10, <2>1 DEF WaitInv
  <2>3. h.op = Commands[pc]
    <3>1. Within(evts, Rep(AsyncReplies \cup {Commands[pc]}))
      BY <1>i, <2>2 DEF WaitInv
    <3>2. h.op \in AsyncReplies \cup {Commands[pc]}
      BY <1>4, <1>5, <3>1, Zenon
    <3> QED BY <1>9, <1>10, <3>2
  <2>4. Within(evts', Rep({"DATAERR"})) /\ Behind(evts', Rep(SyncOps), Rep({"DATAERR"}))
    <3>1. Behind(evts, Rep(SyncOps), Rep({"DATAERR"})) /\ h \in Rep(SyncOps)
      BY <1>i, <1>5, <1>10 DEF WaitInv
    <3> QED BY <1>4, <3>1, Zenon
  <2>5. ~Told'
    <3>1. Rep({"DATAERR"}) \subseteq Rep(AsyncReplies)
      BY DEF Rep, AsyncReplies
    <3> QED BY <2>4, <3>1, WithinMore DEF Told
  <2>6. WaitInv'
    <3>1. Within(evts', Rep(AsyncReplies \cup {Commands[pc]}))
      <4>1. Rep({"DATAERR"}) \subseteq Rep(AsyncReplies \cup {Commands[pc]})
        BY DEF Rep, AsyncReplies
      <4> QED BY <2>4, <4>1, WithinMore
    <3> QED BY <1>i, <1>1, <1>a, <2>2, <2>3, <2>4, <2>5, <3>1 DEF WaitInv
  <2>7. LastInv'
    <3> SUFFICES ASSUME sent, Commands[pc] # "CLOSE"
                 PROVE  /\ Behind(cmds, SyncOps, {}) /\ Behind(evts', Rep(SyncOps), {})
                        /\ cmds = <<>> /\ evts' = <<>>
      BY <1>1, <1>3, <2>2, <2>3, <2>5 DEF LastInv
    <3>1. Behind(cmds, SyncOps, {}) /\ Behind(evts, Rep(SyncOps), {}) /\ cmds = <<>>
      BY <1>i, <2>1 DEF LastInv
    <3>2. h \in Rep(SyncOps)
      BY <1>5, <1>10
    <3>3. Behind(evts', Rep(SyncOps), {}) /\ Within(evts', {})
      BY <1>4, <3>1, <3>2, Zenon
    <3> QED BY <1>4, <3>1, <3>3, PcmEmpty
  <2>8. CloseInv'
    <3>1. Rep({"DATAERR"}) \subseteq Rep({"DATAERR"} \cup SyncOps) /\ {"DATA"} \subseteq {"DATA"} \cup SyncOps
      BY DEF Rep
    <3>2. Within(evts', Rep({"DATAERR"} \cup SyncOps))
      BY <2>4, <3>1, WithinMore
    <3>3. ASSUME Commands[pc] = "CLOSE" PROVE ~dsp.open /\ Within(cmds, {"DATA"})
      BY <1>i, <2>2, <3>3 DEF CloseInv
    <3>4. ASSUME Commands[pc] = "CLOSE" PROVE DataOnly'
      <4>1. Within(cmds, {"DATA"} \cup SyncOps)
        BY <3>1, <3>3, <3>4, WithinMore
      <4> QED BY <1>1, <1>3, <1>10, <3>2, <4>1 DEF DataOnly
    <3> QED BY <1>1, <3>3, <3>4 DEF CloseInv
  <2> QED BY <2>6, <2>7, <2>8
<1>11. ASSUME h.op \notin SyncOps PROVE WaitInv' /\ LastInv' /\ CloseInv'
  <2>1. h.op \in AsyncReplies /\ h \in Rep(AsyncReplies)
    BY <1>5, <1>11
  <2>2. Told' <=> Told
    BY <1>4, <2>1 DEF Told
  <2>3. WaitInv'
    <3>1. ASSUME sent
          PROVE  /\ Within(evts', Rep(AsyncReplies \cup {Commands[pc]}))
                 /\ ac'.result.op \in AsyncReplies \cup {"none", Commands[pc]}
      <4>1. Within(evts, Rep(AsyncReplies \cup {Commands[pc]}))
        BY <1>i, <3>1 DEF WaitInv
      <4>2. Within(evts', Rep(AsyncReplies \cup {Commands[pc]}))
        BY <1>4, <4>1, Zenon
      <4> QED BY <1>i, <1>3, <2>1, <3>1, <4>2 DEF WaitInv
    <3>2. ac'.result.op \in SyncOps => ac.result.op \in SyncOps
      BY <1>3, <1>11
    <3>3. Behind(evts', Rep(SyncOps), Rep({"DATAERR"}))
      BY <1>i, <1>4 DEF WaitInv
    <3> QED BY <1>i, <1>1, <1>a, <2>2, <3>1, <3>2, <3>3 DEF WaitInv
  <2>4. LastInv'
    <3> SUFFICES ASSUME sent, Commands[pc] # "CLOSE"
                 PROVE  /\ Behind(cmds, SyncOps, {}) /\ Behind(evts', Rep(SyncOps), {})
                        /\ Told => cmds = <<>>
                        /\ Asked \/ Told
      BY <1>1, <1>a, <2>2 DEF LastInv
    <3> QED BY <1>i, <1>1, <1>4 DEF LastInv
  <2>5. CloseInv'
    <3>1. ASSUME DataOnly PROVE DataOnly'
      BY <1>1, <1>3, <1>4, <1>5, <3>1 DEF DataOnly
    <3> QED BY <1>i, <1>1, <1>a, <2>2, <3>1 DEF CloseInv
  <2> QED BY <2>3, <2>4, <2>5
<1>12. CalmInv'
  <2>1. ASSUME DataOnly PROVE DataOnly'
    BY <1>1, <1>3, <1>4, <1>5, <2>1 DEF DataOnly
  <2> QED BY <1>i, <1>1, <2>1 DEF CalmInv
<1>13. DspInv' /\ SetupInv'
  BY <1>i, <1>1, <1>3, <1>a DEF DspInv, SetupInv, Pending, Fresh
<1>14. MapInv'
  BY <1>i, <1>1, <1>2, <1>3, <1>a DEF MapInv, Pending
<1>15. ReplyInv'
  <2>1. \A r : Meaning(r)' <=> Meaning(r)
    BY <1>1, <1>3 DEF Meaning, Fresh
  <2> SUFFICES ASSUME sent PROVE Meaning(ac'.result) /\ \A i \in DOMAIN evts' : Meaning(evts'[i])
    BY <1>1, <2>1 DEF ReplyInv
  <2>2. Meaning(ac.result) /\ \A i \in DOMAIN evts : Meaning(evts[i])
    BY <1>i DEF ReplyInv
  <2>3. Meaning(h)
    BY <1>6, <2>2, Zenon
  <2> QED BY <1>3, <1>7, <2>2, <2>3
<1>16. PlaceInv'
  BY <1>i, <1>1, <1>2, <1>3, <1>5 DEF PlaceInv
<1>17. TokenInv'
  <2>1. Kinds' = Kinds /\ KindOps' = KindOps /\ "none" \notin Kinds
    BY <1>1 DEF Kinds, KindOps
  <2>2. Count(evts, Rep(Kinds)) = Count(evts', Rep(Kinds)) + IF h \in Rep(Kinds) THEN 1 ELSE 0
    BY <1>1, <1>t, CountTail DEF h
  <2>3. h \in Rep(Kinds) <=> h.op \in Kinds
    BY <1>5
  <2>4. Count(evts', Rep(Kinds)) \in Nat /\ Count(cmds, KindOps) \in Nat /\ dsp.queue \in Nat
    BY <1>i, <1>4, PlacesFinite, TokensType
  <2>5. Tokens' = Tokens
    BY <1>1, <1>3, <2>1, <2>2, <2>3, <2>4, RepIs DEF Tokens
  <2> QED BY <1>i, <1>1, <1>3, <2>5 DEF TokenInv, Allowed
<1> QED BY <1>8, <1>10, <1>11, <1>12, <1>13, <1>14, <1>15, <1>16, <1>17 DEF PcmInv

(* The callback: a refill follows only an event that counted as a buffer. *)
LEMMA RxCallbackKeeps == ASSUME PcmInv, RxCallback PROVE PcmInv'
<1> DEFINE refill == CallsBack /\ privLive /\ Refills
<1>1. /\ rx # None /\ rx' = None
      /\ dir' = dir /\ badFormat' = badFormat /\ alsa' = alsa /\ hw' = hw /\ pc' = pc /\ sent' = sent
      /\ client' = client /\ resumes' = resumes
      /\ privLive' = privLive /\ reused' = reused /\ evts' = evts /\ dsp' = dsp
      /\ cmds' = (IF refill THEN Append(cmds, "DATA") ELSE cmds)
      /\ state' = IF CallsBack /\ privLive /\ rx.op = "EOSDONE" THEN "STOPPED" ELSE state
  BY DEF RxCallback, PutClient
<1>i. /\ PcmTyped /\ WaitInv /\ LastInv /\ CloseInv /\ CalmInv /\ DspInv /\ MapInv /\ ReplyInv
      /\ SetupInv /\ PlaceInv /\ TokenInv
  BY DEF PcmInv
<1>t. /\ cmds \in Seq(SyncOps \cup AsyncOps) /\ "DATA" \in AsyncOps
      /\ ac \in [refs : Nat, buf : PeriodCounts \cup {0}, next : Nat,
                 result : Rep(SyncOps \cup AsyncReplies) \cup {None}]
  BY <1>i DEF PcmTyped, AsyncOps
<1>2. rx.op \in {"RUN", "DATADONE", "EOSDONE"} => ac.buf # 0 /\ ~DataOnly
  BY <1>i, <1>1 DEF MapInv, Silent, DataOnly, SyncOps
<1>3. refill => rx.op \in {"RUN", "DATADONE"} /\ rx.op \in Kinds
  BY DEF Refills, Kinds
<1>4. ac.refs # 0 /\ ac.refs - 1 \in Nat
  BY <1>i, <1>1, <1>t DEF PlaceInv
<1>5. /\ ac'.refs = ac.refs - 1 /\ ac'.buf = ac.buf /\ ac'.result = ac.result
      /\ ac' \in [refs : Nat, buf : PeriodCounts \cup {0}, next : Nat,
                  result : Rep(SyncOps \cup AsyncReplies) \cup {None}]
  <2>1. CASE refill
    <3>1. ac.buf \in Nat \ {0} /\ 1 \in Nat /\ ac.next \in Nat
      BY <1>t, <1>2, <1>3, <2>1, PcmAssumption
    <3>2. After(ac.next, 1) \in Nat
      BY <3>1, AfterIs
    <3>3. ac' = [ac EXCEPT !.refs = @ - 1, !.next = After(@, 1)]
      BY <2>1 DEF RxCallback
    <3> QED BY <1>t, <1>4, <3>2, <3>3
  <2>2. CASE ~refill
    <3>1. ac' = [ac EXCEPT !.refs = @ - 1]
      BY <2>2 DEF RxCallback, PutClient
    <3> QED BY <1>t, <1>4, <3>1
  <2> QED BY <2>1, <2>2
<1>6. \/ cmds' = cmds /\ state' = state
      \/ /\ ac.buf # 0 /\ ~DataOnly
         /\ pc \in {"p_close", "c_close"} \/ (pc = "idle" /\ client /\ state # "IDLE")
         /\ cmds' \in {cmds, Append(cmds, "DATA")} /\ state' \in {state, "STOPPED"}
  <2>1. CASE rx.op \in {"RUN", "DATADONE", "EOSDONE"}
    BY <1>i, <1>1, <1>2, <2>1 DEF CalmInv
  <2>2. CASE rx.op \notin {"RUN", "DATADONE", "EOSDONE"}
    BY <1>1, <1>3, <2>2
  <2> QED BY <2>1, <2>2
<1>7. /\ cmds' \in Seq(SyncOps \cup AsyncOps)
      /\ \A A : "DATA" \in A => (Within(cmds', A) <=> Within(cmds, A))
      /\ Behind(cmds', SyncOps, {"DATA"})
  <2>1. Behind(cmds, SyncOps, {"DATA"})
    BY <1>i DEF WaitInv
  <2>2. CASE cmds' = cmds
    BY <1>t, <2>1, <2>2
  <2>3. CASE cmds' = Append(cmds, "DATA")
    BY <1>t, <2>1, <2>3, PcmAppend
  <2> QED BY <1>6, <2>2, <2>3
<1>8. PcmTyped'
  <2>1. rx' \in Rep(SyncOps \cup AsyncReplies) \cup {None} /\ state' \in {"IDLE", "STOPPED", "RUNNING"}
    BY <1>i, <1>1, <1>6 DEF PcmTyped
  <2> QED BY <1>i, <1>1, <1>5, <1>7, <2>1 DEF PcmTyped
<1>9. (Asked' <=> Asked) /\ (Told' <=> Told)
  BY <1>1, <1>t, <1>7 DEF Asked, Told
<1>10. DataOnly => DataOnly' /\ cmds' = cmds /\ state' = state
  BY <1>1, <1>6, RepIs DEF DataOnly
<1>11. WaitInv'
  <2>1. sent => Within(cmds', AsyncOps \cup {Commands[pc]})
    BY <1>i, <1>t, <1>7 DEF WaitInv
  <2> QED BY <1>i, <1>1, <1>5, <1>7, <1>9, <2>1 DEF WaitInv
<1>12. LastInv'
  <2> SUFFICES ASSUME sent, Commands[pc] # "CLOSE" PROVE LastInv'
    BY <1>1 DEF LastInv
  <2>1. cmds' = cmds
    BY <1>i, <1>6, PcmCommands DEF WaitInv
  <2> QED BY <1>i, <1>1, <1>5, <1>9, <2>1 DEF LastInv
<1>13. CloseInv'
  BY <1>i, <1>1, <1>7, <1>9, <1>10 DEF CloseInv
<1>14. CalmInv'
  BY <1>i, <1>1, <1>6, <1>10 DEF CalmInv
<1>15. DspInv'
  BY <1>i, <1>1, <1>6, <1>9 DEF DspInv, Pending
<1>16. MapInv'
  BY <1>i, <1>1, <1>5, <1>6, <1>9 DEF MapInv, Pending, Silent
<1>17. ReplyInv'
  <2>1. \A r : Meaning(r)' <=> Meaning(r)
    BY <1>1, <1>5 DEF Meaning, Fresh
  <2> QED BY <1>i, <1>1, <1>5, <2>1 DEF ReplyInv
<1>18. SetupInv'
  BY <1>i, <1>1, <1>5, <1>6, <1>9 DEF SetupInv, Pending, Fresh
<1>19. PlaceInv'
  BY <1>i, <1>1, <1>t, <1>5, <1>6 DEF PlaceInv
<1>20. TokenInv'
  <2>1. Kinds' = Kinds /\ KindOps' = KindOps /\ "none" \notin Kinds /\ "DATA" \in KindOps
    BY <1>1 DEF Kinds, KindOps
  <2>2. Count(cmds', KindOps) = Count(cmds, KindOps) + IF refill THEN 1 ELSE 0
    <3>n. Count(cmds, KindOps) \in Nat
      BY <1>i, TokensType
    <3>1. CASE refill
      <4>1. Count(Append(cmds, "DATA"), KindOps) = Count(cmds, KindOps) + IF "DATA" \in KindOps THEN 1 ELSE 0
        BY <1>t, CountAppend
      <4> QED BY <1>1, <2>1, <3>1, <4>1
    <3>2. CASE ~refill
      BY <1>1, <3>n, <3>2
    <3> QED BY <3>1, <3>2
  <2>3. Count(evts, Rep(Kinds)) \in Nat /\ Count(cmds, KindOps) \in Nat /\ dsp.queue \in Nat
    BY <1>i, TokensType
  <2>4. Tokens' <= Tokens /\ Tokens \in Nat /\ Tokens' \in Nat
    <3> HIDE DEF refill
    <3> QED BY <1>1, <1>3, <2>1, <2>2, <2>3, RepIs DEF Tokens
  <2>5. Allowed' = Allowed /\ Allowed \in Nat
    <3>1. Allowed' = Allowed
      BY <1>1, <1>5 DEF Allowed
    <3> QED BY <1>i, <3>1, AllowedType
  <2> QED BY <1>i, <1>1, <2>4, <2>5 DEF TokenInv
<1> QED BY <1>8, <1>11, <1>12, <1>13, <1>14, <1>15, <1>16, <1>17, <1>18, <1>19, <1>20 DEF PcmInv

(* Fewer tokens are still within what is allowed. *)
LEMMA FewerTokens ==
    ASSUME PcmTyped, TokenInv, UNCHANGED <<pc, alsa, dir, resumes, ac>>, Tokens' \in Nat, Tokens \in Nat,
           Tokens' <= Tokens
    PROVE  TokenInv'
<1>1. Allowed' = Allowed /\ Allowed \in Nat
  <2>1. Allowed' = Allowed
    BY DEF Allowed
  <2> QED BY <2>1, AllowedType
<1> QED BY <1>1 DEF TokenInv

(* An event of the running DSP: there is no reply it could overtake. *)
LEMMA DspEventKeeps ==
    ASSUME PcmInv, dsp.running \/ dsp.eos, NEW r \in Rep({"DATADONE", "EOSDONE"}),
           evts' = Append(evts, r),
           dsp' \in [open : BOOLEAN, mapped : BOOLEAN, running : BOOLEAN, queue : Nat, eos : BOOLEAN],
           dsp'.open <=> dsp.open, dsp'.mapped <=> dsp.mapped,
           UNCHANGED <<threadVars, acVars, cmds, rx>>,
           Tokens' \in Nat, Tokens \in Nat, Tokens' <= Tokens
    PROVE  PcmInv'
<1>1. /\ dir' = dir /\ badFormat' = badFormat /\ alsa' = alsa /\ hw' = hw /\ pc' = pc /\ sent' = sent
      /\ state' = state /\ client' = client /\ resumes' = resumes /\ ac' = ac
      /\ privLive' = privLive /\ reused' = reused /\ cmds' = cmds /\ rx' = rx
  BY DEF threadVars, acVars
<1>i. /\ PcmTyped /\ WaitInv /\ LastInv /\ CloseInv /\ CalmInv /\ DspInv /\ MapInv /\ ReplyInv
      /\ SetupInv /\ PlaceInv /\ TokenInv
  BY DEF PcmInv
<1>t. /\ evts \in Seq(Rep(SyncOps \cup AsyncReplies)) /\ r \in Rep(SyncOps \cup AsyncReplies)
      /\ r \in Rep(AsyncReplies) /\ r.op \in AsyncReplies
  BY <1>i DEF PcmTyped, Rep, AsyncReplies
<1>2. dsp.open
  BY <1>i DEF DspInv
<1>3. pc \in {"p_close", "c_close"} \/ (pc = "idle" /\ client /\ state # "IDLE")
  BY <1>i DEF CalmInv
<1>4. sent => Commands[pc] = "CLOSE" /\ Asked
  BY <1>i, <1>2, <1>3, PcmCommands DEF WaitInv, CloseInv
<1>5. ~Told /\ Within(evts, Rep(AsyncReplies))
  BY <1>i, <1>4 DEF WaitInv, Told
<1>6. evts' \in Seq(Rep(SyncOps \cup AsyncReplies)) /\ Within(evts', Rep(AsyncReplies))
  BY <1>t, <1>5, PcmAppend
<1>7. ~Told' /\ (Asked' <=> Asked)
  BY <1>1, <1>6 DEF Told, Asked
<1>8. PcmTyped'
  BY <1>i, <1>1, <1>6 DEF PcmTyped
<1>9. WaitInv'
  <2>1. Rep(SyncOps) \cap Rep(AsyncReplies) = {}
    BY DEF Rep, SyncOps, AsyncReplies
  <2>2. Behind(evts', Rep(SyncOps), Rep({"DATAERR"}))
    BY <1>6, <2>1, BehindNone
  <2>3. Rep(AsyncReplies) \subseteq Rep(AsyncReplies \cup {Commands[pc]})
    BY DEF Rep
  <2>4. Within(evts', Rep(AsyncReplies \cup {Commands[pc]}))
    BY <1>6, <2>3, WithinMore
  <2> QED BY <1>i, <1>1, <1>7, <2>2, <2>4 DEF WaitInv
<1>10. LastInv' /\ CloseInv'
  BY <1>1, <1>4, <1>7 DEF LastInv, CloseInv
<1>11. CalmInv'
  BY <1>1, <1>3 DEF CalmInv
<1>12. DspInv'
  BY <1>i, <1>1, <1>2, <1>7 DEF DspInv, Pending
<1>13. MapInv'
  <2>1. ac.buf # 0
    BY <1>i, <1>3 DEF MapInv
  <2> QED BY <1>i, <1>1, <1>7, <2>1 DEF MapInv, Pending
<1>14. ReplyInv'
  <2>1. \A x : x.op \in AsyncReplies \cup {"none", "CLOSE"} => Meaning(x)'
    BY DEF Meaning, AsyncReplies
  <2>2. \A i \in DOMAIN evts' : evts'[i].op \in AsyncReplies
    BY <1>6 DEF Within, Rep
  <2>3. sent => ac.result.op \in AsyncReplies \cup {"none", "CLOSE"}
    BY <1>i, <1>4 DEF WaitInv
  <2> QED BY <1>1, <2>1, <2>2, <2>3 DEF ReplyInv
<1>15. SetupInv'
  BY <1>i, <1>1, <1>3 DEF SetupInv
<1>16. PlaceInv'
  BY <1>i, <1>1 DEF PlaceInv
<1>17. TokenInv'
  BY <1>i, <1>1, FewerTokens
<1> QED BY <1>8, <1>9, <1>10, <1>11, <1>12, <1>13, <1>14, <1>15, <1>16, <1>17 DEF PcmInv

(* The DSP finishes a buffer, or has rendered the end of the stream. *)
LEMMA DspEventsKeep == ASSUME PcmInv, DspPlays \/ DspRendersEos PROVE PcmInv'
<1>t. /\ PcmTyped /\ evts \in Seq(Rep(SyncOps \cup AsyncReplies))
      /\ dsp \in [open : BOOLEAN, mapped : BOOLEAN, running : BOOLEAN, queue : Nat, eos : BOOLEAN]
  BY DEF PcmInv, PcmTyped
<1>n. Count(cmds, KindOps) \in Nat /\ Count(evts, Rep(Kinds)) \in Nat
  BY <1>t, TokensType
<1>k. UNCHANGED threadVars => Kinds' = Kinds /\ KindOps' = KindOps
  BY DEF threadVars, Kinds, KindOps
<1>a. \A m \in Rep(SyncOps \cup AsyncReplies) :
          Count(Append(evts, m), Rep(Kinds)) = Count(evts, Rep(Kinds)) + IF m \in Rep(Kinds) THEN 1 ELSE 0
  BY <1>t, CountAppend
<1>b. ASSUME UNCHANGED <<threadVars, acVars, cmds, rx>>,
             dsp'.queue \in Nat, dsp.queue \in Nat,
             Count(evts', Rep(Kinds)) + dsp'.queue = Count(evts, Rep(Kinds)) + dsp.queue,
             Count(evts', Rep(Kinds)) \in Nat
      PROVE  Tokens' = Tokens /\ Tokens \in Nat
  <2>1. Kinds' = Kinds /\ KindOps' = KindOps /\ rx' = rx /\ cmds' = cmds
    BY <1>k, <1>b
  <2>2. Count(evts, Rep(Kinds))' = Count(evts', Rep(Kinds)) /\ Count(cmds, KindOps)' = Count(cmds, KindOps)
    BY <2>1
  <2> QED BY <1>n, <1>b, <2>1, <2>2 DEF Tokens
<1>1. CASE DspPlays
  <2>1. /\ dsp.running /\ dsp.queue > 0 /\ dsp' = [dsp EXCEPT !.queue = @ - 1]
        /\ evts' = Append(evts, Reply("DATADONE", TRUE)) /\ UNCHANGED <<threadVars, acVars, cmds, rx>>
    BY <1>1 DEF DspPlays, Answer
  <2>2. Reply("DATADONE", TRUE) \in Rep({"DATADONE", "EOSDONE"}) /\ Reply("DATADONE", TRUE) \in Rep(Kinds)
        /\ Reply("DATADONE", TRUE) \in Rep(SyncOps \cup AsyncReplies)
    BY DEF Reply, Rep, Kinds, AsyncReplies
  <2>3. /\ dsp' \in [open : BOOLEAN, mapped : BOOLEAN, running : BOOLEAN, queue : Nat, eos : BOOLEAN]
        /\ dsp'.queue = dsp.queue - 1 /\ (dsp'.open <=> dsp.open) /\ (dsp'.mapped <=> dsp.mapped)
    BY <1>t, <2>1
  <2>4. Count(evts', Rep(Kinds)) = Count(evts, Rep(Kinds)) + 1
    <3>1. Count(evts', Rep(Kinds)) = Count(evts, Rep(Kinds))
                                     + IF Reply("DATADONE", TRUE) \in Rep(Kinds) THEN 1 ELSE 0
      BY <1>a, <2>1, <2>2
    <3> QED BY <2>2, <3>1
  <2>5. Tokens' = Tokens /\ Tokens \in Nat
    <3>1. /\ dsp'.queue \in Nat /\ dsp.queue \in Nat /\ Count(evts', Rep(Kinds)) \in Nat
          /\ Count(evts', Rep(Kinds)) + dsp'.queue = Count(evts, Rep(Kinds)) + dsp.queue
      BY <1>n, <1>t, <2>3, <2>4
    <3> QED BY <1>b, <2>1, <3>1
  <2>6. Tokens' \in Nat /\ Tokens' <= Tokens
    BY <2>5
  <2> QED BY <2>1, <2>2, <2>3, <2>5, <2>6, DspEventKeeps
<1>2. CASE DspRendersEos
  <2>1. /\ dsp.eos /\ dsp' = [dsp EXCEPT !.eos = FALSE]
        /\ evts' = Append(evts, Reply("EOSDONE", TRUE)) /\ UNCHANGED <<threadVars, acVars, cmds, rx>>
    BY <1>2 DEF DspRendersEos, Answer
  <2>2. Reply("EOSDONE", TRUE) \in Rep({"DATADONE", "EOSDONE"}) /\ Reply("EOSDONE", TRUE) \notin Rep(Kinds)
        /\ Reply("EOSDONE", TRUE) \in Rep(SyncOps \cup AsyncReplies)
    BY DEF Reply, Rep, Kinds, AsyncReplies
  <2>3. /\ dsp' \in [open : BOOLEAN, mapped : BOOLEAN, running : BOOLEAN, queue : Nat, eos : BOOLEAN]
        /\ dsp'.queue = dsp.queue /\ (dsp'.open <=> dsp.open) /\ (dsp'.mapped <=> dsp.mapped)
    BY <1>t, <2>1
  <2>4. Count(evts', Rep(Kinds)) = Count(evts, Rep(Kinds))
    <3>1. Count(evts', Rep(Kinds)) = Count(evts, Rep(Kinds))
                                     + IF Reply("EOSDONE", TRUE) \in Rep(Kinds) THEN 1 ELSE 0
      BY <1>a, <2>1, <2>2
    <3> QED BY <1>n, <2>2, <3>1
  <2>5. Tokens' = Tokens /\ Tokens \in Nat
    <3>1. /\ dsp'.queue \in Nat /\ dsp.queue \in Nat /\ Count(evts', Rep(Kinds)) \in Nat
          /\ Count(evts', Rep(Kinds)) + dsp'.queue = Count(evts, Rep(Kinds)) + dsp.queue
      BY <1>n, <1>t, <2>3, <2>4
    <3> QED BY <1>b, <2>1, <3>1
  <2>6. Tokens' \in Nat /\ Tokens' <= Tokens
    BY <2>5
  <2> QED BY <2>1, <2>2, <2>3, <2>5, <2>6, DspEventKeeps
<1> QED BY <1>1, <1>2

(* What the DSP does with a command that is waited for. *)
LEMMA SyncTaken ==
    ASSUME PcmTyped, DspCommand, Head(cmds) \in SyncOps
    PROVE  /\ dsp' \in [open : BOOLEAN, mapped : BOOLEAN, running : BOOLEAN, queue : Nat, eos : BOOLEAN]
           /\ \E ok \in BOOLEAN :
                /\ evts' = Append(evts, Reply(Head(cmds), ok))
                /\ Head(cmds) = "CLOSE" => ~dsp'.open /\ ~dsp'.running /\ ~dsp'.eos /\ dsp'.queue = 0
                /\ Head(cmds) # "CLOSE" => /\ dsp'.running <=> dsp.running
                                           /\ dsp'.eos <=> dsp.eos
                                           /\ dsp'.queue = dsp.queue
                /\ Head(cmds) = "OPEN" => (dsp'.open <=> dsp.open \/ ok) /\ (ok => ~dsp.open)
                /\ Head(cmds) \notin {"CLOSE", "OPEN"} => (dsp'.open <=> dsp.open)
                /\ Head(cmds) = "UNMAP" => ~dsp'.mapped /\ (ok <=> dsp.mapped)
                /\ Head(cmds) = "MAP" => (dsp'.mapped <=> dsp.mapped \/ ok)
                /\ Head(cmds) \notin {"UNMAP", "MAP"} => (dsp'.mapped <=> dsp.mapped)
                /\ Head(cmds) = "FMT" => ok \/ badFormat
<1> DEFINE h == Head(cmds)
<1>t. /\ dsp \in [open : BOOLEAN, mapped : BOOLEAN, running : BOOLEAN, queue : Nat, eos : BOOLEAN]
      /\ badFormat \in BOOLEAN
  BY DEF PcmTyped
<1>1. CASE h = "CLOSE"
  <2>1. /\ dsp' = [dsp EXCEPT !.open = FALSE, !.running = FALSE, !.queue = 0, !.eos = FALSE]
        /\ evts' = Append(evts, Reply(h, dsp.open))
    BY <1>1 DEF DspCommand, Answer
  <2> HIDE DEF h
  <2> QED BY <1>t, <1>1, <2>1 DEF h
<1>2. CASE h = "UNMAP"
  <2>1. /\ dsp' = [dsp EXCEPT !.mapped = FALSE]
        /\ evts' = Append(evts, Reply(h, dsp.mapped))
    BY <1>2 DEF DspCommand, Answer
  <2> QED BY <1>t, <1>2, <2>1
<1>3. CASE h = "MAP"
  <2>1. PICK ok \in BOOLEAN : /\ dsp' = [dsp EXCEPT !.mapped = @ \/ ok]
                              /\ evts' = Append(evts, Reply(h, ok))
    BY <1>3 DEF DspCommand, Answer
  <2> QED BY <1>t, <1>3, <2>1
<1>4. CASE h = "OPEN"
  <2>1. PICK ok \in {FALSE, ~dsp.open} : /\ dsp' = [dsp EXCEPT !.open = @ \/ ok]
                                         /\ evts' = Append(evts, Reply(h, ok))
    BY <1>4 DEF DspCommand, Answer
  <2>2. ok \in BOOLEAN /\ (ok => ~dsp.open)
    BY <1>t
  <2> QED BY <1>t, <1>4, <2>1, <2>2
<1>5. CASE h = "FMT"
  <2>1. PICK ok \in {TRUE, ~badFormat} : dsp' = dsp /\ evts' = Append(evts, Reply(h, ok))
    BY <1>5 DEF DspCommand, Answer
  <2>2. ok \in BOOLEAN /\ (ok \/ badFormat)
    BY <1>t
  <2> QED BY <1>t, <1>5, <2>1, <2>2
<1> QED BY <1>1, <1>2, <1>3, <1>4, <1>5 DEF SyncOps

(* The DSP takes a command that is waited for. *)
LEMMA DspSyncKeeps == ASSUME PcmInv, DspCommand, Head(cmds) \in SyncOps PROVE PcmInv'
<1> DEFINE h == Head(cmds)
<1>1. /\ dir' = dir /\ badFormat' = badFormat /\ alsa' = alsa /\ hw' = hw /\ pc' = pc /\ sent' = sent
      /\ state' = state /\ client' = client /\ resumes' = resumes /\ ac' = ac
      /\ privLive' = privLive /\ reused' = reused /\ rx' = rx
      /\ cmds # <<>> /\ cmds' = Tail(cmds)
  BY DEF DspCommand, threadVars, acVars
<1>i. /\ PcmTyped /\ WaitInv /\ LastInv /\ CloseInv /\ CalmInv /\ DspInv /\ MapInv /\ ReplyInv
      /\ SetupInv /\ PlaceInv /\ TokenInv
  BY DEF PcmInv
<1>t. /\ evts \in Seq(Rep(SyncOps \cup AsyncReplies)) /\ cmds \in Seq(SyncOps \cup AsyncOps)
      /\ SyncOps \cap AsyncReplies = {} /\ SyncOps \cap AsyncOps = {} /\ "DATA" \in AsyncOps
      /\ "none" \notin SyncOps
  BY <1>i DEF PcmTyped, SyncOps, AsyncReplies, AsyncOps
<1>2. /\ h \in SyncOps /\ cmds' \in Seq(SyncOps \cup AsyncOps)
      /\ \A A : Within(cmds, A) <=> h \in A /\ Within(cmds', A)
      /\ \A A, B : Behind(cmds, A, B) => Behind(cmds', A, B) /\ (h \in A => Within(cmds', B))
  BY <1>1, <1>t, PcmTail
<1>3. /\ dsp' \in [open : BOOLEAN, mapped : BOOLEAN, running : BOOLEAN, queue : Nat, eos : BOOLEAN]
      /\ \E ok \in BOOLEAN :
           /\ evts' = Append(evts, Reply(h, ok))
           /\ h = "CLOSE" => ~dsp'.open /\ ~dsp'.running /\ ~dsp'.eos /\ dsp'.queue = 0
           /\ h # "CLOSE" => /\ dsp'.running <=> dsp.running
                             /\ dsp'.eos <=> dsp.eos
                             /\ dsp'.queue = dsp.queue
           /\ h = "OPEN" => (dsp'.open <=> dsp.open \/ ok) /\ (ok => ~dsp.open)
           /\ h \notin {"CLOSE", "OPEN"} => (dsp'.open <=> dsp.open)
           /\ h = "UNMAP" => ~dsp'.mapped /\ (ok <=> dsp.mapped)
           /\ h = "MAP" => (dsp'.mapped <=> dsp.mapped \/ ok)
           /\ h \notin {"UNMAP", "MAP"} => (dsp'.mapped <=> dsp.mapped)
           /\ h = "FMT" => ok \/ badFormat
  BY <1>i, SyncTaken
<1> HIDE DEF h
<1>4. PICK ok \in BOOLEAN :
           /\ evts' = Append(evts, Reply(h, ok))
           /\ h = "CLOSE" => ~dsp'.open /\ ~dsp'.running /\ ~dsp'.eos /\ dsp'.queue = 0
           /\ h # "CLOSE" => /\ dsp'.running <=> dsp.running
                             /\ dsp'.eos <=> dsp.eos
                             /\ dsp'.queue = dsp.queue
           /\ h = "OPEN" => (dsp'.open <=> dsp.open \/ ok) /\ (ok => ~dsp.open)
           /\ h \notin {"CLOSE", "OPEN"} => (dsp'.open <=> dsp.open)
           /\ h = "UNMAP" => ~dsp'.mapped /\ (ok <=> dsp.mapped)
           /\ h = "MAP" => (dsp'.mapped <=> dsp.mapped \/ ok)
           /\ h \notin {"UNMAP", "MAP"} => (dsp'.mapped <=> dsp.mapped)
           /\ h = "FMT" => ok \/ badFormat
  BY <1>3
<1> DEFINE r == Reply(h, ok)
<1>r. r.op = h /\ (r.ok <=> ok) /\ (\A A : h \in A => r \in Rep(A)) /\ r \in Rep(SyncOps \cup AsyncReplies)
  BY <1>2 DEF Reply, Rep
<1>e. evts' = Append(evts, r)
  BY <1>4
<1> HIDE DEF r
<1>5. Asked /\ sent /\ ~Told /\ Within(evts, Rep(AsyncReplies)) /\ ac.result.op \notin SyncOps
  <2>1. Asked
    BY <1>2, <1>t DEF Asked
  <2> QED BY <1>i, <2>1 DEF WaitInv, Told
<1>6. h = Commands[pc] /\ pc \in DOMAIN Commands /\ pc # "idle"
  <2>1. Within(cmds, AsyncOps \cup {Commands[pc]}) /\ pc \in DOMAIN Commands
    BY <1>i, <1>5 DEF WaitInv
  <2>2. h \in AsyncOps \cup {Commands[pc]}
    BY <1>2, <2>1, Zenon
  <2> QED BY <1>t, <1>2, <2>1, <2>2, PcmCommands
<1>7. Within(cmds', {"DATA"}) /\ Behind(cmds', SyncOps, {"DATA"})
  <2>1. Behind(cmds, SyncOps, {"DATA"})
    BY <1>i DEF WaitInv
  <2> QED BY <1>2, <2>1, Zenon
<1>8. /\ evts' \in Seq(Rep(SyncOps \cup AsyncReplies))
      /\ \A A : Within(evts', A) <=> Within(evts, A) /\ r \in A
      /\ \A A, B, C : Within(evts, C) /\ A \cap C = {} => Behind(evts', A, B)
  BY <1>t, <1>r, <1>e, PcmAppend
<1>9. ~Asked' /\ Told' /\ Within(cmds', AsyncOps)
  <2>1. Within(cmds', AsyncOps)
    <3>1. {"DATA"} \subseteq AsyncOps
      BY DEF AsyncOps
    <3> QED BY <1>7, <3>1, WithinMore
  <2>2. r \notin Rep(AsyncReplies)
    <3>1. \A x \in Rep(AsyncReplies) : x.op \in AsyncReplies
      BY DEF Rep
    <3> QED BY <1>r, <1>t, <1>2, <3>1
  <2> QED BY <1>8, <2>1, <2>2 DEF Asked, Told
<1>10. PcmTyped'
  BY <1>i, <1>1, <1>2, <1>3, <1>8 DEF PcmTyped
<1>11. \A B : Behind(evts', Rep(SyncOps), B)
  <2>1. Rep(SyncOps) \cap Rep(AsyncReplies) = {}
    BY DEF Rep, SyncOps, AsyncReplies
  <2> QED BY <1>5, <1>8, <2>1, Zenon
<1>12. WaitInv'
  <2>1. Within(cmds', AsyncOps \cup {Commands[pc]})
    BY <1>9, WithinMore
  <2>2. Within(evts', Rep(AsyncReplies \cup {Commands[pc]}))
    <3>1. Rep(AsyncReplies) \subseteq Rep(AsyncReplies \cup {Commands[pc]})
      BY DEF Rep
    <3>2. r \in Rep(AsyncReplies \cup {Commands[pc]})
      BY <1>r, <1>6
    <3>3. Within(evts, Rep(AsyncReplies \cup {Commands[pc]}))
      BY <1>5, <3>1, WithinMore
    <3> QED BY <1>8, <3>2, <3>3
  <2> QED BY <1>i, <1>1, <1>5, <1>7, <1>9, <1>11, <2>1, <2>2 DEF WaitInv
<1>13. LastInv'
  <2> SUFFICES ASSUME Commands[pc] # "CLOSE"
               PROVE  Behind(cmds', SyncOps, {}) /\ cmds' = <<>>
    BY <1>1, <1>9, <1>11 DEF LastInv
  <2>1. Behind(cmds, SyncOps, {})
    BY <1>i, <1>5 DEF LastInv
  <2>2. Behind(cmds', SyncOps, {}) /\ Within(cmds', {})
    BY <1>2, <2>1, Zenon
  <2> QED BY <1>2, <2>2, PcmEmpty
<1>14. CloseInv'
  BY <1>1, <1>4, <1>6, <1>7, <1>9 DEF CloseInv
<1>15. CalmInv'
  <2>1. ASSUME DataOnly PROVE DataOnly'
    <3>1. r \in Rep({"DATAERR"} \cup SyncOps)
      BY <1>r, <1>2
    <3>2. Within(cmds', {"DATA"} \cup SyncOps)
      BY <1>7, WithinMore
    <3> QED BY <1>1, <1>8, <2>1, <3>1, <3>2 DEF DataOnly
  <2> QED BY <1>i, <1>1, <1>4, <1>6, <2>1 DEF CalmInv
<1>p. ~Pending' /\ Pending
  BY <1>1, <1>5, <1>9 DEF Pending
<1>16. DspInv'
  <2>1. ~dsp'.open => dsp'.queue = 0 /\ ~dsp'.running /\ ~dsp'.eos
    BY <1>i, <1>4 DEF DspInv
  <2>2. ASSUME ~badFormat, pc \in {"p_unmap", "p_map", "e_unmap", "c_unmap"} PROVE ~dsp'.open
    BY <1>i, <1>4, <1>6, <2>2, PcmCommands DEF DspInv
  <2>3. ASSUME ~badFormat, dsp'.open PROVE dsp'.mapped
    <3>1. CASE h = "OPEN"
      <4>1. pc = "p_open"
        BY <1>6, <3>1, PcmCommands
      <4>2. dsp.mapped
        BY <1>i, <1>1, <4>1 DEF MapInv, Unmaps
      <4> QED BY <1>4, <3>1, <4>2
    <3>2. CASE h = "UNMAP"
      <4>1. pc \in {"p_unmap", "e_unmap", "c_unmap"}
        BY <1>6, <3>2, PcmCommands
      <4> QED BY <2>2, <2>3, <4>1
    <3>3. CASE h \notin {"OPEN", "UNMAP"}
      <4>1. dsp.open
        BY <1>4, <2>3, <3>3
      <4> QED BY <1>i, <1>4, <2>3, <3>3, <4>1 DEF DspInv
    <3> QED BY <3>1, <3>2, <3>3
  <2> QED BY <1>1, <1>6, <1>p, <2>1, <2>2, <2>3 DEF DspInv
<1>17. MapInv'
  <2>1. ac.buf # 0
    BY <1>i, <1>1 DEF MapInv
  <2>2. pc \in Unmaps => ~dsp'.mapped
    BY <1>4, <1>6, PcmCommands DEF Unmaps
  <2>3. ASSUME pc # "p_map", pc \notin Unmaps PROVE dsp'.mapped
    <3>1. h \notin {"MAP", "UNMAP"}
      BY <1>6, <2>3, PcmCommands DEF Unmaps
    <3>2. dsp.mapped
      BY <1>i, <2>1, <2>3 DEF MapInv
    <3> QED BY <1>4, <3>1, <3>2
  <2> QED BY <1>i, <1>1, <1>5, <1>9, <1>p, <2>1, <2>2, <2>3 DEF MapInv
<1>18. ReplyInv'
  <2>1. \A x : x.op \in AsyncReplies \cup {"none"} => Meaning(x)'
    BY DEF Meaning, AsyncReplies
  <2>2. Meaning(ac.result)'
    <3>1. ac.result.op \in AsyncReplies \cup {"none"}
      BY <1>i, <1>2, <1>5, <1>6 DEF WaitInv
    <3> QED BY <1>1, <2>1, <3>1
  <2>3. ASSUME NEW x, x.op = h, x.ok <=> ok PROVE Meaning(x)'
    <3>1. h = "UNMAP" => ok
      <4> SUFFICES ASSUME h = "UNMAP" PROVE dsp.mapped
        BY <1>4
      <4>1. pc \in Unmaps /\ pc # "p_map"
        BY <1>6, PcmCommands DEF Unmaps
      <4> QED BY <1>i, <1>1, <1>p, <4>1 DEF MapInv
    <3>2. h = "MAP" => (ok <=> dsp'.mapped)
      <4> SUFFICES ASSUME h = "MAP" PROVE ~dsp.mapped
        BY <1>4
      <4>1. pc = "p_map"
        BY <1>6, PcmCommands
      <4> QED BY <1>i, <1>5, <4>1 DEF MapInv
    <3>3. h = "OPEN" => IF ok THEN Fresh' ELSE badFormat \/ ~dsp'.open
      <4> SUFFICES ASSUME h = "OPEN" PROVE IF ok THEN Fresh' ELSE badFormat \/ ~dsp'.open
        OBVIOUS
      <4>1. pc = "p_open"
        BY <1>6, PcmCommands
      <4>2. ASSUME ok PROVE Fresh'
        <5>1. ~dsp.open /\ ac.buf = hw
          BY <1>i, <1>4, <1>p, <4>1, <4>2 DEF SetupInv
        <5> QED BY <1>i, <1>1, <1>4, <4>2, <5>1 DEF Fresh, DspInv
      <4>3. ASSUME ~ok PROVE badFormat \/ ~dsp'.open
        BY <1>i, <1>4, <1>p, <4>1, <4>3 DEF DspInv
      <4> QED BY <4>2, <4>3
    <3>4. h = "FMT" => badFormat \/ ok
      BY <1>4
    <3> QED BY <1>1, <2>3, <3>1, <3>2, <3>3, <3>4 DEF Meaning
  <2>4. ASSUME NEW i \in DOMAIN evts' PROVE Meaning(evts[i])'
    <3>1. evts'[i] = r \/ (i \in DOMAIN evts /\ evts'[i] = evts[i])
      BY <1>t, <1>e, <1>r
    <3>2. i \in DOMAIN evts => evts[i].op \in AsyncReplies
      BY <1>5 DEF Within, Rep
    <3>3. evts'[i].op \in AsyncReplies \/ (evts'[i].op = h /\ (evts'[i].ok <=> ok))
      BY <1>r, <3>1, <3>2
    <3> QED BY <2>1, <2>3, <3>3
  <2> QED BY <2>2, <2>4 DEF ReplyInv
<1>19. SetupInv'
  <2>1. ASSUME pc = "p_fmt" PROVE Fresh' /\ Within(cmds', SyncOps)
    <3>1. Fresh /\ Within(cmds, SyncOps) /\ h = "FMT"
      BY <1>i, <1>6, <2>1, PcmCommands DEF SetupInv
    <3>2. Within(cmds', SyncOps)
      BY <1>2, <3>1
    <3> QED BY <1>1, <1>4, <3>1, <3>2 DEF Fresh
  <2> QED BY <1>i, <1>1, <1>5, <1>6, <1>p, <2>1 DEF SetupInv
<1>20. PlaceInv'
  BY <1>i, <1>1 DEF PlaceInv
<1>21. TokenInv'
  BY <1>1, <1>6 DEF TokenInv
<1> QED BY <1>10, <1>12, <1>13, <1>14, <1>15, <1>16, <1>17, <1>18, <1>19, <1>20, <1>21 DEF PcmInv

(* What the DSP does with a command that is not waited for. *)
LEMMA AsyncTaken ==
    ASSUME PcmTyped, DspCommand, Head(cmds) \in AsyncOps
    PROVE  /\ dsp' \in [open : BOOLEAN, mapped : BOOLEAN, running : BOOLEAN, queue : Nat, eos : BOOLEAN]
           /\ dsp'.open <=> dsp.open
           /\ dsp'.mapped <=> dsp.mapped
           /\ dsp'.running => dsp.open \/ dsp.running
           /\ dsp'.eos => dsp.open \/ dsp.eos
           /\ Head(cmds) = "DATA" => (dsp'.running <=> dsp.running) /\ (dsp'.eos <=> dsp.eos)
           /\ dsp'.queue = dsp.queue + IF Head(cmds) = "DATA" /\ dsp.open THEN 1 ELSE 0
           /\ \/ /\ Head(cmds) \in {"RUN", "PAUSE"}
                 /\ \E ok \in BOOLEAN : evts' = Append(evts, Reply(Head(cmds), ok))
              \/ (Head(cmds) = "EOS" \/ (Head(cmds) = "DATA" /\ dsp.open)) /\ evts' = evts
              \/ Head(cmds) = "DATA" /\ ~dsp.open /\ evts' = Append(evts, Reply("DATAERR", FALSE))
<1> DEFINE h == Head(cmds)
<1>t. dsp \in [open : BOOLEAN, mapped : BOOLEAN, running : BOOLEAN, queue : Nat, eos : BOOLEAN]
  BY DEF PcmTyped
<1>1. CASE h \in {"RUN", "PAUSE"}
  <2>1. /\ dsp' = [dsp EXCEPT !.running = (dsp.open /\ h = "RUN")]
        /\ evts' = Append(evts, Reply(h, dsp.open))
    BY <1>1 DEF DspCommand, Answer
  <2>2. PICK b \in BOOLEAN : dsp' = [dsp EXCEPT !.running = b] /\ (b => dsp.open)
    BY <2>1
  <2>3. /\ dsp' \in [open : BOOLEAN, mapped : BOOLEAN, running : BOOLEAN, queue : Nat, eos : BOOLEAN]
        /\ (dsp'.open <=> dsp.open) /\ (dsp'.mapped <=> dsp.mapped) /\ (dsp'.running => dsp.open)
        /\ (dsp'.eos <=> dsp.eos) /\ dsp'.queue = dsp.queue
    BY <1>t, <2>2
  <2>4. dsp'.queue = dsp.queue + 0
    BY <1>t, <2>3
  <2>5. dsp.open \in BOOLEAN
    BY <1>t
  <2> QED BY <1>1, <2>1, <2>3, <2>4, <2>5
<1>2. CASE h = "EOS"
  <2>1. dsp' = [dsp EXCEPT !.eos = dsp.open] /\ evts' = evts
    BY <1>2 DEF DspCommand
  <2>2. PICK b \in BOOLEAN : dsp' = [dsp EXCEPT !.eos = b] /\ (b => dsp.open)
    BY <1>t, <2>1
  <2>3. /\ dsp' \in [open : BOOLEAN, mapped : BOOLEAN, running : BOOLEAN, queue : Nat, eos : BOOLEAN]
        /\ (dsp'.open <=> dsp.open) /\ (dsp'.mapped <=> dsp.mapped) /\ (dsp'.running <=> dsp.running)
        /\ (dsp'.eos => dsp.open) /\ dsp'.queue = dsp.queue
    BY <1>t, <2>2
  <2>4. dsp'.queue = dsp.queue + 0
    BY <1>t, <2>3
  <2> QED BY <1>2, <2>1, <2>3, <2>4
<1>3. CASE h = "DATA" /\ dsp.open
  <2>1. dsp' = [dsp EXCEPT !.queue = @ + 1] /\ evts' = evts
    BY <1>3 DEF DspCommand
  <2> QED BY <1>t, <1>3, <2>1
<1>4. CASE h = "DATA" /\ ~dsp.open
  <2>1. dsp' = dsp /\ evts' = Append(evts, Reply("DATAERR", FALSE))
    BY <1>4 DEF DspCommand, Answer
  <2>2. dsp'.queue = dsp.queue + 0
    BY <1>t, <2>1
  <2> QED BY <1>t, <1>4, <2>1, <2>2
<1> QED BY <1>1, <1>2, <1>3, <1>4 DEF AsyncOps

(* The DSP takes a command that is not waited for. *)
LEMMA DspAsyncKeeps == ASSUME PcmInv, DspCommand, Head(cmds) \in AsyncOps PROVE PcmInv'
<1> DEFINE h == Head(cmds)
<1>1. /\ dir' = dir /\ badFormat' = badFormat /\ alsa' = alsa /\ hw' = hw /\ pc' = pc /\ sent' = sent
      /\ state' = state /\ client' = client /\ resumes' = resumes /\ ac' = ac
      /\ privLive' = privLive /\ reused' = reused /\ rx' = rx
      /\ cmds # <<>> /\ cmds' = Tail(cmds)
  BY DEF DspCommand, threadVars, acVars
<1>i. /\ PcmTyped /\ WaitInv /\ LastInv /\ CloseInv /\ CalmInv /\ DspInv /\ MapInv /\ ReplyInv
      /\ SetupInv /\ PlaceInv /\ TokenInv
  BY DEF PcmInv
<1>t. /\ evts \in Seq(Rep(SyncOps \cup AsyncReplies)) /\ cmds \in Seq(SyncOps \cup AsyncOps)
      /\ SyncOps \cap AsyncReplies = {} /\ SyncOps \cap AsyncOps = {}
      /\ dsp.queue \in Nat /\ dsp.open \in BOOLEAN
  BY <1>i DEF PcmTyped, SyncOps, AsyncReplies, AsyncOps
<1>2. /\ h \in AsyncOps /\ cmds' \in Seq(SyncOps \cup AsyncOps)
      /\ \A A : Within(cmds, A) <=> h \in A /\ Within(cmds', A)
      /\ \A A, B : Behind(cmds, A, B) => Behind(cmds', A, B)
  BY <1>1, <1>t, PcmTail
<1>c. Count(cmds, KindOps) = Count(cmds', KindOps) + IF h \in KindOps THEN 1 ELSE 0
  BY <1>1, <1>t, CountTail
<1>3. /\ dsp' \in [open : BOOLEAN, mapped : BOOLEAN, running : BOOLEAN, queue : Nat, eos : BOOLEAN]
      /\ dsp'.open <=> dsp.open
      /\ dsp'.mapped <=> dsp.mapped
      /\ dsp'.running => dsp.open \/ dsp.running
      /\ dsp'.eos => dsp.open \/ dsp.eos
      /\ h = "DATA" => (dsp'.running <=> dsp.running) /\ (dsp'.eos <=> dsp.eos)
      /\ dsp'.queue = dsp.queue + IF h = "DATA" /\ dsp.open THEN 1 ELSE 0
      /\ \/ /\ h \in {"RUN", "PAUSE"}
            /\ \E ok \in BOOLEAN : evts' = Append(evts, Reply(h, ok))
         \/ (h = "EOS" \/ (h = "DATA" /\ dsp.open)) /\ evts' = evts
         \/ h = "DATA" /\ ~dsp.open /\ evts' = Append(evts, Reply("DATAERR", FALSE))
  BY <1>i, AsyncTaken
<1> HIDE DEF h
<1>4. ac.buf # 0
  BY <1>i, <1>1 DEF MapInv
<1>5. sent /\ Commands[pc] # "CLOSE" => Asked /\ ~Told
  BY <1>i, <1>1 DEF LastInv
<1>6. Told => sent /\ Commands[pc] = "CLOSE" /\ h = "DATA" /\ ~dsp.open
  <2> SUFFICES ASSUME Told PROVE sent /\ Commands[pc] = "CLOSE" /\ h = "DATA" /\ ~dsp.open
    OBVIOUS
  <2>1. sent /\ ~Asked /\ Commands[pc] = "CLOSE"
    BY <1>i, <1>5 DEF WaitInv
  <2>2. ~dsp.open /\ Within(cmds, {"DATA"})
    BY <1>i, <2>1 DEF CloseInv
  <2> QED BY <1>2, <2>1, <2>2
<1>7. Asked' <=> Asked
  BY <1>2 DEF Asked
<1>8. PICK r : /\ r \in Rep({"RUN", "PAUSE", "DATAERR"})
               /\ evts' \in {evts, Append(evts, r)}
               /\ evts' # evts => r.op = IF h = "DATA" THEN "DATAERR" ELSE h
               /\ evts' # evts \/ h # "RUN"
  <2>1. CASE h \in {"RUN", "PAUSE"} /\ \E ok \in BOOLEAN : evts' = Append(evts, Reply(h, ok))
    <3>1. PICK ok \in BOOLEAN : evts' = Append(evts, Reply(h, ok))
      BY <2>1
    <3>2. Reply(h, ok) \in Rep({"RUN", "PAUSE", "DATAERR"}) /\ Reply(h, ok).op = h
      BY <2>1 DEF Reply, Rep
    <3>3. evts' # evts
      <4> HIDE <3>2
      <4>1. Len(Append(evts, Reply(h, ok))) = Len(evts) + 1 /\ Len(evts) \in Nat
        BY <1>t
      <4> QED BY <3>1, <4>1
    <3> QED BY <2>1, <3>1, <3>2, <3>3
  <2>2. CASE (h = "EOS" \/ (h = "DATA" /\ dsp.open)) /\ evts' = evts
    <3>1. Reply("PAUSE", TRUE) \in Rep({"RUN", "PAUSE", "DATAERR"})
      BY DEF Reply, Rep
    <3> QED BY <2>2, <3>1
  <2>3. CASE h = "DATA" /\ ~dsp.open /\ evts' = Append(evts, Reply("DATAERR", FALSE))
    <3>1. Reply("DATAERR", FALSE) \in Rep({"RUN", "PAUSE", "DATAERR"}) /\ Reply("DATAERR", FALSE).op = "DATAERR"
      BY DEF Reply, Rep
    <3> QED BY <2>3, <3>1
  <2> QED BY <1>3, <2>1, <2>2, <2>3
<1>r. /\ r \in Rep(SyncOps \cup AsyncReplies) /\ r.op \in AsyncReplies
      /\ \A A : r \in Rep(A) <=> r.op \in A
  <2>1. r.op \in {"RUN", "PAUSE", "DATAERR"} /\ \A A : r \in Rep(A) <=> r.op \in A
    BY <1>8, RepIs
  <2>2. {"RUN", "PAUSE", "DATAERR"} \subseteq AsyncReplies
    BY DEF AsyncReplies
  <2> QED BY <2>1, <2>2
<1>9. /\ evts' \in Seq(Rep(SyncOps \cup AsyncReplies))
      /\ \A A : (evts' # evts => r \in A) => (Within(evts', A) <=> Within(evts, A))
  <2>1. CASE evts' = evts
    BY <1>t, <2>1
  <2>2. CASE evts' # evts /\ evts' = Append(evts, r)
    BY <1>t, <1>r, <2>2, PcmAppend
  <2> QED BY <1>8, <2>1, <2>2
<1>10. Told' <=> Told
  BY <1>r, <1>9 DEF Told
<1>11. PcmTyped'
  BY <1>i, <1>1, <1>2, <1>3, <1>9 DEF PcmTyped
<1>12. DataOnly => DataOnly' /\ h = "DATA"
  <2> SUFFICES ASSUME DataOnly PROVE DataOnly' /\ h = "DATA"
    OBVIOUS
  <2>1. h = "DATA" /\ Within(cmds', {"DATA"} \cup SyncOps)
    BY <1>2, <1>t DEF DataOnly
  <2>2. evts' # evts => r \in Rep({"DATAERR"} \cup SyncOps)
    BY <1>8, <1>r, <2>1
  <2>3. Within(evts', Rep({"DATAERR"} \cup SyncOps))
    BY <1>9, <2>2 DEF DataOnly
  <2> QED BY <1>1, <2>1, <2>3 DEF DataOnly
<1>13. /\ Behind(evts', Rep(SyncOps), Rep({"DATAERR"}))
       /\ ~Told => \A B : Behind(evts', Rep(SyncOps), B)
  <2>1. ASSUME ~Told PROVE \A B : Behind(evts', Rep(SyncOps), B)
    <3>1. Within(evts', Rep(AsyncReplies)) /\ Rep(SyncOps) \cap Rep(AsyncReplies) = {}
      BY <1>10, <2>1 DEF Told, Rep, SyncOps, AsyncReplies
    <3> QED BY <3>1, BehindNone
  <2>2. ASSUME Told PROVE Behind(evts', Rep(SyncOps), Rep({"DATAERR"}))
    <3>1. Behind(evts, Rep(SyncOps), Rep({"DATAERR"}))
      BY <1>i DEF WaitInv
    <3>2. CASE evts' = evts
      BY <3>1, <3>2
    <3>3. CASE evts' # evts /\ evts' = Append(evts, r)
      <4>1. r \in Rep({"DATAERR"})
        BY <1>6, <1>8, <1>r, <2>2, <3>3
      <4> QED BY <1>t, <1>r, <3>1, <3>3, <4>1, PcmAppend
    <3> QED BY <1>8, <3>2, <3>3
  <2> QED BY <2>1, <2>2
<1>14. WaitInv'
  <2>1. ASSUME sent
        PROVE  /\ Within(cmds', AsyncOps \cup {Commands[pc]})
               /\ Within(evts', Rep(AsyncReplies \cup {Commands[pc]}))
    <3>1. /\ Within(cmds, AsyncOps \cup {Commands[pc]})
          /\ Within(evts, Rep(AsyncReplies \cup {Commands[pc]}))
      BY <1>i, <2>1 DEF WaitInv
    <3>2. r \in Rep(AsyncReplies \cup {Commands[pc]})
      BY <1>r
    <3> QED BY <1>2, <1>9, <3>1, <3>2
  <2>2. Behind(cmds', SyncOps, {"DATA"})
    BY <1>i, <1>2 DEF WaitInv
  <2> QED BY <1>i, <1>1, <1>7, <1>10, <1>13, <2>1, <2>2 DEF WaitInv
<1>15. LastInv'
  <2> SUFFICES ASSUME sent, Commands[pc] # "CLOSE"
               PROVE  Behind(cmds', SyncOps, {}) /\ Behind(evts', Rep(SyncOps), {})
    BY <1>1, <1>5, <1>7, <1>10 DEF LastInv
  <2> QED BY <1>i, <1>2, <1>5, <1>13 DEF LastInv
<1>16. CloseInv'
  BY <1>i, <1>1, <1>2, <1>3, <1>7, <1>10, <1>12 DEF CloseInv
<1>17. CalmInv'
  BY <1>i, <1>1, <1>3, <1>12 DEF CalmInv
<1>p. Pending' <=> Pending
  BY <1>1, <1>7 DEF Pending
<1>18. DspInv'
  <2>1. ~dsp'.open => dsp'.queue = 0 /\ ~dsp'.running /\ ~dsp'.eos
    BY <1>i, <1>t, <1>3 DEF DspInv
  <2> QED BY <1>i, <1>1, <1>3, <1>p, <2>1 DEF DspInv
<1>19. MapInv'
  BY <1>i, <1>1, <1>3, <1>4, <1>7, <1>p DEF MapInv
<1>20. ReplyInv'
  <2>1. \A x : x.op \in AsyncReplies \cup {"none", "CLOSE"} => Meaning(x)'
    BY DEF Meaning, AsyncReplies
  <2> SUFFICES ASSUME sent PROVE ReplyInv'
    BY <1>1 DEF ReplyInv
  <2>2. ac.result.op \in AsyncReplies \cup {"none", "CLOSE"}
    BY <1>i, <1>5, PcmCommands DEF WaitInv, SyncOps
  <2>3. Within(evts', Rep(AsyncReplies \cup {"CLOSE"}))
    <3>1. Within(evts, Rep(AsyncReplies \cup {"CLOSE"}))
      <4>1. CASE Told
        BY <1>i, <1>6, <4>1 DEF WaitInv
      <4>2. CASE ~Told
        <5>1. Rep(AsyncReplies) \subseteq Rep(AsyncReplies \cup {"CLOSE"})
          BY DEF Rep
        <5> QED BY <4>2, <5>1, WithinMore DEF Told
      <4> QED BY <4>1, <4>2
    <3>2. r \in Rep(AsyncReplies \cup {"CLOSE"})
      BY <1>r
    <3> QED BY <1>9, <3>1, <3>2
  <2>4. \A i \in DOMAIN evts' : evts'[i].op \in AsyncReplies \cup {"CLOSE"}
    BY <2>3 DEF Within, Rep
  <2> QED BY <1>1, <2>1, <2>2, <2>4 DEF ReplyInv
<1>21. SetupInv'
  <2>1. pc # "p_fmt"
    BY <1>i, <1>2, <1>t DEF SetupInv
  <2> QED BY <1>i, <1>1, <1>3, <1>p, <2>1 DEF SetupInv
<1>22. PlaceInv'
  BY <1>i, <1>1 DEF PlaceInv
<1>23. TokenInv'
  <2>1. Kinds' = Kinds /\ KindOps' = KindOps
    BY <1>1 DEF Kinds, KindOps
  <2>2. "DATA" \in KindOps /\ ("RUN" \in KindOps <=> "RUN" \in Kinds) /\ {"PAUSE", "DATAERR"} \cap Kinds = {}
    BY DEF Kinds, KindOps
  <2>n. /\ Count(cmds', KindOps) \in Nat /\ Count(evts', Rep(Kinds)) \in Nat /\ Count(evts, Rep(Kinds)) \in Nat
        /\ Count(cmds, KindOps) \in Nat
    BY <1>i, <1>2, <1>9, PlacesFinite, TokensType
  <2>3. Count(evts', Rep(Kinds)) = Count(evts, Rep(Kinds)) + IF h = "RUN" /\ "RUN" \in Kinds THEN 1 ELSE 0
    <3>1. CASE evts' = evts
      BY <1>8, <2>n, <3>1
    <3>2. CASE evts' # evts /\ evts' = Append(evts, r)
      <4>1. Count(Append(evts, r), Rep(Kinds)) = Count(evts, Rep(Kinds)) + IF r \in Rep(Kinds) THEN 1 ELSE 0
        BY <1>t, <1>r, CountAppend
      <4>2. r \in Rep(Kinds) <=> h = "RUN" /\ "RUN" \in Kinds
        <5>1. r.op \in {"RUN", "PAUSE", "DATAERR"}
          BY <1>8 DEF Rep
        <5> QED BY <1>8, <1>r, <2>2, <3>2, <5>1
      <4> QED BY <3>2, <4>1, <4>2
    <3> QED BY <1>8, <3>1, <3>2
  <2>4. Tokens' \in Nat /\ Tokens \in Nat /\ Tokens' <= Tokens
    <3>1. Tokens' = Count(cmds', KindOps) + dsp'.queue + Count(evts', Rep(Kinds)) + (IF rx.op \in Kinds THEN 1 ELSE 0)
      BY <1>1, <2>1 DEF Tokens
    <3>2. dsp'.queue \in Nat
      BY <1>3
    <3> DEFINE x == IF rx.op \in Kinds THEN 1 ELSE 0
    <3>3. x \in Nat /\ Tokens = Count(cmds, KindOps) + dsp.queue + Count(evts, Rep(Kinds)) + x
      BY DEF Tokens
    <3>4. Tokens' = Count(cmds', KindOps) + dsp'.queue + Count(evts', Rep(Kinds)) + x
      BY <3>1
    <3> HIDE DEF x
    <3>5. Count(cmds', KindOps) + dsp'.queue + Count(evts', Rep(Kinds))
            <= Count(cmds, KindOps) + dsp.queue + Count(evts, Rep(Kinds))
      <4>1. CASE h = "RUN"
        <5>1. dsp'.queue = dsp.queue
          BY <1>3, <1>t, <4>1
        <5> QED BY <1>c, <1>t, <2>2, <2>3, <2>n, <4>1, <5>1
      <4>2. CASE h = "DATA"
        <5>1. dsp'.queue <= dsp.queue + 1
          BY <1>3, <1>t, <4>2
        <5> QED BY <1>c, <1>t, <2>2, <2>3, <2>n, <3>2, <4>2, <5>1
      <4>3. CASE h \notin {"RUN", "DATA"}
        <5>1. dsp'.queue = dsp.queue
          BY <1>3, <1>t, <4>3
        <5> QED BY <1>c, <1>t, <2>3, <2>n, <4>3, <5>1
      <4> QED BY <4>1, <4>2, <4>3
    <3>6. dsp.queue \in Nat
      BY <1>t
    <3>7. Tokens \in Nat /\ Tokens' \in Nat
      BY <2>n, <3>2, <3>3, <3>4, <3>6
    <3>8. Tokens' <= Tokens
      BY <2>n, <3>2, <3>3, <3>4, <3>5, <3>6
    <3> QED BY <3>7, <3>8
  <2> QED BY <1>i, <1>1, <2>4, FewerTokens
<1> QED BY <1>11, <1>14, <1>15, <1>16, <1>17, <1>18, <1>19, <1>20, <1>21, <1>22, <1>23 DEF PcmInv

(* The DSP takes a command. *)
LEMMA DspCommandKeeps == ASSUME PcmInv, DspCommand PROVE PcmInv'
<1>1. cmds # <<>> /\ cmds \in Seq(SyncOps \cup AsyncOps)
  BY DEF DspCommand, PcmInv, PcmTyped
<1>2. Head(cmds) \in SyncOps \cup AsyncOps
  BY <1>1, PcmTail
<1> QED BY <1>2, DspSyncKeeps, DspAsyncKeeps

(* Every step keeps the invariant. *)
LEMMA PcmStep == ASSUME PcmInv, [PcmNext]_pcmVars PROVE PcmInv'
BY PcmUnchanged, PcmOpenKeeps, HwParamsKeeps, PrepareKeeps, TriggersKeep, PcmCloseKeeps, SendCmdKeeps,
   CloseDoneKeeps, UnmapDoneKeeps, MapDoneKeeps, OpenDoneKeeps, FormatDoneKeeps, RxBeginKeeps,
   RxCallbackKeeps, DspCommandKeeps, DspEventsKeep
   DEF PcmNext, Thread, Command, Dsp

(* The buffers in flight are among the tokens. *)
LEMMA PcmTokensBound == ASSUME PcmTyped PROVE InFlight <= Tokens /\ InFlight \in Int /\ Tokens \in Int
<1>t. /\ evts \in Seq(Rep(SyncOps \cup AsyncReplies)) /\ cmds \in Seq(SyncOps \cup AsyncOps)
      /\ dsp.queue \in Nat
  BY DEF PcmTyped
<1>1. Count(cmds, {"DATA"}) <= Count(cmds, KindOps)
  BY <1>t, CountMono DEF KindOps
<1>2. Count(evts, [op : {"DATADONE"}, ok : BOOLEAN]) <= Count(evts, Rep(Kinds))
  <2>1. [op : {"DATADONE"}, ok : BOOLEAN] \subseteq Rep(Kinds)
    BY DEF Rep, Kinds
  <2> QED BY <1>t, <2>1, CountMono
<1>3. /\ Count(cmds, {"DATA"}) \in Nat /\ Count(evts, [op : {"DATADONE"}, ok : BOOLEAN]) \in Nat
      /\ Count(cmds, KindOps) \in Nat /\ Count(evts, Rep(Kinds)) \in Nat
  BY <1>t, PlacesFinite
<1>4. "DATADONE" \in Kinds
  BY DEF Kinds
<1>5. (IF rx.op = "DATADONE" THEN 1 ELSE 0) <= (IF rx.op \in Kinds THEN 1 ELSE 0)
  BY <1>4
<1> DEFINE x == IF rx.op = "DATADONE" THEN 1 ELSE 0
<1> DEFINE y == IF rx.op \in Kinds THEN 1 ELSE 0
<1>6. /\ x \in Nat /\ y \in Nat /\ x <= y
      /\ InFlight = Count(cmds, {"DATA"}) + dsp.queue
                    + Count(evts, [op : {"DATADONE"}, ok : BOOLEAN]) + x
      /\ Tokens = Count(cmds, KindOps) + dsp.queue + Count(evts, Rep(Kinds)) + y
  BY <1>5 DEF InFlight, Tokens
<1> HIDE DEF x, y
<1>7. dsp.queue \in Nat
  BY <1>t
<1>8. InFlight \in Int /\ Tokens \in Int
  BY <1>3, <1>6, <1>7
<1>9. InFlight <= Tokens
  BY <1>1, <1>2, <1>3, <1>6, <1>7
<1> QED BY <1>8, <1>9

(* The invariant implies all that the run checks, but for the index. *)
LEMMA PcmInvSafe ==
    ASSUME PcmInv
    PROVE  /\ PcmTypeOK /\ BuffersLive /\ PreviousSetupCleared
           /\ InFlightBounded /\ PrivLiveUnlessReused
<1>i. PcmTyped /\ DspInv /\ MapInv /\ SetupInv /\ PlaceInv /\ TokenInv
  BY DEF PcmInv
<1>1. PcmTypeOK
  <2>1. ac.refs \in 0 .. 3
    BY <1>i DEF PlaceInv
  <2>2. pc \in DOMAIN Commands \cup {"idle"}
    BY <1>i, PcmCommands DEF PcmTyped, PcmPlaces
  <2> QED BY <1>i, <2>1, <2>2 DEF PcmTyped, PcmTypeOK
<1>2. BuffersLive
  <2>1. rx # None /\ CallsBack /\ privLive /\ Refills => ac.buf # 0
    BY <1>i DEF MapInv, Silent, Refills
  <2> QED BY <1>i, <2>1 DEF BuffersLive, DspInv
<1>3. PreviousSetupCleared
  <2>1. ASSUME ~badFormat, pc = "p_map" PROVE ~dsp.open /\ (sent \/ ~dsp.mapped)
    <3>1. ~dsp.open
      BY <1>i, <2>1 DEF DspInv
    <3>2. ~sent => ac.buf = 0
      BY <1>i, <2>1, <3>1 DEF SetupInv
    <3> QED BY <1>i, <2>1, <3>1, <3>2 DEF MapInv, Unmaps
  <2>2. ASSUME ~badFormat, alsa = "closed" PROVE ~dsp.open /\ ~dsp.mapped
    <3>1. ~client /\ ac.buf = 0 /\ pc = "idle"
      BY <1>i, <2>2 DEF PlaceInv, MapInv
    <3> QED BY <1>i, <2>2, <3>1 DEF DspInv, MapInv, Unmaps
  <2> QED BY <2>1, <2>2 DEF PreviousSetupCleared
<1>4. InFlightBounded
  <2> SUFFICES ASSUME alsa \in {"running", "paused"}
               PROVE  InFlight <= IF dir = "playback" THEN 1 + resumes ELSE ac.buf
    BY DEF InFlightBounded
  <2>1. Tokens <= Allowed
    BY <1>i DEF PlaceInv, TokenInv
  <2>2. resumes \in Nat
    BY <1>i, PcmAssumption DEF PcmTyped
  <2>3. Allowed = IF dir = "playback" THEN 1 + resumes ELSE ac.buf
    BY <2>2 DEF Allowed
  <2>4. InFlight <= Allowed
    BY <1>i, <2>1, PcmTokensBound, AllowedType
  <2> QED BY <2>3, <2>4
<1>5. PrivLiveUnlessReused
  <2>1. ASSUME alsa = "closed", rx # None PROVE ~CallsBack
    <3>1. Silent(rx)
      BY <1>i, <2>1 DEF PlaceInv, MapInv
    <3> QED BY <2>1, <3>1 DEF Silent, CallsBack
  <2> QED BY <1>i, <2>1 DEF PrivLiveUnlessReused, PrivLive, PlaceInv
<1> QED BY <1>1, <1>2, <1>3, <1>4, <1>5

(* The index belongs to every buffer the client may set up. *)
PcmIndex == \A n \in PeriodCounts : ac.next < n

(* With one period count every step keeps it so. *)
LEMMA PcmIndexStep ==
    ASSUME \A a, b \in PeriodCounts : a = b, PcmInv, PcmIndex, [PcmNext]_pcmVars
    PROVE  PcmIndex'
<1>t. /\ ac \in [refs : Nat, buf : PeriodCounts \cup {0}, next : Nat,
                 result : Rep(SyncOps \cup AsyncReplies) \cup {None}]
      /\ hw \in PeriodCounts \cup {0} /\ (\A n \in PeriodCounts : n \in Nat \ {0})
      /\ dsp.open \in BOOLEAN
  BY PcmAssumption DEF PcmInv, PcmTyped
<1>a. ASSUME NEW k \in Nat, ac.buf # 0, ac'.next = After(ac.next, k) PROVE PcmIndex'
  <2>1. ac.buf \in PeriodCounts
    BY <1>t, <1>a
  <2>2. ac'.next < ac.buf
    BY <1>t, <1>a, <2>1, AfterIs
  <2> QED BY <2>1, <2>2 DEF PcmIndex
<1>b. ASSUME ac'.next = ac.next PROVE PcmIndex'
  BY <1>b DEF PcmIndex
<1>c. ASSUME ac'.next = 0 PROVE PcmIndex'
  BY <1>t, <1>c DEF PcmIndex
<1>1. CASE Open
  <2>1. CASE ac.refs = 0
    BY <1>1, <1>c, <2>1 DEF Open
  <2>2. CASE ac.refs # 0
    <3>1. ac' = [ac EXCEPT !.refs = @ + 1]
      BY <1>1, <2>2 DEF Open
    <3> QED BY <1>b, <1>t, <3>1
  <2> QED BY <2>1, <2>2
<1>2. CASE FormatDone
  <2>1. CASE dir = "capture"
    <3>1. ac.buf # 0 /\ hw \in Nat
      BY <1>2, <1>t DEF FormatDone, PcmInv, MapInv
    <3>2. ac' = [ac EXCEPT !.next = After(@, hw)]
      BY <1>2, <2>1 DEF FormatDone
    <3>3. ac'.next = After(ac.next, hw)
      BY <1>t, <3>2
    <3> QED BY <1>a, <3>1, <3>3
  <2>2. CASE dir # "capture"
    BY <1>2, <1>b, <2>2 DEF FormatDone
  <2> QED BY <2>1, <2>2
<1>3. CASE RxCallback
  <2>1. CASE CallsBack /\ privLive /\ Refills
    <3>1. ac.buf # 0
      BY <1>3, <2>1, PcmInvSafe DEF RxCallback, BuffersLive
    <3>2. ac' = [ac EXCEPT !.refs = @ - 1, !.next = After(@, 1)]
      BY <1>3, <2>1 DEF RxCallback
    <3>3. ac'.next = After(ac.next, 1)
      BY <1>t, <3>2
    <3> QED BY <1>a, <3>1, <3>3
  <2>2. CASE ~(CallsBack /\ privLive /\ Refills)
    <3>1. ac' = [ac EXCEPT !.refs = @ - 1]
      BY <1>3, <2>2 DEF RxCallback, PutClient
    <3> QED BY <1>b, <1>t, <3>1
  <2> QED BY <2>1, <2>2
<1>4. CASE SendCmd
  <2>1. ac' = [ac EXCEPT !.result = None, !.buf = IF pc = "p_map" THEN hw ELSE @]
    BY <1>4 DEF SendCmd
  <2> QED BY <1>b, <1>t, <2>1
<1>5. CASE UnmapDone
  <2>1. ac'.next = ac.next
    BY <1>5, <1>t DEF UnmapDone
  <2> QED BY <1>b, <2>1
<1>6. CASE MapDone
  <2>1. ac'.next = ac.next
    BY <1>6, <1>t DEF MapDone
  <2> QED BY <1>b, <2>1
<1>7. CASE RxBegin
  <2>1. ac'.next = ac.next
    BY <1>7, <1>t DEF RxBegin
  <2> QED BY <1>b, <2>1
<1>8. CASE UNCHANGED ac
  BY <1>b, <1>8
<1>9. ASSUME HwParams \/ Prepare \/ Start \/ Pause \/ PauseRelease \/ Stop \/ Close \/ CloseDone
             \/ OpenDone \/ Dsp \/ UNCHANGED pcmVars
      PROVE  UNCHANGED ac
  BY <1>9 DEF HwParams, Prepare, Start, Pause, PauseRelease, Stop, Close, CloseDone, OpenDone, Dsp,
              DspCommand, DspPlays, DspRendersEos, acVars, pcmVars
<1> QED BY <1>1, <1>2, <1>3, <1>4, <1>5, <1>6, <1>7, <1>8, <1>9 DEF PcmNext, Thread, Command

(* One PCM through every order of calls, replies and events, for every set of     *)
(* period counts: a refill finds its buffers, the DSP never holds a buffer whose  *)
(* memory is gone and finds the previous setup cleared (unless it refused a       *)
(* format), the buffers in flight are one plus the pause releases for a playback  *)
(* and all periods for a capture, and no callback runs with the data of a closed  *)
(* substream unless its client was handed out again.                              *)
THEOREM PcmSafeButIndex ==
    PcmSpec => [](PcmTypeOK /\ BuffersLive /\ PreviousSetupCleared /\ InFlightBounded
                  /\ PrivLiveUnlessReused)
<1>1. PcmInit => PcmInv
  BY PcmStart
<1>2. PcmInv /\ [PcmNext]_pcmVars => PcmInv'
  BY PcmStep
<1>3. PcmInv => PcmTypeOK /\ BuffersLive /\ PreviousSetupCleared /\ InFlightBounded
                /\ PrivLiveUnlessReused
  BY PcmInvSafe
<1> QED BY <1>1, <1>2, <1>3, PTL DEF PcmSpec

(* All of it together with the index of the next period, which q6asm never        *)
(* resets: it is within the buffers where every setup has the same number of      *)
(* periods.                                                                       *)
THEOREM PcmIsSafe == ASSUME \A a, b \in PeriodCounts : a = b PROVE PcmSpec => []PcmSafe
<1>1. PcmInit => PcmInv /\ PcmIndex
  <2>1. PcmInit => PcmIndex
    BY PcmAssumption DEF PcmInit, PcmIndex
  <2> QED BY <2>1, PcmStart
<1>2. PcmInv /\ PcmIndex /\ [PcmNext]_pcmVars => PcmInv' /\ PcmIndex'
  BY PcmStep, PcmIndexStep
<1>3. PcmInv /\ PcmIndex => PcmSafe
  <2> SUFFICES ASSUME PcmInv, PcmIndex PROVE PcmSafe
    OBVIOUS
  <2>1. ac.buf \in PeriodCounts \cup {0}
    BY DEF PcmInv, PcmTyped
  <2>2. IndexInBuffer
    BY <2>1, PcmInvSafe DEF IndexInBuffer, BuffersLive, PcmIndex
  <2> QED BY <2>2, PcmInvSafe DEF PcmSafe
<1> QED BY <1>1, <1>2, <1>3, PTL DEF PcmSpec
=============================================================================
