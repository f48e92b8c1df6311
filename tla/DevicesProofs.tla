--------------------------- MODULE DevicesProofs ---------------------------
(***************************************************************************)
(* The safety of the devices behind the audio stack, for every value of    *)
(* their constants: the codec's output paths, microphone bias and ADCs,    *)
(* and the proximity sensor.  A part's Inv is its inductive invariant: it  *)
(* says what the shared registers and counters are at every point of a     *)
(* handler, not only when all is at rest.  The last theorem puts the parts *)
(* together under the specification that the run of MCCodec checks.        *)
(***************************************************************************)
EXTENDS MCCodec, Integers, FiniteSetTheorems, TLAPS

-----------------------------------------------------------------------------
(* Output paths                                                            *)

Regs ==
    [earPath : {"hphl", "aux"}, fed : SUBSET Feeds, wd : SUBSET Feeds, depth : [Feeds -> Nat],
     clsh : SUBSET Paths, flyback : Nat, curDet : BOOLEAN, ldohEn : BOOLEAN, bypass : BOOLEAN,
     delay : BOOLEAN, rxclk : BOOLEAN]

(* The walk leads from the paths that were powered to those of the goal; the *)
(* update, the ninth step, is where they change over.                        *)
OutTypes ==
    /\ codecRegs \in Regs /\ wired \subseteq Paths /\ earMux \in {"hphl", "aux"}
    /\ ldoh \in BOOLEAN /\ lowPower \in BOOLEAN
    /\ powered \subseteq Paths /\ goal \subseteq Paths
    /\ walk \in [at : 0 .. 17, down : SUBSET Paths, up : SUBSET Paths]
    /\ walk.at = 0 => walk = AtRest /\ goal = powered
    /\ walk.at # 0 => walk.down \cup walk.up # {}
    /\ walk.at \in 1 .. 9 => walk.down = powered \ goal /\ walk.up = goal \ powered
    /\ walk.at \in 10 .. 17 => powered = goal /\ walk.up \subseteq goal /\ walk.down \cap goal = {}

(* A path is in use from the step u that takes it up to the step d that      *)
(* takes it down: which paths that is, wherever the walk is.                 *)
InUse(p, d, u) ==
    IF walk.at <= d THEN p \in powered
    ELSE IF walk.at <= u THEN p \in goal \ walk.up
    ELSE p \in goal

Num(b) == IF b THEN 1 ELSE 0

FlybackInStep ==
    /\ codecRegs.flyback = Num(InUse("ear", 4, 11)) + Num(InUse("aux", 6, 11))
    /\ codecRegs.curDet <=> codecRegs.flyback = 0

ClassHInStep ==
    /\ \A p \in Hph : p \in codecRegs.clsh <=> InUse(p, 2, 12)
    /\ "ear" \in codecRegs.clsh <=> InUse("ear", 4, 11)
    /\ "aux" \in codecRegs.clsh <=> InUse("aux", 6, 11)

RxclkInStep ==
    codecRegs.rxclk <=>
      IF walk.at <= 8 THEN powered # {}
      ELSE IF walk.at = 9 THEN powered # {} /\ goal # {}
      ELSE IF walk.at = 10 THEN goal # {} /\ ~(walk.down = {} /\ walk.up = goal)
      ELSE goal # {}

(* The earpiece and the path of its feed are not in use together, but for    *)
(* feeds that were shared.                                                   *)
FeedsApart ==
    \A f \in Feeds \ shared :
      /\ "ear" \in powered /\ f \in powered /\ walk.at <= 9 => codecRegs.earPath # f
      /\ "ear" \in goal /\ f \in goal /\ walk.at >= 1 => codecRegs.earPath # f
      /\ "ear" \in goal /\ f \in goal /\ walk.at >= 10 => earMux # f

EarInStep == "ear" \in walk.up /\ walk.at > 11 => codecRegs.earPath = earMux

(* A feed that was not shared is watched, its interrupt is on and it is fed  *)
(* from the step that starts it to the one that ends it, for the one path    *)
(* that uses it.                                                             *)
WatchInStep ==
    \A f \in Feeds \ shared :
      f \in codecRegs.wd <=>
        \/ InUse(f, IF f = "aux" THEN 6 ELSE 2, IF f = "aux" THEN 16 ELSE 12)
        \/ InUse("ear", 4, 14) /\ codecRegs.earPath = f

DepthInStep ==
    \A f \in Feeds \ shared :
      codecRegs.depth[f] =
        IF \/ InUse(f, IF f = "aux" THEN 5 ELSE 1, IF f = "aux" THEN 17 ELSE 13)
           \/ InUse("ear", 3, 15) /\ codecRegs.earPath = f
        THEN 0 ELSE 1

FedInStep ==
    \A f \in Feeds \ shared :
      InUse(f, 6, 11) \/ (InUse("ear", 7, 11) /\ codecRegs.earPath = f) => f \in codecRegs.fed

(* The delay bit is up between the two halves of a headphone step, the       *)
(* filter is bypassed only there, and LDOH is on for headphones in use.      *)
HphInStep ==
    /\ codecRegs.delay <=> \/ walk.at = 2 /\ walk.down \cap Hph # {}
                           \/ walk.at = 13 /\ walk.up \cap Hph # {}
    /\ codecRegs.bypass /\ "mode" \notin moved => walk.at = 13 /\ walk.up \cap Hph # {} /\ lowPower
    /\ codecRegs.ldohEn /\ "ldoh" \notin moved => ldoh /\ \E p \in Hph : InUse(p, 2, 12)

OutInv ==
    /\ OutTypes /\ FlybackInStep /\ ClassHInStep /\ RxclkInStep /\ FeedsApart /\ EarInStep
    /\ WatchInStep /\ DepthInStep /\ FedInStep /\ HphInStep

\* The steps of the walk.
LEMMA WalkLines ==
    /\ Len(DapmWalk) = 17
    /\ DapmWalk[1] = [ev |-> "paPreDown", of |-> Hph] /\ DapmWalk[2] = [ev |-> "paPostDown", of |-> Hph]
    /\ DapmWalk[3] = [ev |-> "paPreDown", of |-> {"ear"}] /\ DapmWalk[4] = [ev |-> "paPostDown", of |-> {"ear"}]
    /\ DapmWalk[5] = [ev |-> "paPreDown", of |-> {"aux"}] /\ DapmWalk[6] = [ev |-> "paPostDown", of |-> {"aux"}]
    /\ DapmWalk[7] = [ev |-> "dacPostDown", of |-> Paths] /\ DapmWalk[8] = [ev |-> "rxclkOff", of |-> Paths]
    /\ DapmWalk[9] = [ev |-> "update", of |-> Paths] /\ DapmWalk[10] = [ev |-> "rxclkOn", of |-> Paths]
    /\ DapmWalk[11] = [ev |-> "dacPreUp", of |-> Paths]
    /\ DapmWalk[12] = [ev |-> "paPreUp", of |-> Hph] /\ DapmWalk[13] = [ev |-> "paPostUp", of |-> Hph]
    /\ DapmWalk[14] = [ev |-> "paPreUp", of |-> {"ear"}] /\ DapmWalk[15] = [ev |-> "paPostUp", of |-> {"ear"}]
    /\ DapmWalk[16] = [ev |-> "paPreUp", of |-> {"aux"}] /\ DapmWalk[17] = [ev |-> "paPostUp", of |-> {"aux"}]
BY DEF DapmWalk

\* enable_irq() of a watchdog interrupt lowers its depth, never below zero.
LEMMA EnableWdIrqFields ==
    ASSUME NEW h \in Regs, NEW f \in Feeds, NEW g, g = EnableWdIrq(h, f)
    PROVE  /\ g \in Regs
           /\ \A d \in Feeds : g.depth[d] = IF d = f /\ h.depth[d] > 0 THEN h.depth[d] - 1 ELSE h.depth[d]
           /\ g.earPath = h.earPath /\ g.fed = h.fed /\ g.wd = h.wd /\ g.clsh = h.clsh
           /\ g.flyback = h.flyback /\ (g.curDet <=> h.curDet) /\ (g.ldohEn <=> h.ldohEn)
           /\ (g.bypass <=> h.bypass) /\ (g.delay <=> h.delay) /\ (g.rxclk <=> h.rxclk)
BY DEF EnableWdIrq, Regs

\* disable_irq() raises it.
LEMMA DisableWdIrqFields ==
    ASSUME NEW h \in Regs, NEW f \in Feeds, NEW g, g = DisableWdIrq(h, f)
    PROVE  /\ g \in Regs
           /\ \A d \in Feeds : g.depth[d] = IF d = f THEN h.depth[d] + 1 ELSE h.depth[d]
           /\ g.earPath = h.earPath /\ g.fed = h.fed /\ g.wd = h.wd /\ g.clsh = h.clsh
           /\ g.flyback = h.flyback /\ (g.curDet <=> h.curDet) /\ (g.ldohEn <=> h.ldohEn)
           /\ (g.bypass <=> h.bypass) /\ (g.delay <=> h.delay) /\ (g.rxclk <=> h.rxclk)
BY DEF DisableWdIrq, Regs

\* A user more of the flyback converter: the detector is off.
LEMMA FlybackGetFields ==
    ASSUME NEW h \in Regs, NEW g, g = FlybackGet(h), h.curDet <=> h.flyback = 0
    PROVE  /\ g \in Regs
           /\ g.flyback = h.flyback + 1
           /\ g.curDet <=> g.flyback = 0
           /\ g.earPath = h.earPath /\ g.fed = h.fed /\ g.wd = h.wd /\ g.depth = h.depth
           /\ g.clsh = h.clsh /\ (g.ldohEn <=> h.ldohEn) /\ (g.bypass <=> h.bypass)
           /\ (g.delay <=> h.delay) /\ (g.rxclk <=> h.rxclk)
<1>1. CASE h.flyback = 0
  <2>1. g = [h EXCEPT !.flyback = h.flyback + 1, !.curDet = FALSE]
    BY <1>1 DEF FlybackGet
  <2>2. h.flyback \in Nat /\ h.flyback + 1 \in Nat
    BY DEF Regs
  <2>3. g \in Regs /\ g.flyback = h.flyback + 1 /\ g.curDet = FALSE
    BY <2>1, <2>2 DEF Regs
  <2>4. h.flyback + 1 = 0 <=> FALSE
    BY <1>1, <2>2
  <2>5. g.curDet <=> g.flyback = 0
    BY <2>3, <2>4
  <2> QED BY <2>1, <2>3, <2>5 DEF Regs
<1>2. CASE h.flyback # 0
  <2>1. g = [h EXCEPT !.flyback = h.flyback + 1, !.curDet = h.curDet]
    BY <1>2 DEF FlybackGet
  <2>2. h.flyback \in Nat /\ h.flyback + 1 \in Nat
    BY DEF Regs
  <2>3. g \in Regs /\ g.flyback = h.flyback + 1 /\ (g.curDet <=> h.curDet)
    BY <2>1, <2>2 DEF Regs
  <2>4. h.flyback + 1 # 0 /\ h.flyback # 0
    BY <1>2, <2>2
  <2>5. g.curDet <=> g.flyback = 0
    BY <2>3, <2>4
  <2> QED BY <2>1, <2>3, <2>5 DEF Regs
<1> QED BY <1>1, <1>2

\* A user less, of at least one: it is on again after the last.
LEMMA FlybackPutFields ==
    ASSUME NEW h \in Regs, NEW g, g = FlybackPut(h), h.curDet <=> h.flyback = 0, h.flyback >= 1
    PROVE  /\ g \in Regs
           /\ g.flyback = h.flyback - 1
           /\ g.curDet <=> g.flyback = 0
           /\ g.earPath = h.earPath /\ g.fed = h.fed /\ g.wd = h.wd /\ g.depth = h.depth
           /\ g.clsh = h.clsh /\ (g.ldohEn <=> h.ldohEn) /\ (g.bypass <=> h.bypass)
           /\ (g.delay <=> h.delay) /\ (g.rxclk <=> h.rxclk)
<1>1. CASE h.flyback = 1
  <2>1. g = [h EXCEPT !.flyback = h.flyback - 1, !.curDet = TRUE]
    BY <1>1 DEF FlybackPut
  <2>2. h.flyback \in Nat /\ h.flyback - 1 \in Nat
    BY DEF Regs
  <2>3. g \in Regs /\ g.flyback = h.flyback - 1 /\ g.curDet = TRUE
    BY <2>1, <2>2 DEF Regs
  <2>4. h.flyback - 1 = 0 <=> TRUE
    BY <1>1, <2>2
  <2>5. g.curDet <=> g.flyback = 0
    BY <2>3, <2>4
  <2> QED BY <2>1, <2>3, <2>5 DEF Regs
<1>2. CASE h.flyback # 1
  <2>1. g = [h EXCEPT !.flyback = h.flyback - 1, !.curDet = h.curDet]
    BY <1>2 DEF FlybackPut
  <2>2. h.flyback \in Nat /\ h.flyback - 1 \in Nat
    BY DEF Regs
  <2>3. g \in Regs /\ g.flyback = h.flyback - 1 /\ (g.curDet <=> h.curDet)
    BY <2>1, <2>2 DEF Regs
  <2>4. h.flyback - 1 # 0 /\ h.flyback # 0
    BY <1>2, <2>2
  <2>5. g.curDet <=> g.flyback = 0
    BY <2>3, <2>4
  <2> QED BY <2>1, <2>3, <2>5 DEF Regs
<1> QED BY <1>1, <1>2

\* A step without a path to handle changes nothing ...
LEMMA OfNone == ASSUME NEW h, NEW ev PROVE HandleEvents(h, ev, {}) = h
BY DEF HandleEvents

\* ... one with one path is that path's handler ...
LEMMA OfOne == ASSUME NEW h, NEW ev, NEW p \in Paths PROVE HandleEvents(h, ev, {p}) = HandleEvent(h, ev, p)
<1>1. CASE p = "hphl"
  BY <1>1 DEF HandleEvents
<1>2. CASE p = "hphr"
  BY <1>2 DEF HandleEvents
<1>3. CASE p = "ear"
  BY <1>3 DEF HandleEvents
<1>4. CASE p = "aux"
  BY <1>4 DEF HandleEvents
<1> QED BY <1>1, <1>2, <1>3, <1>4 DEF Paths

\* ... and both headphone channels are handled left before right.
LEMMA OfBoth ==
    ASSUME NEW h, NEW ev
    PROVE  HandleEvents(h, ev, {"hphl", "hphr"}) = HandleEvent(HandleEvent(h, ev, "hphl"), ev, "hphr")
BY DEF HandleEvents

\* SND_SOC_DAPM_PRE_PMD of one headphone amplifier.
LEMMA HphPreDownOne ==
    ASSUME NEW h \in Regs, earMux \in {"hphl", "aux"}, ldoh \in BOOLEAN, lowPower \in BOOLEAN,
           NEW p \in Hph, NEW g, g = HandleEvent(h, "paPreDown", p)
    PROVE  /\ g \in Regs
           /\ \A f \in Feeds : g.depth[f] = IF f = p THEN h.depth[f] + 1 ELSE h.depth[f]
           /\ g.delay <=> TRUE
           /\ g.earPath = h.earPath /\ g.fed = h.fed /\ g.wd = h.wd /\ g.clsh = h.clsh
           /\ g.flyback = h.flyback /\ (g.curDet <=> h.curDet) /\ (g.ldohEn <=> h.ldohEn)
           /\ (g.bypass <=> h.bypass) /\ (g.rxclk <=> h.rxclk)
<1> DEFINE m == DisableWdIrq(h, p)
<1>1. p \in Feeds /\ g = [m EXCEPT !.delay = TRUE]
  BY DEF HandleEvent, PaPreDown, Feed, Hph, Feeds
<1> HIDE DEF m
<1>2. /\ m \in Regs /\ (\A f \in Feeds : m.depth[f] = IF f = p THEN h.depth[f] + 1 ELSE h.depth[f])
      /\ m.earPath = h.earPath /\ m.fed = h.fed /\ m.wd = h.wd /\ m.clsh = h.clsh /\ m.flyback = h.flyback
      /\ (m.curDet <=> h.curDet) /\ (m.ldohEn <=> h.ldohEn) /\ (m.bypass <=> h.bypass) /\ (m.rxclk <=> h.rxclk)
  BY <1>1, DisableWdIrqFields DEF m
<1> QED BY <1>1, <1>2 DEF Regs

\* SND_SOC_DAPM_PRE_PMD of the headphone amplifiers of ps, left before right.
LEMMA HphPreDown ==
    ASSUME NEW h \in Regs, earMux \in {"hphl", "aux"}, ldoh \in BOOLEAN, lowPower \in BOOLEAN,
           NEW ps \in SUBSET Hph, NEW g, g = HandleEvents(h, "paPreDown", ps)
    PROVE  /\ g \in Regs
           /\ \A f \in Feeds : g.depth[f] = IF f \in ps THEN h.depth[f] + 1 ELSE h.depth[f]
           /\ g.delay <=> h.delay \/ ps # {}
           /\ g.earPath = h.earPath /\ g.fed = h.fed /\ g.wd = h.wd /\ g.clsh = h.clsh
           /\ g.flyback = h.flyback /\ (g.curDet <=> h.curDet) /\ (g.ldohEn <=> h.ldohEn)
           /\ (g.bypass <=> h.bypass) /\ (g.rxclk <=> h.rxclk)
<1>1. CASE ps = {}
  BY <1>1, OfNone DEF Regs
<1>2. ASSUME NEW p \in Hph, ps = {p} PROVE g = HandleEvent(h, "paPreDown", p)
  BY <1>2, OfOne DEF Hph, Paths
<1>3. CASE \E p \in Hph : ps = {p}
  <2>1. PICK p \in Hph : ps = {p}
    BY <1>3
  <2>2. g = HandleEvent(h, "paPreDown", p) /\ ps # {} /\ (\A f : f \in ps <=> f = p)
    BY <1>2, <2>1
  <2>3. /\ g \in Regs
        /\ \A f \in Feeds : g.depth[f] = IF f = p THEN h.depth[f] + 1 ELSE h.depth[f]
        /\ g.delay <=> TRUE
        /\ g.earPath = h.earPath /\ g.fed = h.fed /\ g.wd = h.wd /\ g.clsh = h.clsh
        /\ g.flyback = h.flyback /\ (g.curDet <=> h.curDet) /\ (g.ldohEn <=> h.ldohEn)
        /\ (g.bypass <=> h.bypass) /\ (g.rxclk <=> h.rxclk)
    BY <2>2, HphPreDownOne
  <2> QED BY <2>1, <2>2, <2>3
<1>4. CASE ps = {"hphl", "hphr"}
  <2> DEFINE m == HandleEvent(h, "paPreDown", "hphl")
  <2>1. g = HandleEvent(m, "paPreDown", "hphr")
    BY <1>4, OfBoth
  <2> HIDE DEF m
  <2>2. m \in Regs
    BY HphPreDownOne DEF Hph, m
  <2> QED BY <1>4, <2>1, <2>2, HphPreDownOne DEF m, Hph, Feeds, Regs
<1> QED BY <1>1, <1>3, <1>4 DEF Hph

\* SND_SOC_DAPM_POST_PMD of one headphone amplifier.
LEMMA HphPostDownOne ==
    ASSUME NEW h \in Regs, earMux \in {"hphl", "aux"}, ldoh \in BOOLEAN, lowPower \in BOOLEAN,
           NEW p \in Hph, NEW g, g = HandleEvent(h, "paPostDown", p)
    PROVE  /\ g \in Regs
           /\ g.wd = h.wd \ {p}
           /\ g.clsh = h.clsh \ {p}
           /\ g.delay <=> FALSE
           /\ g.ldohEn <=> h.ldohEn /\ ~ldoh
           /\ g.earPath = h.earPath /\ g.fed = h.fed /\ g.depth = h.depth /\ g.flyback = h.flyback
           /\ (g.curDet <=> h.curDet) /\ (g.bypass <=> h.bypass) /\ (g.rxclk <=> h.rxclk)
<1>1. g = HphPaPostDown(h, p)
  BY DEF HandleEvent, PaPostDown, Hph
<1>a. h.wd \ {p} \in SUBSET Feeds /\ h.clsh \ {p} \in SUBSET Paths /\ (h.ldohEn /\ ~ldoh) \in BOOLEAN
  BY DEF Regs
<1>2. g \in Regs
  BY <1>1, <1>a DEF HphPaPostDown, Regs
<1> QED BY <1>1, <1>2 DEF HphPaPostDown, Regs

\* SND_SOC_DAPM_POST_PMD of the headphone amplifiers of ps, left before right.
LEMMA HphPostDown ==
    ASSUME NEW h \in Regs, earMux \in {"hphl", "aux"}, ldoh \in BOOLEAN, lowPower \in BOOLEAN,
           NEW ps \in SUBSET Hph, NEW g, g = HandleEvents(h, "paPostDown", ps)
    PROVE  /\ g \in Regs
           /\ g.wd = h.wd \ ps
           /\ g.clsh = h.clsh \ ps
           /\ g.delay <=> h.delay /\ ps = {}
           /\ g.ldohEn <=> h.ldohEn /\ ~(ldoh /\ ps # {})
           /\ g.earPath = h.earPath /\ g.fed = h.fed /\ g.depth = h.depth /\ g.flyback = h.flyback
           /\ (g.curDet <=> h.curDet) /\ (g.bypass <=> h.bypass) /\ (g.rxclk <=> h.rxclk)
<1>1. CASE ps = {}
  BY <1>1, OfNone DEF Regs
<1>2. ASSUME NEW p \in Hph, ps = {p} PROVE g = HandleEvent(h, "paPostDown", p)
  BY <1>2, OfOne DEF Hph, Paths
<1>3. CASE \E p \in Hph : ps = {p}
  <2>1. PICK p \in Hph : ps = {p}
    BY <1>3
  <2>2. g = HandleEvent(h, "paPostDown", p) /\ ps # {} /\ (\A f : f \in ps <=> f = p)
    BY <1>2, <2>1
  <2>3. /\ g \in Regs
        /\ g.wd = h.wd \ {p}
        /\ g.clsh = h.clsh \ {p}
        /\ g.delay <=> FALSE
        /\ g.ldohEn <=> h.ldohEn /\ ~ldoh
        /\ g.earPath = h.earPath /\ g.fed = h.fed /\ g.depth = h.depth /\ g.flyback = h.flyback
        /\ (g.curDet <=> h.curDet) /\ (g.bypass <=> h.bypass) /\ (g.rxclk <=> h.rxclk)
    BY <2>2, HphPostDownOne
  <2> QED BY <2>1, <2>2, <2>3
<1>4. CASE ps = {"hphl", "hphr"}
  <2> DEFINE m == HandleEvent(h, "paPostDown", "hphl")
  <2>1. g = HandleEvent(m, "paPostDown", "hphr")
    BY <1>4, OfBoth
  <2> HIDE DEF m
  <2>2. m \in Regs
    BY HphPostDownOne DEF Hph, m
  <2> QED BY <1>4, <2>1, <2>2, HphPostDownOne DEF m, Hph, Feeds, Regs
<1> QED BY <1>1, <1>3, <1>4 DEF Hph

\* SND_SOC_DAPM_PRE_PMD of the earpiece amplifier, if it is handled.
LEMMA EarPreDown ==
    ASSUME NEW h \in Regs, earMux \in {"hphl", "aux"}, ldoh \in BOOLEAN, lowPower \in BOOLEAN,
           NEW ps \in SUBSET {"ear"}, NEW g, g = HandleEvents(h, "paPreDown", ps)
    PROVE  /\ g \in Regs
           /\ \A f \in Feeds : g.depth[f] = IF ps # {} /\ f = h.earPath THEN h.depth[f] + 1 ELSE h.depth[f]
           /\ g.earPath = h.earPath /\ g.fed = h.fed /\ g.wd = h.wd /\ g.clsh = h.clsh
           /\ g.flyback = h.flyback /\ (g.curDet <=> h.curDet) /\ (g.ldohEn <=> h.ldohEn)
           /\ (g.bypass <=> h.bypass) /\ (g.delay <=> h.delay) /\ (g.rxclk <=> h.rxclk)
<1>1. CASE ps = {}
  BY <1>1, OfNone DEF Regs
<1>2. CASE ps = {"ear"}
  <2>1. g = HandleEvent(h, "paPreDown", "ear")
    BY <1>2, OfOne DEF Paths
  <2>2. h.earPath \in Feeds /\ g = DisableWdIrq(h, h.earPath)
    BY <2>1 DEF HandleEvent, PaPreDown, Feed, Hph, Feeds, Regs
  <2> QED BY <1>2, <2>2, DisableWdIrqFields
<1> QED BY <1>1, <1>2

\* SND_SOC_DAPM_POST_PMD of the earpiece amplifier, if it is handled.
LEMMA EarPostDown ==
    ASSUME NEW h \in Regs, earMux \in {"hphl", "aux"}, ldoh \in BOOLEAN, lowPower \in BOOLEAN,
           NEW ps \in SUBSET {"ear"}, NEW g, g = HandleEvents(h, "paPostDown", ps),
           h.curDet <=> h.flyback = 0,
           ps # {} => h.flyback >= 1
    PROVE  /\ g \in Regs
           /\ g.wd = IF ps = {} THEN h.wd ELSE h.wd \ {h.earPath}
           /\ g.clsh = h.clsh \ ps
           /\ g.flyback = IF ps = {} THEN h.flyback ELSE h.flyback - 1
           /\ g.curDet <=> g.flyback = 0
           /\ g.earPath = h.earPath /\ g.fed = h.fed /\ g.depth = h.depth /\ (g.ldohEn <=> h.ldohEn)
           /\ (g.bypass <=> h.bypass) /\ (g.delay <=> h.delay) /\ (g.rxclk <=> h.rxclk)
<1>1. CASE ps = {}
  BY <1>1, OfNone DEF Regs
<1>2. CASE ps = {"ear"}
  <2>1. g = HandleEvent(h, "paPostDown", "ear")
    BY <1>2, OfOne DEF Paths
  <2> DEFINE m == [h EXCEPT !.wd = @ \ {h.earPath}, !.clsh = @ \ {"ear"}]
  <2>2. g = FlybackPut(m)
    BY <2>1 DEF HandleEvent, PaPostDown, EarPaPostDown, Hph
  <2>3. /\ m \in Regs /\ m.wd = h.wd \ {h.earPath} /\ m.clsh = h.clsh \ {"ear"} /\ m.earPath = h.earPath /\ m.fed = h.fed
        /\ m.depth = h.depth /\ m.flyback = h.flyback /\ (m.curDet <=> h.curDet) /\ (m.ldohEn <=> h.ldohEn)
        /\ (m.bypass <=> h.bypass) /\ (m.delay <=> h.delay) /\ (m.rxclk <=> h.rxclk)
    BY DEF Regs
  <2> HIDE DEF m
  <2>4. ps # {}
    BY <1>2
  <2>5. /\ g \in Regs /\ g.wd = m.wd /\ g.clsh = m.clsh /\ g.earPath = h.earPath /\ g.fed = h.fed
        /\ g.depth = h.depth /\ g.flyback = h.flyback - 1 /\ (g.curDet <=> g.flyback = 0) /\ (g.ldohEn <=> h.ldohEn)
        /\ (g.bypass <=> h.bypass) /\ (g.delay <=> h.delay) /\ (g.rxclk <=> h.rxclk)
    BY <2>2, <2>3, <2>4, FlybackPutFields
  <2> QED BY <1>2, <2>3, <2>4, <2>5
<1> QED BY <1>1, <1>2

\* SND_SOC_DAPM_PRE_PMD of the auxiliary amplifier, if it is handled.
LEMMA AuxPreDown ==
    ASSUME NEW h \in Regs, earMux \in {"hphl", "aux"}, ldoh \in BOOLEAN, lowPower \in BOOLEAN,
           NEW ps \in SUBSET {"aux"}, NEW g, g = HandleEvents(h, "paPreDown", ps)
    PROVE  /\ g \in Regs
           /\ \A f \in Feeds : g.depth[f] = IF f \in ps THEN h.depth[f] + 1 ELSE h.depth[f]
           /\ g.earPath = h.earPath /\ g.fed = h.fed /\ g.wd = h.wd /\ g.clsh = h.clsh
           /\ g.flyback = h.flyback /\ (g.curDet <=> h.curDet) /\ (g.ldohEn <=> h.ldohEn)
           /\ (g.bypass <=> h.bypass) /\ (g.delay <=> h.delay) /\ (g.rxclk <=> h.rxclk)
<1>1. CASE ps = {}
  BY <1>1, OfNone DEF Regs
<1>2. CASE ps = {"aux"}
  <2>1. g = HandleEvent(h, "paPreDown", "aux")
    BY <1>2, OfOne DEF Paths
  <2>2. "aux" \in Feeds /\ g = DisableWdIrq(h, "aux")
    BY <2>1 DEF HandleEvent, PaPreDown, Feed, Hph, Feeds, Regs
  <2> QED BY <1>2, <2>2, DisableWdIrqFields
<1> QED BY <1>1, <1>2

\* SND_SOC_DAPM_POST_PMD of the auxiliary amplifier, if it is handled.
LEMMA AuxPostDown ==
    ASSUME NEW h \in Regs, earMux \in {"hphl", "aux"}, ldoh \in BOOLEAN, lowPower \in BOOLEAN,
           NEW ps \in SUBSET {"aux"}, NEW g, g = HandleEvents(h, "paPostDown", ps),
           h.curDet <=> h.flyback = 0,
           ps # {} => h.flyback >= 1
    PROVE  /\ g \in Regs
           /\ g.wd = h.wd \ ps
           /\ g.clsh = h.clsh \ ps
           /\ g.flyback = IF ps = {} THEN h.flyback ELSE h.flyback - 1
           /\ g.curDet <=> g.flyback = 0
           /\ g.earPath = h.earPath /\ g.fed = h.fed /\ g.depth = h.depth /\ (g.ldohEn <=> h.ldohEn)
           /\ (g.bypass <=> h.bypass) /\ (g.delay <=> h.delay) /\ (g.rxclk <=> h.rxclk)
<1>1. CASE ps = {}
  BY <1>1, OfNone DEF Regs
<1>2. CASE ps = {"aux"}
  <2>1. g = HandleEvent(h, "paPostDown", "aux")
    BY <1>2, OfOne DEF Paths
  <2> DEFINE m == [h EXCEPT !.wd = @ \ {"aux"}, !.clsh = @ \ {"aux"}]
  <2>2. g = FlybackPut(m)
    BY <2>1 DEF HandleEvent, PaPostDown, AuxPaPostDown, Hph
  <2>3. /\ m \in Regs /\ m.wd = h.wd \ {"aux"} /\ m.clsh = h.clsh \ {"aux"} /\ m.earPath = h.earPath /\ m.fed = h.fed
        /\ m.depth = h.depth /\ m.flyback = h.flyback /\ (m.curDet <=> h.curDet) /\ (m.ldohEn <=> h.ldohEn)
        /\ (m.bypass <=> h.bypass) /\ (m.delay <=> h.delay) /\ (m.rxclk <=> h.rxclk)
    BY DEF Regs
  <2> HIDE DEF m
  <2>4. ps # {}
    BY <1>2
  <2>5. /\ g \in Regs /\ g.wd = m.wd /\ g.clsh = m.clsh /\ g.earPath = h.earPath /\ g.fed = h.fed
        /\ g.depth = h.depth /\ g.flyback = h.flyback - 1 /\ (g.curDet <=> g.flyback = 0) /\ (g.ldohEn <=> h.ldohEn)
        /\ (g.bypass <=> h.bypass) /\ (g.delay <=> h.delay) /\ (g.rxclk <=> h.rxclk)
    BY <2>2, <2>3, <2>4, FlybackPutFields
  <2> QED BY <1>2, <2>3, <2>4, <2>5
<1> QED BY <1>1, <1>2

\* SND_SOC_DAPM_POST_PMD of the DACs of ps.
LEMMA DacsDown ==
    ASSUME NEW h \in Regs, earMux \in {"hphl", "aux"}, ldoh \in BOOLEAN, lowPower \in BOOLEAN,
           NEW ps \in SUBSET Paths, NEW g, g = HandleEvents(h, "dacPostDown", ps)
    PROVE  /\ g \in Regs
           /\ g.fed = IF "ear" \in ps THEN h.fed \ {h.earPath} ELSE h.fed
           /\ g.earPath = h.earPath /\ g.wd = h.wd /\ g.depth = h.depth /\ g.clsh = h.clsh
           /\ g.flyback = h.flyback /\ (g.curDet <=> h.curDet) /\ (g.ldohEn <=> h.ldohEn)
           /\ (g.bypass <=> h.bypass) /\ (g.delay <=> h.delay) /\ (g.rxclk <=> h.rxclk)
<1>1. \A x, p : p # "ear" => HandleEvent(x, "dacPostDown", p) = x
  BY DEF HandleEvent, DacPostDown
<1>2. g = IF "ear" \in ps THEN HandleEvent(h, "dacPostDown", "ear") ELSE h
  BY <1>1 DEF HandleEvents
<1>3. CASE "ear" \in ps
  <2>1. g = [h EXCEPT !.fed = @ \ {h.earPath}]
    BY <1>2, <1>3 DEF HandleEvent, DacPostDown
  <2> QED BY <1>3, <2>1 DEF Regs
<1>4. CASE "ear" \notin ps
  BY <1>2, <1>4 DEF Regs
<1> QED BY <1>3, <1>4

\* SND_SOC_DAPM_PRE_PMU of one DAC.
LEMMA DacsUpOne ==
    ASSUME NEW h \in Regs, earMux \in {"hphl", "aux"}, h.curDet <=> h.flyback = 0,
           NEW p \in Paths, NEW g, g = HandleEvent(h, "dacPreUp", p)
    PROVE  /\ g \in Regs
           /\ g.earPath = IF p = "ear" THEN earMux ELSE h.earPath
           /\ g.fed = h.fed \cup {IF p = "ear" THEN earMux ELSE p}
           /\ g.clsh = h.clsh \cup ({p} \ Hph)
           /\ g.flyback = h.flyback + Num(p \notin Hph)
           /\ g.curDet <=> g.flyback = 0
           /\ g.wd = h.wd /\ g.depth = h.depth /\ (g.ldohEn <=> h.ldohEn) /\ (g.bypass <=> h.bypass)
           /\ (g.delay <=> h.delay) /\ (g.rxclk <=> h.rxclk)
<1>1. CASE p \in Hph
  BY <1>1 DEF HandleEvent, DacPreUp, HphDacUp, Regs, Feeds, Hph, Paths, Num
<1>2. CASE p = "aux"
  <2> DEFINE m == [h EXCEPT !.fed = @ \cup {"aux"}, !.clsh = @ \cup {"aux"}]
  <2>1. g = FlybackGet(m)
    BY <1>2 DEF HandleEvent, DacPreUp, AuxDacUp, Hph
  <2>2. /\ m \in Regs /\ m.earPath = (IF p = "ear" THEN earMux ELSE h.earPath) /\ m.fed = h.fed \cup {"aux"}
        /\ m.clsh = h.clsh \cup {"aux"} /\ m.wd = h.wd /\ m.depth = h.depth /\ m.flyback = h.flyback
        /\ (m.curDet <=> h.curDet) /\ (m.ldohEn <=> h.ldohEn) /\ (m.bypass <=> h.bypass)
        /\ (m.delay <=> h.delay) /\ (m.rxclk <=> h.rxclk)
    BY <1>2 DEF Regs, Feeds, Paths
  <2> HIDE DEF m
  <2>3. {p} \ Hph = {"aux"} /\ Num(p \notin Hph) = 1
    BY <1>2 DEF Hph, Num
  <2> QED BY <1>2, <2>1, <2>2, <2>3, FlybackGetFields
<1>3. CASE p = "ear"
  <2> DEFINE m == [h EXCEPT !.earPath = earMux, !.fed = @ \cup {earMux}, !.clsh = @ \cup {"ear"}]
  <2>1. g = FlybackGet(m)
    BY <1>3 DEF HandleEvent, DacPreUp, EarDacUp, Hph
  <2>2. /\ m \in Regs /\ m.earPath = (IF p = "ear" THEN earMux ELSE h.earPath) /\ m.fed = h.fed \cup {earMux}
        /\ m.clsh = h.clsh \cup {"ear"} /\ m.wd = h.wd /\ m.depth = h.depth /\ m.flyback = h.flyback
        /\ (m.curDet <=> h.curDet) /\ (m.ldohEn <=> h.ldohEn) /\ (m.bypass <=> h.bypass)
        /\ (m.delay <=> h.delay) /\ (m.rxclk <=> h.rxclk)
    BY <1>3 DEF Regs, Feeds, Paths
  <2> HIDE DEF m
  <2>3. {p} \ Hph = {"ear"} /\ Num(p \notin Hph) = 1
    BY <1>3 DEF Hph, Num
  <2> QED BY <1>3, <2>1, <2>2, <2>3, FlybackGetFields
<1> QED BY <1>1, <1>2, <1>3 DEF Hph, Paths

(* One path after the other: DacOf(h, p, ps) is what its DAC leaves of h.  *)
DacOf(h, p, ps) == IF p \in ps THEN HandleEvent(h, "dacPreUp", p) ELSE h

\* What that is, field by field.
LEMMA DacOfFields ==
    ASSUME NEW h \in Regs, earMux \in {"hphl", "aux"}, h.curDet <=> h.flyback = 0,
           NEW p \in Paths, NEW ps \in SUBSET Paths, NEW g, g = DacOf(h, p, ps)
    PROVE  /\ g \in Regs
           /\ g.earPath = IF p \in ps /\ p = "ear" THEN earMux ELSE h.earPath
           /\ g.fed = h.fed \cup (IF p \in ps THEN {IF p = "ear" THEN earMux ELSE p} ELSE {})
           /\ g.clsh = h.clsh \cup (({p} \cap ps) \ Hph)
           /\ g.flyback = h.flyback + Num(p \in ps /\ p \notin Hph)
           /\ g.curDet <=> g.flyback = 0
           /\ g.wd = h.wd /\ g.depth = h.depth /\ (g.ldohEn <=> h.ldohEn) /\ (g.bypass <=> h.bypass)
           /\ (g.delay <=> h.delay) /\ (g.rxclk <=> h.rxclk)
<1>1. CASE p \in ps
  <2>1. g = HandleEvent(h, "dacPreUp", p)
    BY <1>1 DEF DacOf
  <2>2. {p} \cap ps = {p}
    BY <1>1
  <2>3. Num(p \in ps /\ p \notin Hph) = Num(p \notin Hph)
    BY <1>1 DEF Num
  <2> QED BY <1>1, <2>1, <2>2, <2>3, DacsUpOne
<1>2. CASE p \notin ps
  BY <1>2 DEF DacOf, Regs, Num
<1> QED BY <1>1, <1>2

\* SND_SOC_DAPM_PRE_PMU of the DACs of ps, one path after the other.
LEMMA DacsUp ==
    ASSUME NEW h \in Regs, earMux \in {"hphl", "aux"}, ldoh \in BOOLEAN, lowPower \in BOOLEAN,
           NEW ps \in SUBSET Paths, NEW g, g = HandleEvents(h, "dacPreUp", ps),
           h.curDet <=> h.flyback = 0
    PROVE  /\ g \in Regs
           /\ g.earPath = IF "ear" \in ps THEN earMux ELSE h.earPath
           /\ g.fed = h.fed \cup (ps \cap Feeds) \cup IF "ear" \in ps THEN {earMux} ELSE {}
           /\ g.clsh = h.clsh \cup (ps \ Hph)
           /\ g.flyback = h.flyback + Num("ear" \in ps) + Num("aux" \in ps)
           /\ g.curDet <=> g.flyback = 0
           /\ g.wd = h.wd /\ g.depth = h.depth /\ (g.ldohEn <=> h.ldohEn) /\ (g.bypass <=> h.bypass)
           /\ (g.delay <=> h.delay) /\ (g.rxclk <=> h.rxclk)
<1> DEFINE g1 == DacOf(h, "hphl", ps)
           g2 == DacOf(g1, "hphr", ps)
           g3 == DacOf(g2, "ear", ps)
<1>0. g = DacOf(g3, "aux", ps) /\ {"hphl", "hphr", "ear", "aux"} = Paths
  BY DEF HandleEvents, DacOf, Paths
<1> HIDE DEF g1, g2, g3
<1>1. /\ g1 \in Regs /\ g1.earPath = h.earPath /\ g1.clsh = h.clsh /\ g1.flyback = h.flyback
      /\ g1.fed = h.fed \cup (ps \cap {"hphl"}) /\ (g1.curDet <=> g1.flyback = 0)
      /\ g1.wd = h.wd /\ g1.depth = h.depth /\ (g1.ldohEn <=> h.ldohEn) /\ (g1.bypass <=> h.bypass)
      /\ (g1.delay <=> h.delay) /\ (g1.rxclk <=> h.rxclk)
  <2>1. "hphl" \in Paths /\ ({"hphl"} \cap ps) \ Hph = {} /\ Num("hphl" \in ps /\ "hphl" \notin Hph) = 0
    BY DEF Paths, Hph, Num
  <2>2. \A s : s \cup (IF "hphl" \in ps THEN {"hphl"} ELSE {}) = s \cup (ps \cap {"hphl"})
    OBVIOUS
  <2>3. /\ g1 \in Regs /\ g1.earPath = h.earPath
        /\ g1.fed = h.fed \cup (IF "hphl" \in ps THEN {"hphl"} ELSE {})
        /\ g1.clsh = h.clsh \cup (({"hphl"} \cap ps) \ Hph)
        /\ g1.flyback = h.flyback + Num("hphl" \in ps /\ "hphl" \notin Hph) /\ (g1.curDet <=> g1.flyback = 0)
        /\ g1.wd = h.wd /\ g1.depth = h.depth /\ (g1.ldohEn <=> h.ldohEn) /\ (g1.bypass <=> h.bypass)
        /\ (g1.delay <=> h.delay) /\ (g1.rxclk <=> h.rxclk)
    BY <2>1, DacOfFields DEF g1
  <2> QED BY <2>1, <2>2, <2>3 DEF Regs
<1>2. /\ g2 \in Regs /\ g2.earPath = h.earPath /\ g2.clsh = h.clsh /\ g2.flyback = h.flyback
      /\ g2.fed = h.fed \cup (ps \cap Hph) /\ (g2.curDet <=> g2.flyback = 0)
      /\ g2.wd = h.wd /\ g2.depth = h.depth /\ (g2.ldohEn <=> h.ldohEn) /\ (g2.bypass <=> h.bypass)
      /\ (g2.delay <=> h.delay) /\ (g2.rxclk <=> h.rxclk)
  <2>1. "hphr" \in Paths /\ ({"hphr"} \cap ps) \ Hph = {} /\ Num("hphr" \in ps /\ "hphr" \notin Hph) = 0
    BY DEF Paths, Hph, Num
  <2>2. \A s : s \cup (IF "hphr" \in ps THEN {"hphr"} ELSE {}) = s \cup (ps \cap {"hphr"})
    OBVIOUS
  <2>3. /\ g2 \in Regs /\ g2.earPath = g1.earPath
        /\ g2.fed = g1.fed \cup (IF "hphr" \in ps THEN {"hphr"} ELSE {})
        /\ g2.clsh = g1.clsh \cup (({"hphr"} \cap ps) \ Hph)
        /\ g2.flyback = g1.flyback + Num("hphr" \in ps /\ "hphr" \notin Hph) /\ (g2.curDet <=> g2.flyback = 0)
        /\ g2.wd = h.wd /\ g2.depth = h.depth /\ (g2.ldohEn <=> h.ldohEn) /\ (g2.bypass <=> h.bypass)
        /\ (g2.delay <=> h.delay) /\ (g2.rxclk <=> h.rxclk)
    BY <1>1, <2>1, DacOfFields DEF g2
  <2> QED BY <1>1, <2>1, <2>2, <2>3 DEF Regs, Hph
<1>3. /\ g3 \in Regs /\ g3.earPath = (IF "ear" \in ps THEN earMux ELSE h.earPath)
      /\ g3.clsh = h.clsh \cup (ps \cap {"ear"}) /\ g3.flyback = h.flyback + Num("ear" \in ps)
      /\ g3.fed = h.fed \cup (ps \cap Hph) \cup (IF "ear" \in ps THEN {earMux} ELSE {})
      /\ (g3.curDet <=> g3.flyback = 0)
      /\ g3.wd = h.wd /\ g3.depth = h.depth /\ (g3.ldohEn <=> h.ldohEn) /\ (g3.bypass <=> h.bypass)
      /\ (g3.delay <=> h.delay) /\ (g3.rxclk <=> h.rxclk)
  BY <1>2, DacOfFields DEF g3, Paths, Hph, Num, Regs
<1>4. /\ g \in Regs /\ g.earPath = (IF "ear" \in ps THEN earMux ELSE h.earPath)
      /\ g.clsh = h.clsh \cup (ps \cap {"ear"}) \cup (ps \cap {"aux"})
      /\ g.flyback = h.flyback + Num("ear" \in ps) + Num("aux" \in ps)
      /\ g.fed = h.fed \cup (ps \cap Hph) \cup (IF "ear" \in ps THEN {earMux} ELSE {}) \cup (ps \cap {"aux"})
      /\ (g.curDet <=> g.flyback = 0)
      /\ g.wd = h.wd /\ g.depth = h.depth /\ (g.ldohEn <=> h.ldohEn) /\ (g.bypass <=> h.bypass)
      /\ (g.delay <=> h.delay) /\ (g.rxclk <=> h.rxclk)
  BY <1>0, <1>3, DacOfFields DEF Paths, Hph, Num, Regs
<1> QED BY <1>4 DEF Paths, Hph, Feeds

\* SND_SOC_DAPM_PRE_PMU of one headphone amplifier.
LEMMA HphPreUpOne ==
    ASSUME NEW h \in Regs, earMux \in {"hphl", "aux"}, ldoh \in BOOLEAN, lowPower \in BOOLEAN,
           NEW p \in Hph, NEW g, g = HandleEvent(h, "paPreUp", p)
    PROVE  /\ g \in Regs
           /\ g.wd = h.wd \cup {p}
           /\ g.clsh = h.clsh \cup {p}
           /\ g.ldohEn <=> h.ldohEn \/ ldoh
           /\ g.bypass <=> h.bypass \/ lowPower
           /\ g.delay <=> TRUE
           /\ g.earPath = h.earPath /\ g.fed = h.fed /\ g.depth = h.depth /\ g.flyback = h.flyback
           /\ (g.curDet <=> h.curDet) /\ (g.rxclk <=> h.rxclk)
<1>1. g = HphPaPreUp(h, p)
  BY DEF HandleEvent, PaPreUp, Hph
<1>a. /\ h.wd \cup {p} \in SUBSET Feeds /\ h.clsh \cup {p} \in SUBSET Paths
      /\ (h.ldohEn \/ ldoh) \in BOOLEAN /\ (h.bypass \/ lowPower) \in BOOLEAN
  BY DEF Regs, Hph, Feeds, Paths
<1>2. g \in Regs
  BY <1>1, <1>a DEF HphPaPreUp, Regs
<1> QED BY <1>1, <1>2 DEF HphPaPreUp, Regs

\* SND_SOC_DAPM_PRE_PMU of the headphone amplifiers of ps, left before right.
LEMMA HphPreUp ==
    ASSUME NEW h \in Regs, earMux \in {"hphl", "aux"}, ldoh \in BOOLEAN, lowPower \in BOOLEAN,
           NEW ps \in SUBSET Hph, NEW g, g = HandleEvents(h, "paPreUp", ps)
    PROVE  /\ g \in Regs
           /\ g.wd = h.wd \cup ps
           /\ g.clsh = h.clsh \cup ps
           /\ g.ldohEn <=> h.ldohEn \/ (ldoh /\ ps # {})
           /\ g.bypass <=> h.bypass \/ (lowPower /\ ps # {})
           /\ g.delay <=> h.delay \/ ps # {}
           /\ g.earPath = h.earPath /\ g.fed = h.fed /\ g.depth = h.depth /\ g.flyback = h.flyback
           /\ (g.curDet <=> h.curDet) /\ (g.rxclk <=> h.rxclk)
<1>1. CASE ps = {}
  BY <1>1, OfNone DEF Regs
<1>2. ASSUME NEW p \in Hph, ps = {p} PROVE g = HandleEvent(h, "paPreUp", p)
  BY <1>2, OfOne DEF Hph, Paths
<1>3. CASE \E p \in Hph : ps = {p}
  <2>1. PICK p \in Hph : ps = {p}
    BY <1>3
  <2>2. g = HandleEvent(h, "paPreUp", p) /\ ps # {} /\ (\A f : f \in ps <=> f = p)
    BY <1>2, <2>1
  <2>3. /\ g \in Regs
        /\ g.wd = h.wd \cup {p}
        /\ g.clsh = h.clsh \cup {p}
        /\ g.ldohEn <=> h.ldohEn \/ ldoh
        /\ g.bypass <=> h.bypass \/ lowPower
        /\ g.delay <=> TRUE
        /\ g.earPath = h.earPath /\ g.fed = h.fed /\ g.depth = h.depth /\ g.flyback = h.flyback
        /\ (g.curDet <=> h.curDet) /\ (g.rxclk <=> h.rxclk)
    BY <2>2, HphPreUpOne
  <2> QED BY <2>1, <2>2, <2>3
<1>4. CASE ps = {"hphl", "hphr"}
  <2> DEFINE m == HandleEvent(h, "paPreUp", "hphl")
  <2>1. g = HandleEvent(m, "paPreUp", "hphr")
    BY <1>4, OfBoth
  <2> HIDE DEF m
  <2>2. m \in Regs
    BY HphPreUpOne DEF Hph, m
  <2> QED BY <1>4, <2>1, <2>2, HphPreUpOne DEF m, Hph, Feeds, Regs
<1> QED BY <1>1, <1>3, <1>4 DEF Hph

\* SND_SOC_DAPM_POST_PMU of one headphone amplifier.
LEMMA HphPostUpOne ==
    ASSUME NEW h \in Regs, earMux \in {"hphl", "aux"}, ldoh \in BOOLEAN, lowPower \in BOOLEAN,
           NEW p \in Hph, NEW g, g = HandleEvent(h, "paPostUp", p)
    PROVE  /\ g \in Regs
           /\ \A f \in Feeds : g.depth[f] = IF f = p /\ h.depth[f] > 0 THEN h.depth[f] - 1 ELSE h.depth[f]
           /\ g.delay <=> FALSE
           /\ g.bypass <=> h.bypass /\ ~(h.delay /\ lowPower)
           /\ g.earPath = h.earPath /\ g.fed = h.fed /\ g.wd = h.wd /\ g.clsh = h.clsh
           /\ g.flyback = h.flyback /\ (g.curDet <=> h.curDet) /\ (g.ldohEn <=> h.ldohEn)
           /\ (g.rxclk <=> h.rxclk)
<1> DEFINE m == [h EXCEPT !.delay = FALSE, !.bypass = @ /\ ~(h.delay /\ lowPower)]
<1>1. p \in Feeds /\ g = EnableWdIrq(m, p)
  BY DEF HandleEvent, PaPostUp, HphPaPostUp, Hph, Feeds
<1>2. /\ m \in Regs /\ (m.delay <=> FALSE) /\ (m.bypass <=> h.bypass /\ ~(h.delay /\ lowPower))
      /\ m.earPath = h.earPath /\ m.fed = h.fed /\ m.wd = h.wd /\ m.depth = h.depth /\ m.clsh = h.clsh
      /\ m.flyback = h.flyback /\ (m.curDet <=> h.curDet) /\ (m.ldohEn <=> h.ldohEn) /\ (m.rxclk <=> h.rxclk)
  BY DEF Regs
<1> HIDE DEF m
<1> QED BY <1>1, <1>2, EnableWdIrqFields

\* SND_SOC_DAPM_POST_PMU of the headphone amplifiers of ps, left before right.
LEMMA HphPostUp ==
    ASSUME NEW h \in Regs, earMux \in {"hphl", "aux"}, ldoh \in BOOLEAN, lowPower \in BOOLEAN,
           NEW ps \in SUBSET Hph, NEW g, g = HandleEvents(h, "paPostUp", ps)
    PROVE  /\ g \in Regs
           /\ \A f \in Feeds : g.depth[f] = IF f \in ps /\ h.depth[f] > 0 THEN h.depth[f] - 1 ELSE h.depth[f]
           /\ g.delay <=> h.delay /\ ps = {}
           /\ g.bypass <=> h.bypass /\ ~(ps # {} /\ h.delay /\ lowPower)
           /\ g.earPath = h.earPath /\ g.fed = h.fed /\ g.wd = h.wd /\ g.clsh = h.clsh
           /\ g.flyback = h.flyback /\ (g.curDet <=> h.curDet) /\ (g.ldohEn <=> h.ldohEn)
           /\ (g.rxclk <=> h.rxclk)
<1>1. CASE ps = {}
  BY <1>1, OfNone DEF Regs
<1>2. ASSUME NEW p \in Hph, ps = {p} PROVE g = HandleEvent(h, "paPostUp", p)
  BY <1>2, OfOne DEF Hph, Paths
<1>3. CASE \E p \in Hph : ps = {p}
  <2>1. PICK p \in Hph : ps = {p}
    BY <1>3
  <2>2. g = HandleEvent(h, "paPostUp", p) /\ ps # {} /\ (\A f : f \in ps <=> f = p)
    BY <1>2, <2>1
  <2>3. /\ g \in Regs
        /\ \A f \in Feeds : g.depth[f] = IF f = p /\ h.depth[f] > 0 THEN h.depth[f] - 1 ELSE h.depth[f]
        /\ g.delay <=> FALSE
        /\ g.bypass <=> h.bypass /\ ~(h.delay /\ lowPower)
        /\ g.earPath = h.earPath /\ g.fed = h.fed /\ g.wd = h.wd /\ g.clsh = h.clsh
        /\ g.flyback = h.flyback /\ (g.curDet <=> h.curDet) /\ (g.ldohEn <=> h.ldohEn)
        /\ (g.rxclk <=> h.rxclk)
    BY <2>2, HphPostUpOne
  <2> QED BY <2>1, <2>2, <2>3
<1>4. CASE ps = {"hphl", "hphr"}
  <2> DEFINE m == HandleEvent(h, "paPostUp", "hphl")
  <2>1. g = HandleEvent(m, "paPostUp", "hphr")
    BY <1>4, OfBoth
  <2> HIDE DEF m
  <2>2. m \in Regs
    BY HphPostUpOne DEF Hph, m
  <2> QED BY <1>4, <2>1, <2>2, HphPostUpOne DEF m, Hph, Feeds, Regs
<1> QED BY <1>1, <1>3, <1>4 DEF Hph

\* SND_SOC_DAPM_PRE_PMU of the earpiece amplifier, if it is handled.
LEMMA EarPreUp ==
    ASSUME NEW h \in Regs, earMux \in {"hphl", "aux"}, ldoh \in BOOLEAN, lowPower \in BOOLEAN,
           NEW ps \in SUBSET {"ear"}, NEW g, g = HandleEvents(h, "paPreUp", ps)
    PROVE  /\ g \in Regs
           /\ g.earPath = IF ps = {} THEN h.earPath ELSE earMux
           /\ g.wd = IF ps = {} THEN h.wd ELSE h.wd \cup {earMux}
           /\ g.fed = h.fed /\ g.depth = h.depth /\ g.clsh = h.clsh /\ g.flyback = h.flyback
           /\ (g.curDet <=> h.curDet) /\ (g.ldohEn <=> h.ldohEn) /\ (g.bypass <=> h.bypass)
           /\ (g.delay <=> h.delay) /\ (g.rxclk <=> h.rxclk)
<1>1. CASE ps = {}
  BY <1>1, OfNone DEF Regs
<1>2. CASE ps = {"ear"}
  <2>1. g = HandleEvent(h, "paPreUp", "ear")
    BY <1>2, OfOne DEF Paths
  <2>2. g = EarPaPreUp(h)
    BY <2>1 DEF HandleEvent, PaPreUp, Hph
  <2>3. ps # {} /\ g \in Regs
    <3>1. h.wd \cup {earMux} \in SUBSET Feeds
      BY DEF Regs, Feeds
    <3> QED BY <1>2, <2>2, <3>1 DEF EarPaPreUp, Regs
  <2> QED BY <2>2, <2>3 DEF EarPaPreUp, Regs
<1> QED BY <1>1, <1>2

\* SND_SOC_DAPM_POST_PMU of the earpiece amplifier, if it is handled.
LEMMA EarPostUp ==
    ASSUME NEW h \in Regs, earMux \in {"hphl", "aux"}, ldoh \in BOOLEAN, lowPower \in BOOLEAN,
           NEW ps \in SUBSET {"ear"}, NEW g, g = HandleEvents(h, "paPostUp", ps)
    PROVE  /\ g \in Regs
           /\ \A f \in Feeds : g.depth[f] = IF ps # {} /\ f = h.earPath /\ h.depth[f] > 0 THEN h.depth[f] - 1 ELSE h.depth[f]
           /\ g.earPath = h.earPath /\ g.fed = h.fed /\ g.wd = h.wd /\ g.clsh = h.clsh
           /\ g.flyback = h.flyback /\ (g.curDet <=> h.curDet) /\ (g.ldohEn <=> h.ldohEn)
           /\ (g.bypass <=> h.bypass) /\ (g.delay <=> h.delay) /\ (g.rxclk <=> h.rxclk)
<1>1. CASE ps = {}
  BY <1>1, OfNone DEF Regs
<1>2. CASE ps = {"ear"}
  <2>1. g = HandleEvent(h, "paPostUp", "ear")
    BY <1>2, OfOne DEF Paths
  <2>2. h.earPath \in Feeds /\ g = EnableWdIrq(h, h.earPath)
    BY <2>1 DEF HandleEvent, PaPostUp, Feed, Hph, Feeds, Regs
  <2> QED BY <1>2, <2>2, EnableWdIrqFields
<1> QED BY <1>1, <1>2

\* SND_SOC_DAPM_PRE_PMU of the auxiliary amplifier, if it is handled.
LEMMA AuxPreUp ==
    ASSUME NEW h \in Regs, earMux \in {"hphl", "aux"}, ldoh \in BOOLEAN, lowPower \in BOOLEAN,
           NEW ps \in SUBSET {"aux"}, NEW g, g = HandleEvents(h, "paPreUp", ps)
    PROVE  /\ g \in Regs
           /\ g.wd = h.wd \cup ps
           /\ g.earPath = h.earPath /\ g.fed = h.fed /\ g.depth = h.depth /\ g.clsh = h.clsh
           /\ g.flyback = h.flyback /\ (g.curDet <=> h.curDet) /\ (g.ldohEn <=> h.ldohEn)
           /\ (g.bypass <=> h.bypass) /\ (g.delay <=> h.delay) /\ (g.rxclk <=> h.rxclk)
<1>1. CASE ps = {}
  BY <1>1, OfNone DEF Regs
<1>2. CASE ps = {"aux"}
  <2>1. g = HandleEvent(h, "paPreUp", "aux")
    BY <1>2, OfOne DEF Paths
  <2>2. g = AuxPaPreUp(h)
    BY <2>1 DEF HandleEvent, PaPreUp, Hph
  <2> QED BY <1>2, <2>2 DEF AuxPaPreUp, Regs, Feeds
<1> QED BY <1>1, <1>2

\* SND_SOC_DAPM_POST_PMU of the auxiliary amplifier, if it is handled.
LEMMA AuxPostUp ==
    ASSUME NEW h \in Regs, earMux \in {"hphl", "aux"}, ldoh \in BOOLEAN, lowPower \in BOOLEAN,
           NEW ps \in SUBSET {"aux"}, NEW g, g = HandleEvents(h, "paPostUp", ps)
    PROVE  /\ g \in Regs
           /\ \A f \in Feeds : g.depth[f] = IF f \in ps /\ h.depth[f] > 0 THEN h.depth[f] - 1 ELSE h.depth[f]
           /\ g.earPath = h.earPath /\ g.fed = h.fed /\ g.wd = h.wd /\ g.clsh = h.clsh
           /\ g.flyback = h.flyback /\ (g.curDet <=> h.curDet) /\ (g.ldohEn <=> h.ldohEn)
           /\ (g.bypass <=> h.bypass) /\ (g.delay <=> h.delay) /\ (g.rxclk <=> h.rxclk)
<1>1. CASE ps = {}
  BY <1>1, OfNone DEF Regs
<1>2. CASE ps = {"aux"}
  <2>1. g = HandleEvent(h, "paPostUp", "aux")
    BY <1>2, OfOne DEF Paths
  <2>2. "aux" \in Feeds /\ g = EnableWdIrq(h, "aux")
    BY <2>1 DEF HandleEvent, PaPostUp, Feed, Hph, Feeds, Regs
  <2> QED BY <1>2, <2>2, EnableWdIrqFields
<1> QED BY <1>1, <1>2

\* Step 1 of the walk keeps the invariant: SND_SOC_DAPM_PRE_PMD of the headphone amplifiers of ps, left before right.
LEMMA HphPreDownInv == ASSUME OutInv, DapmEvent, walk.at = 1 PROVE OutInv'
<1>0. OutTypes
  BY DEF OutInv
<1> DEFINE ps == Hph \cap walk.down
<1>1. /\ codecRegs' = HandleEvents(codecRegs, "paPreDown", ps)
      /\ walk' = [walk EXCEPT !.at = 2]
      /\ UNCHANGED <<wired, powered, goal, earMux, ldoh, lowPower, moved, shared>>
  BY <1>0, WalkLines DEF DapmEvent, WalkOn, OutTypes
<1>2. walk'.at = 2 /\ walk'.down = walk.down /\ walk'.up = walk.up
  BY <1>0, <1>1 DEF OutTypes
<1>p. ps \in SUBSET Hph
  OBVIOUS
<1> HIDE DEF ps
<1>3. /\ codecRegs' \in Regs
      /\ \A f \in Feeds : codecRegs'.depth[f] = IF f \in ps THEN codecRegs.depth[f] + 1 ELSE codecRegs.depth[f]
      /\ codecRegs'.delay <=> codecRegs.delay \/ ps # {}
      /\ codecRegs'.earPath = codecRegs.earPath /\ codecRegs'.fed = codecRegs.fed
      /\ codecRegs'.wd = codecRegs.wd /\ codecRegs'.clsh = codecRegs.clsh
      /\ codecRegs'.flyback = codecRegs.flyback /\ (codecRegs'.curDet <=> codecRegs.curDet)
      /\ (codecRegs'.ldohEn <=> codecRegs.ldohEn)
      /\ (codecRegs'.bypass <=> codecRegs.bypass) /\ (codecRegs'.rxclk <=> codecRegs.rxclk)
  BY <1>0, <1>1, <1>p, HphPreDown DEF OutTypes
<1>4. OutTypes'
  BY <1>0, <1>1, <1>2, <1>3 DEF OutTypes, AtRest
<1>5. FlybackInStep'
  BY <1>0, <1>1, <1>2, <1>3 DEF OutInv, OutTypes, ps, FlybackInStep, Num, InUse
<1>6. ClassHInStep'
  BY <1>0, <1>1, <1>2, <1>3 DEF OutInv, OutTypes, ps, ClassHInStep, InUse, Hph, Paths
<1>7. RxclkInStep'
  BY <1>0, <1>1, <1>2, <1>3 DEF OutInv, OutTypes, ps, RxclkInStep
<1>8. FeedsApart'
  BY <1>0, <1>1, <1>2, <1>3 DEF OutInv, OutTypes, ps, FeedsApart, EarInStep, Feeds
<1>9. EarInStep'
  BY <1>0, <1>1, <1>2, <1>3 DEF OutInv, OutTypes, ps, EarInStep
<1>10. WatchInStep'
  BY <1>0, <1>1, <1>2, <1>3 DEF OutInv, OutTypes, ps, WatchInStep, FeedsApart, EarInStep, InUse, Feeds, Hph
<1>11. DepthInStep'
  BY <1>0, <1>1, <1>2, <1>3 DEF OutInv, OutTypes, ps, DepthInStep, FeedsApart, EarInStep, InUse, Feeds, Hph
<1>12. FedInStep'
  BY <1>0, <1>1, <1>2, <1>3 DEF OutInv, OutTypes, ps, FedInStep, FeedsApart, EarInStep, InUse, Feeds
<1>13. HphInStep'
  BY <1>0, <1>1, <1>2, <1>3 DEF OutInv, OutTypes, ps, HphInStep, InUse, Hph
<1> QED BY <1>4, <1>5, <1>6, <1>7, <1>8, <1>9, <1>10, <1>11, <1>12, <1>13 DEF OutInv

\* Step 2 of the walk keeps the invariant: SND_SOC_DAPM_POST_PMD of the headphone amplifiers of ps, left before right.
LEMMA HphPostDownInv == ASSUME OutInv, DapmEvent, walk.at = 2 PROVE OutInv'
<1>0. OutTypes
  BY DEF OutInv
<1> DEFINE ps == Hph \cap walk.down
<1>1. /\ codecRegs' = HandleEvents(codecRegs, "paPostDown", ps)
      /\ walk' = [walk EXCEPT !.at = 3]
      /\ UNCHANGED <<wired, powered, goal, earMux, ldoh, lowPower, moved, shared>>
  BY <1>0, WalkLines DEF DapmEvent, WalkOn, OutTypes
<1>2. walk'.at = 3 /\ walk'.down = walk.down /\ walk'.up = walk.up
  BY <1>0, <1>1 DEF OutTypes
<1>p. ps \in SUBSET Hph
  OBVIOUS
<1> HIDE DEF ps
<1>3. /\ codecRegs' \in Regs
      /\ codecRegs'.wd = codecRegs.wd \ ps
      /\ codecRegs'.clsh = codecRegs.clsh \ ps
      /\ codecRegs'.delay <=> codecRegs.delay /\ ps = {}
      /\ codecRegs'.ldohEn <=> codecRegs.ldohEn /\ ~(ldoh /\ ps # {})
      /\ codecRegs'.earPath = codecRegs.earPath /\ codecRegs'.fed = codecRegs.fed
      /\ codecRegs'.depth = codecRegs.depth /\ codecRegs'.flyback = codecRegs.flyback
      /\ (codecRegs'.curDet <=> codecRegs.curDet)
      /\ (codecRegs'.bypass <=> codecRegs.bypass) /\ (codecRegs'.rxclk <=> codecRegs.rxclk)
  BY <1>0, <1>1, <1>p, HphPostDown DEF OutTypes
<1>4. OutTypes'
  BY <1>0, <1>1, <1>2, <1>3 DEF OutTypes, AtRest
<1>5. FlybackInStep'
  BY <1>0, <1>1, <1>2, <1>3 DEF OutInv, OutTypes, ps, FlybackInStep, Num, InUse
<1>6. ClassHInStep'
  BY <1>0, <1>1, <1>2, <1>3 DEF OutInv, OutTypes, ps, ClassHInStep, InUse, Hph, Paths
<1>7. RxclkInStep'
  BY <1>0, <1>1, <1>2, <1>3 DEF OutInv, OutTypes, ps, RxclkInStep
<1>8. FeedsApart'
  BY <1>0, <1>1, <1>2, <1>3 DEF OutInv, OutTypes, ps, FeedsApart, EarInStep, Feeds
<1>9. EarInStep'
  BY <1>0, <1>1, <1>2, <1>3 DEF OutInv, OutTypes, ps, EarInStep
<1>10. WatchInStep'
  <2>1. \A f : f \in codecRegs'.wd <=> f \in codecRegs.wd /\ ~(f \in Hph /\ f \in walk.down)
    BY <1>3 DEF ps
  <2>2. codecRegs'.earPath = codecRegs.earPath
    BY <1>3 DEF ps
  <2> QED BY <1>0, <1>1, <1>2, <2>1, <2>2 DEF OutInv, OutTypes, WatchInStep, FeedsApart, EarInStep, InUse, Feeds, Hph
<1>11. DepthInStep'
  BY <1>0, <1>1, <1>2, <1>3 DEF OutInv, OutTypes, ps, DepthInStep, FeedsApart, EarInStep, InUse, Feeds, Hph
<1>12. FedInStep'
  BY <1>0, <1>1, <1>2, <1>3 DEF OutInv, OutTypes, ps, FedInStep, FeedsApart, EarInStep, InUse, Feeds
<1>13. HphInStep'
  BY <1>0, <1>1, <1>2, <1>3 DEF OutInv, OutTypes, ps, HphInStep, InUse, Hph
<1> QED BY <1>4, <1>5, <1>6, <1>7, <1>8, <1>9, <1>10, <1>11, <1>12, <1>13 DEF OutInv

\* Step 3 of the walk keeps the invariant: SND_SOC_DAPM_PRE_PMD of the earpiece amplifier, if it is handled.
LEMMA EarPreDownInv == ASSUME OutInv, DapmEvent, walk.at = 3 PROVE OutInv'
<1>0. OutTypes
  BY DEF OutInv
<1> DEFINE ps == {"ear"} \cap walk.down
<1>1. /\ codecRegs' = HandleEvents(codecRegs, "paPreDown", ps)
      /\ walk' = [walk EXCEPT !.at = 4]
      /\ UNCHANGED <<wired, powered, goal, earMux, ldoh, lowPower, moved, shared>>
  BY <1>0, WalkLines DEF DapmEvent, WalkOn, OutTypes
<1>2. walk'.at = 4 /\ walk'.down = walk.down /\ walk'.up = walk.up
  BY <1>0, <1>1 DEF OutTypes
<1>p. ps \in SUBSET {"ear"}
  OBVIOUS
<1> HIDE DEF ps
<1>3. /\ codecRegs' \in Regs
      /\ \A f \in Feeds : codecRegs'.depth[f] = IF ps # {} /\ f = codecRegs.earPath THEN codecRegs.depth[f] + 1 ELSE codecRegs.depth[f]
      /\ codecRegs'.earPath = codecRegs.earPath /\ codecRegs'.fed = codecRegs.fed
      /\ codecRegs'.wd = codecRegs.wd /\ codecRegs'.clsh = codecRegs.clsh
      /\ codecRegs'.flyback = codecRegs.flyback /\ (codecRegs'.curDet <=> codecRegs.curDet)
      /\ (codecRegs'.ldohEn <=> codecRegs.ldohEn)
      /\ (codecRegs'.bypass <=> codecRegs.bypass) /\ (codecRegs'.delay <=> codecRegs.delay)
      /\ (codecRegs'.rxclk <=> codecRegs.rxclk)
  BY <1>0, <1>1, <1>p, EarPreDown DEF OutTypes
<1>4. OutTypes'
  BY <1>0, <1>1, <1>2, <1>3 DEF OutTypes, AtRest
<1>5. FlybackInStep'
  BY <1>0, <1>1, <1>2, <1>3 DEF OutInv, OutTypes, ps, FlybackInStep, Num, InUse
<1>6. ClassHInStep'
  BY <1>0, <1>1, <1>2, <1>3 DEF OutInv, OutTypes, ps, ClassHInStep, InUse, Hph, Paths
<1>7. RxclkInStep'
  BY <1>0, <1>1, <1>2, <1>3 DEF OutInv, OutTypes, ps, RxclkInStep
<1>8. FeedsApart'
  BY <1>0, <1>1, <1>2, <1>3 DEF OutInv, OutTypes, ps, FeedsApart, EarInStep, Feeds
<1>9. EarInStep'
  BY <1>0, <1>1, <1>2, <1>3 DEF OutInv, OutTypes, ps, EarInStep
<1>10. WatchInStep'
  BY <1>0, <1>1, <1>2, <1>3 DEF OutInv, OutTypes, ps, WatchInStep, FeedsApart, EarInStep, InUse, Feeds, Hph
<1>11. DepthInStep'
  BY <1>0, <1>1, <1>2, <1>3 DEF OutInv, OutTypes, ps, DepthInStep, FeedsApart, EarInStep, InUse, Feeds, Hph
<1>12. FedInStep'
  BY <1>0, <1>1, <1>2, <1>3 DEF OutInv, OutTypes, ps, FedInStep, FeedsApart, EarInStep, InUse, Feeds
<1>13. HphInStep'
  BY <1>0, <1>1, <1>2, <1>3 DEF OutInv, OutTypes, ps, HphInStep, InUse, Hph
<1> QED BY <1>4, <1>5, <1>6, <1>7, <1>8, <1>9, <1>10, <1>11, <1>12, <1>13 DEF OutInv

\* Step 4 of the walk keeps the invariant: SND_SOC_DAPM_POST_PMD of the earpiece amplifier, if it is handled.
LEMMA EarPostDownInv == ASSUME OutInv, DapmEvent, walk.at = 4 PROVE OutInv'
<1>0. OutTypes
  BY DEF OutInv
<1> DEFINE ps == {"ear"} \cap walk.down
<1>1. /\ codecRegs' = HandleEvents(codecRegs, "paPostDown", ps)
      /\ walk' = [walk EXCEPT !.at = 5]
      /\ UNCHANGED <<wired, powered, goal, earMux, ldoh, lowPower, moved, shared>>
  BY <1>0, WalkLines DEF DapmEvent, WalkOn, OutTypes
<1>2. walk'.at = 5 /\ walk'.down = walk.down /\ walk'.up = walk.up
  BY <1>0, <1>1 DEF OutTypes
<1>f. (codecRegs.curDet <=> codecRegs.flyback = 0) /\ (ps # {} => codecRegs.flyback >= 1)
  BY <1>0 DEF OutInv, FlybackInStep, Num, InUse, OutTypes, ps
<1>p. ps \in SUBSET {"ear"}
  OBVIOUS
<1> HIDE DEF ps
<1>3. /\ codecRegs' \in Regs
      /\ codecRegs'.wd = IF ps = {} THEN codecRegs.wd ELSE codecRegs.wd \ {codecRegs.earPath}
      /\ codecRegs'.clsh = codecRegs.clsh \ ps
      /\ codecRegs'.flyback = IF ps = {} THEN codecRegs.flyback ELSE codecRegs.flyback - 1
      /\ codecRegs'.curDet <=> codecRegs'.flyback = 0
      /\ codecRegs'.earPath = codecRegs.earPath /\ codecRegs'.fed = codecRegs.fed
      /\ codecRegs'.depth = codecRegs.depth /\ (codecRegs'.ldohEn <=> codecRegs.ldohEn)
      /\ (codecRegs'.bypass <=> codecRegs.bypass) /\ (codecRegs'.delay <=> codecRegs.delay)
      /\ (codecRegs'.rxclk <=> codecRegs.rxclk)
  BY <1>0, <1>1, <1>p, <1>f, EarPostDown DEF OutTypes, ps
<1>4. OutTypes'
  BY <1>0, <1>1, <1>2, <1>3 DEF OutTypes, AtRest
<1>5. FlybackInStep'
  BY <1>0, <1>1, <1>2, <1>3 DEF OutInv, OutTypes, ps, FlybackInStep, Num, InUse
<1>6. ClassHInStep'
  BY <1>0, <1>1, <1>2, <1>3 DEF OutInv, OutTypes, ps, ClassHInStep, InUse, Hph, Paths
<1>7. RxclkInStep'
  BY <1>0, <1>1, <1>2, <1>3 DEF OutInv, OutTypes, ps, RxclkInStep
<1>8. FeedsApart'
  BY <1>0, <1>1, <1>2, <1>3 DEF OutInv, OutTypes, ps, FeedsApart, EarInStep, Feeds
<1>9. EarInStep'
  BY <1>0, <1>1, <1>2, <1>3 DEF OutInv, OutTypes, ps, EarInStep
<1>10. WatchInStep'
  <2>1. \A f : f \in codecRegs'.wd <=> f \in codecRegs.wd /\ ~(f = codecRegs.earPath /\ "ear" \in walk.down)
    BY <1>3 DEF ps
  <2>2. codecRegs'.earPath = codecRegs.earPath
    BY <1>3 DEF ps
  <2> QED BY <1>0, <1>1, <1>2, <2>1, <2>2 DEF OutInv, OutTypes, WatchInStep, FeedsApart, EarInStep, InUse, Feeds, Hph
<1>11. DepthInStep'
  BY <1>0, <1>1, <1>2, <1>3 DEF OutInv, OutTypes, ps, DepthInStep, FeedsApart, EarInStep, InUse, Feeds, Hph
<1>12. FedInStep'
  BY <1>0, <1>1, <1>2, <1>3 DEF OutInv, OutTypes, ps, FedInStep, FeedsApart, EarInStep, InUse, Feeds
<1>13. HphInStep'
  BY <1>0, <1>1, <1>2, <1>3 DEF OutInv, OutTypes, ps, HphInStep, InUse, Hph
<1> QED BY <1>4, <1>5, <1>6, <1>7, <1>8, <1>9, <1>10, <1>11, <1>12, <1>13 DEF OutInv

\* Step 5 of the walk keeps the invariant: SND_SOC_DAPM_PRE_PMD of the auxiliary amplifier, if it is handled.
LEMMA AuxPreDownInv == ASSUME OutInv, DapmEvent, walk.at = 5 PROVE OutInv'
<1>0. OutTypes
  BY DEF OutInv
<1> DEFINE ps == {"aux"} \cap walk.down
<1>1. /\ codecRegs' = HandleEvents(codecRegs, "paPreDown", ps)
      /\ walk' = [walk EXCEPT !.at = 6]
      /\ UNCHANGED <<wired, powered, goal, earMux, ldoh, lowPower, moved, shared>>
  BY <1>0, WalkLines DEF DapmEvent, WalkOn, OutTypes
<1>2. walk'.at = 6 /\ walk'.down = walk.down /\ walk'.up = walk.up
  BY <1>0, <1>1 DEF OutTypes
<1>p. ps \in SUBSET {"aux"}
  OBVIOUS
<1> HIDE DEF ps
<1>3. /\ codecRegs' \in Regs
      /\ \A f \in Feeds : codecRegs'.depth[f] = IF f \in ps THEN codecRegs.depth[f] + 1 ELSE codecRegs.depth[f]
      /\ codecRegs'.earPath = codecRegs.earPath /\ codecRegs'.fed = codecRegs.fed
      /\ codecRegs'.wd = codecRegs.wd /\ codecRegs'.clsh = codecRegs.clsh
      /\ codecRegs'.flyback = codecRegs.flyback /\ (codecRegs'.curDet <=> codecRegs.curDet)
      /\ (codecRegs'.ldohEn <=> codecRegs.ldohEn)
      /\ (codecRegs'.bypass <=> codecRegs.bypass) /\ (codecRegs'.delay <=> codecRegs.delay)
      /\ (codecRegs'.rxclk <=> codecRegs.rxclk)
  BY <1>0, <1>1, <1>p, AuxPreDown DEF OutTypes
<1>4. OutTypes'
  BY <1>0, <1>1, <1>2, <1>3 DEF OutTypes, AtRest
<1>5. FlybackInStep'
  BY <1>0, <1>1, <1>2, <1>3 DEF OutInv, OutTypes, ps, FlybackInStep, Num, InUse
<1>6. ClassHInStep'
  BY <1>0, <1>1, <1>2, <1>3 DEF OutInv, OutTypes, ps, ClassHInStep, InUse, Hph, Paths
<1>7. RxclkInStep'
  BY <1>0, <1>1, <1>2, <1>3 DEF OutInv, OutTypes, ps, RxclkInStep
<1>8. FeedsApart'
  BY <1>0, <1>1, <1>2, <1>3 DEF OutInv, OutTypes, ps, FeedsApart, EarInStep, Feeds
<1>9. EarInStep'
  BY <1>0, <1>1, <1>2, <1>3 DEF OutInv, OutTypes, ps, EarInStep
<1>10. WatchInStep'
  BY <1>0, <1>1, <1>2, <1>3 DEF OutInv, OutTypes, ps, WatchInStep, FeedsApart, EarInStep, InUse, Feeds, Hph
<1>11. DepthInStep'
  BY <1>0, <1>1, <1>2, <1>3 DEF OutInv, OutTypes, ps, DepthInStep, FeedsApart, EarInStep, InUse, Feeds, Hph
<1>12. FedInStep'
  BY <1>0, <1>1, <1>2, <1>3 DEF OutInv, OutTypes, ps, FedInStep, FeedsApart, EarInStep, InUse, Feeds
<1>13. HphInStep'
  BY <1>0, <1>1, <1>2, <1>3 DEF OutInv, OutTypes, ps, HphInStep, InUse, Hph
<1> QED BY <1>4, <1>5, <1>6, <1>7, <1>8, <1>9, <1>10, <1>11, <1>12, <1>13 DEF OutInv

\* Step 6 of the walk keeps the invariant: SND_SOC_DAPM_POST_PMD of the auxiliary amplifier, if it is handled.
LEMMA AuxPostDownInv == ASSUME OutInv, DapmEvent, walk.at = 6 PROVE OutInv'
<1>0. OutTypes
  BY DEF OutInv
<1> DEFINE ps == {"aux"} \cap walk.down
<1>1. /\ codecRegs' = HandleEvents(codecRegs, "paPostDown", ps)
      /\ walk' = [walk EXCEPT !.at = 7]
      /\ UNCHANGED <<wired, powered, goal, earMux, ldoh, lowPower, moved, shared>>
  BY <1>0, WalkLines DEF DapmEvent, WalkOn, OutTypes
<1>2. walk'.at = 7 /\ walk'.down = walk.down /\ walk'.up = walk.up
  BY <1>0, <1>1 DEF OutTypes
<1>f. (codecRegs.curDet <=> codecRegs.flyback = 0) /\ (ps # {} => codecRegs.flyback >= 1)
  BY <1>0 DEF OutInv, FlybackInStep, Num, InUse, OutTypes, ps
<1>p. ps \in SUBSET {"aux"}
  OBVIOUS
<1> HIDE DEF ps
<1>3. /\ codecRegs' \in Regs
      /\ codecRegs'.wd = codecRegs.wd \ ps
      /\ codecRegs'.clsh = codecRegs.clsh \ ps
      /\ codecRegs'.flyback = IF ps = {} THEN codecRegs.flyback ELSE codecRegs.flyback - 1
      /\ codecRegs'.curDet <=> codecRegs'.flyback = 0
      /\ codecRegs'.earPath = codecRegs.earPath /\ codecRegs'.fed = codecRegs.fed
      /\ codecRegs'.depth = codecRegs.depth /\ (codecRegs'.ldohEn <=> codecRegs.ldohEn)
      /\ (codecRegs'.bypass <=> codecRegs.bypass) /\ (codecRegs'.delay <=> codecRegs.delay)
      /\ (codecRegs'.rxclk <=> codecRegs.rxclk)
  BY <1>0, <1>1, <1>p, <1>f, AuxPostDown DEF OutTypes
<1>4. OutTypes'
  BY <1>0, <1>1, <1>2, <1>3 DEF OutTypes, AtRest
<1>5. FlybackInStep'
  BY <1>0, <1>1, <1>2, <1>3 DEF OutInv, OutTypes, ps, FlybackInStep, Num, InUse
<1>6. ClassHInStep'
  BY <1>0, <1>1, <1>2, <1>3 DEF OutInv, OutTypes, ps, ClassHInStep, InUse, Hph, Paths
<1>7. RxclkInStep'
  BY <1>0, <1>1, <1>2, <1>3 DEF OutInv, OutTypes, ps, RxclkInStep
<1>8. FeedsApart'
  BY <1>0, <1>1, <1>2, <1>3 DEF OutInv, OutTypes, ps, FeedsApart, EarInStep, Feeds
<1>9. EarInStep'
  BY <1>0, <1>1, <1>2, <1>3 DEF OutInv, OutTypes, ps, EarInStep
<1>10. WatchInStep'
  <2>1. \A f : f \in codecRegs'.wd <=> f \in codecRegs.wd /\ ~(f = "aux" /\ "aux" \in walk.down)
    BY <1>3 DEF ps
  <2>2. codecRegs'.earPath = codecRegs.earPath
    BY <1>3 DEF ps
  <2> QED BY <1>0, <1>1, <1>2, <2>1, <2>2 DEF OutInv, OutTypes, WatchInStep, FeedsApart, EarInStep, InUse, Feeds, Hph
<1>11. DepthInStep'
  BY <1>0, <1>1, <1>2, <1>3 DEF OutInv, OutTypes, ps, DepthInStep, FeedsApart, EarInStep, InUse, Feeds, Hph
<1>12. FedInStep'
  BY <1>0, <1>1, <1>2, <1>3 DEF OutInv, OutTypes, ps, FedInStep, FeedsApart, EarInStep, InUse, Feeds
<1>13. HphInStep'
  BY <1>0, <1>1, <1>2, <1>3 DEF OutInv, OutTypes, ps, HphInStep, InUse, Hph
<1> QED BY <1>4, <1>5, <1>6, <1>7, <1>8, <1>9, <1>10, <1>11, <1>12, <1>13 DEF OutInv

\* Step 7 of the walk keeps the invariant: SND_SOC_DAPM_POST_PMD of the DACs of ps.
LEMMA DacsDownInv == ASSUME OutInv, DapmEvent, walk.at = 7 PROVE OutInv'
<1>0. OutTypes
  BY DEF OutInv
<1> DEFINE ps == Paths \cap walk.down
<1>1. /\ codecRegs' = HandleEvents(codecRegs, "dacPostDown", ps)
      /\ walk' = [walk EXCEPT !.at = 8]
      /\ UNCHANGED <<wired, powered, goal, earMux, ldoh, lowPower, moved, shared>>
  BY <1>0, WalkLines DEF DapmEvent, WalkOn, OutTypes
<1>2. walk'.at = 8 /\ walk'.down = walk.down /\ walk'.up = walk.up
  BY <1>0, <1>1 DEF OutTypes
<1>p. ps \in SUBSET Paths
  OBVIOUS
<1> HIDE DEF ps
<1>3. /\ codecRegs' \in Regs
      /\ codecRegs'.fed = IF "ear" \in ps THEN codecRegs.fed \ {codecRegs.earPath} ELSE codecRegs.fed
      /\ codecRegs'.earPath = codecRegs.earPath /\ codecRegs'.wd = codecRegs.wd
      /\ codecRegs'.depth = codecRegs.depth /\ codecRegs'.clsh = codecRegs.clsh
      /\ codecRegs'.flyback = codecRegs.flyback /\ (codecRegs'.curDet <=> codecRegs.curDet)
      /\ (codecRegs'.ldohEn <=> codecRegs.ldohEn)
      /\ (codecRegs'.bypass <=> codecRegs.bypass) /\ (codecRegs'.delay <=> codecRegs.delay)
      /\ (codecRegs'.rxclk <=> codecRegs.rxclk)
  BY <1>0, <1>1, <1>p, DacsDown DEF OutTypes, Paths
<1>4. OutTypes'
  BY <1>0, <1>1, <1>2, <1>3 DEF OutTypes, AtRest
<1>5. FlybackInStep'
  BY <1>0, <1>1, <1>2, <1>3 DEF OutInv, OutTypes, ps, FlybackInStep, Num, InUse
<1>6. ClassHInStep'
  BY <1>0, <1>1, <1>2, <1>3 DEF OutInv, OutTypes, ps, ClassHInStep, InUse, Hph, Paths
<1>7. RxclkInStep'
  BY <1>0, <1>1, <1>2, <1>3 DEF OutInv, OutTypes, ps, RxclkInStep
<1>8. FeedsApart'
  BY <1>0, <1>1, <1>2, <1>3 DEF OutInv, OutTypes, ps, FeedsApart, EarInStep, Feeds
<1>9. EarInStep'
  BY <1>0, <1>1, <1>2, <1>3 DEF OutInv, OutTypes, ps, EarInStep
<1>10. WatchInStep'
  BY <1>0, <1>1, <1>2, <1>3 DEF OutInv, OutTypes, ps, WatchInStep, FeedsApart, EarInStep, InUse, Feeds, Hph
<1>11. DepthInStep'
  BY <1>0, <1>1, <1>2, <1>3 DEF OutInv, OutTypes, ps, DepthInStep, FeedsApart, EarInStep, InUse, Feeds, Hph
<1>12. FedInStep'
  BY <1>0, <1>1, <1>2, <1>3 DEF OutInv, OutTypes, ps, FedInStep, FeedsApart, EarInStep, InUse, Feeds
<1>13. HphInStep'
  BY <1>0, <1>1, <1>2, <1>3 DEF OutInv, OutTypes, ps, HphInStep, InUse, Hph
<1> QED BY <1>4, <1>5, <1>6, <1>7, <1>8, <1>9, <1>10, <1>11, <1>12, <1>13 DEF OutInv

\* Step 11 of the walk keeps the invariant: SND_SOC_DAPM_PRE_PMU of the DACs of ps, one path after the other.
LEMMA DacsUpInv == ASSUME OutInv, DapmEvent, walk.at = 11 PROVE OutInv'
<1>0. OutTypes
  BY DEF OutInv
<1> DEFINE ps == Paths \cap walk.up
<1>1. /\ codecRegs' = HandleEvents(codecRegs, "dacPreUp", ps)
      /\ walk' = [walk EXCEPT !.at = 12]
      /\ UNCHANGED <<wired, powered, goal, earMux, ldoh, lowPower, moved, shared>>
  BY <1>0, WalkLines DEF DapmEvent, WalkOn, OutTypes
<1>2. walk'.at = 12 /\ walk'.down = walk.down /\ walk'.up = walk.up
  BY <1>0, <1>1 DEF OutTypes
<1>f. codecRegs.curDet <=> codecRegs.flyback = 0
  BY DEF OutInv, FlybackInStep
<1>p. ps \in SUBSET Paths
  OBVIOUS
<1> HIDE DEF ps
<1>3. /\ codecRegs' \in Regs
      /\ codecRegs'.earPath = IF "ear" \in ps THEN earMux ELSE codecRegs.earPath
      /\ codecRegs'.fed = codecRegs.fed \cup (ps \cap Feeds) \cup IF "ear" \in ps THEN {earMux} ELSE {}
      /\ codecRegs'.clsh = codecRegs.clsh \cup (ps \ Hph)
      /\ codecRegs'.flyback = codecRegs.flyback + Num("ear" \in ps) + Num("aux" \in ps)
      /\ codecRegs'.curDet <=> codecRegs'.flyback = 0
      /\ codecRegs'.wd = codecRegs.wd /\ codecRegs'.depth = codecRegs.depth
      /\ (codecRegs'.ldohEn <=> codecRegs.ldohEn)
      /\ (codecRegs'.bypass <=> codecRegs.bypass) /\ (codecRegs'.delay <=> codecRegs.delay)
      /\ (codecRegs'.rxclk <=> codecRegs.rxclk)
  BY <1>0, <1>1, <1>p, <1>f, DacsUp DEF OutTypes
<1>4. OutTypes'
  BY <1>0, <1>1, <1>2, <1>3 DEF OutTypes, AtRest
<1>5. FlybackInStep'
  BY <1>0, <1>1, <1>2, <1>3 DEF OutInv, OutTypes, ps, FlybackInStep, Num, InUse
<1>6. ClassHInStep'
  <2>1. \A p \in Paths : p \in codecRegs'.clsh <=> p \in codecRegs.clsh \/ (p \in walk.up /\ p \notin Hph)
    BY <1>3 DEF ps
  <2>2. "ear" \in Paths /\ "ear" \notin Hph /\ "aux" \in Paths /\ "aux" \notin Hph /\ Hph \subseteq Paths
    BY DEF Paths, Hph
  <2>3. \A p \in Hph : p \in codecRegs'.clsh <=> InUse(p, 2, 12)'
    BY <1>0, <1>1, <1>2, <2>1, <2>2 DEF OutInv, OutTypes, ClassHInStep, InUse
  <2>4. "ear" \in codecRegs'.clsh <=> InUse("ear", 4, 11)'
    BY <1>0, <1>1, <1>2, <2>1, <2>2 DEF OutInv, OutTypes, ClassHInStep, InUse
  <2>5. "aux" \in codecRegs'.clsh <=> InUse("aux", 6, 11)'
    BY <1>0, <1>1, <1>2, <2>1, <2>2 DEF OutInv, OutTypes, ClassHInStep, InUse
  <2> QED BY <2>3, <2>4, <2>5 DEF ClassHInStep
<1>7. RxclkInStep'
  BY <1>0, <1>1, <1>2, <1>3 DEF OutInv, OutTypes, ps, RxclkInStep
<1>8. FeedsApart'
  BY <1>0, <1>1, <1>2, <1>3 DEF OutInv, OutTypes, ps, FeedsApart, EarInStep, Feeds
<1>9. EarInStep'
  BY <1>0, <1>1, <1>2, <1>3 DEF OutInv, OutTypes, ps, EarInStep
<1>10. WatchInStep'
  BY <1>0, <1>1, <1>2, <1>3 DEF OutInv, OutTypes, ps, WatchInStep, FeedsApart, EarInStep, InUse, Feeds, Hph
<1>11. DepthInStep'
  BY <1>0, <1>1, <1>2, <1>3 DEF OutInv, OutTypes, ps, DepthInStep, FeedsApart, EarInStep, InUse, Feeds, Hph
<1>12. FedInStep'
  <2>1. "ear" \in ps <=> "ear" \in walk.up
    BY DEF ps, Paths
  <2>2. \A f \in Feeds : f \in codecRegs'.fed <=> f \in codecRegs.fed \/ f \in walk.up \/ ("ear" \in walk.up /\ f = earMux)
    BY <1>3, <2>1 DEF ps, Feeds, Paths
  <2>3. codecRegs'.earPath = IF "ear" \in walk.up THEN earMux ELSE codecRegs.earPath
    <3>1. CASE "ear" \in walk.up
      BY <1>3, <2>1, <3>1
    <3>2. CASE "ear" \notin walk.up
      BY <1>3, <2>1, <3>2
    <3> QED BY <3>1, <3>2
  <2> QED BY <1>0, <1>1, <1>2, <2>2, <2>3 DEF OutInv, OutTypes, FedInStep, InUse
<1>13. HphInStep'
  BY <1>0, <1>1, <1>2, <1>3 DEF OutInv, OutTypes, ps, HphInStep, InUse, Hph
<1> QED BY <1>4, <1>5, <1>6, <1>7, <1>8, <1>9, <1>10, <1>11, <1>12, <1>13 DEF OutInv

\* Step 12 of the walk keeps the invariant: SND_SOC_DAPM_PRE_PMU of the headphone amplifiers of ps, left before right.
LEMMA HphPreUpInv == ASSUME OutInv, DapmEvent, walk.at = 12 PROVE OutInv'
<1>0. OutTypes
  BY DEF OutInv
<1> DEFINE ps == Hph \cap walk.up
<1>1. /\ codecRegs' = HandleEvents(codecRegs, "paPreUp", ps)
      /\ walk' = [walk EXCEPT !.at = 13]
      /\ UNCHANGED <<wired, powered, goal, earMux, ldoh, lowPower, moved, shared>>
  BY <1>0, WalkLines DEF DapmEvent, WalkOn, OutTypes
<1>2. walk'.at = 13 /\ walk'.down = walk.down /\ walk'.up = walk.up
  BY <1>0, <1>1 DEF OutTypes
<1>p. ps \in SUBSET Hph
  OBVIOUS
<1> HIDE DEF ps
<1>3. /\ codecRegs' \in Regs
      /\ codecRegs'.wd = codecRegs.wd \cup ps
      /\ codecRegs'.clsh = codecRegs.clsh \cup ps
      /\ codecRegs'.ldohEn <=> codecRegs.ldohEn \/ (ldoh /\ ps # {})
      /\ codecRegs'.bypass <=> codecRegs.bypass \/ (lowPower /\ ps # {})
      /\ codecRegs'.delay <=> codecRegs.delay \/ ps # {}
      /\ codecRegs'.earPath = codecRegs.earPath /\ codecRegs'.fed = codecRegs.fed
      /\ codecRegs'.depth = codecRegs.depth /\ codecRegs'.flyback = codecRegs.flyback
      /\ (codecRegs'.curDet <=> codecRegs.curDet) /\ (codecRegs'.rxclk <=> codecRegs.rxclk)
  BY <1>0, <1>1, <1>p, HphPreUp DEF OutTypes
<1>4. OutTypes'
  BY <1>0, <1>1, <1>2, <1>3 DEF OutTypes, AtRest
<1>5. FlybackInStep'
  BY <1>0, <1>1, <1>2, <1>3 DEF OutInv, OutTypes, ps, FlybackInStep, Num, InUse
<1>6. ClassHInStep'
  BY <1>0, <1>1, <1>2, <1>3 DEF OutInv, OutTypes, ps, ClassHInStep, InUse, Hph, Paths
<1>7. RxclkInStep'
  BY <1>0, <1>1, <1>2, <1>3 DEF OutInv, OutTypes, ps, RxclkInStep
<1>8. FeedsApart'
  BY <1>0, <1>1, <1>2, <1>3 DEF OutInv, OutTypes, ps, FeedsApart, EarInStep, Feeds
<1>9. EarInStep'
  BY <1>0, <1>1, <1>2, <1>3 DEF OutInv, OutTypes, ps, EarInStep
<1>10. WatchInStep'
  <2>1. \A f : f \in codecRegs'.wd <=> f \in codecRegs.wd \/ (f \in Hph /\ f \in walk.up)
    BY <1>3 DEF ps
  <2>2. codecRegs'.earPath = codecRegs.earPath
    BY <1>3 DEF ps
  <2> QED BY <1>0, <1>1, <1>2, <2>1, <2>2 DEF OutInv, OutTypes, WatchInStep, FeedsApart, EarInStep, InUse, Feeds, Hph
<1>11. DepthInStep'
  BY <1>0, <1>1, <1>2, <1>3 DEF OutInv, OutTypes, ps, DepthInStep, FeedsApart, EarInStep, InUse, Feeds, Hph
<1>12. FedInStep'
  BY <1>0, <1>1, <1>2, <1>3 DEF OutInv, OutTypes, ps, FedInStep, FeedsApart, EarInStep, InUse, Feeds
<1>13. HphInStep'
  BY <1>0, <1>1, <1>2, <1>3 DEF OutInv, OutTypes, ps, HphInStep, InUse, Hph
<1> QED BY <1>4, <1>5, <1>6, <1>7, <1>8, <1>9, <1>10, <1>11, <1>12, <1>13 DEF OutInv

\* Step 13 of the walk keeps the invariant: SND_SOC_DAPM_POST_PMU of the headphone amplifiers of ps, left before right.
LEMMA HphPostUpInv == ASSUME OutInv, DapmEvent, walk.at = 13 PROVE OutInv'
<1>0. OutTypes
  BY DEF OutInv
<1> DEFINE ps == Hph \cap walk.up
<1>1. /\ codecRegs' = HandleEvents(codecRegs, "paPostUp", ps)
      /\ walk' = [walk EXCEPT !.at = 14]
      /\ UNCHANGED <<wired, powered, goal, earMux, ldoh, lowPower, moved, shared>>
  BY <1>0, WalkLines DEF DapmEvent, WalkOn, OutTypes
<1>2. walk'.at = 14 /\ walk'.down = walk.down /\ walk'.up = walk.up
  BY <1>0, <1>1 DEF OutTypes
<1>p. ps \in SUBSET Hph
  OBVIOUS
<1> HIDE DEF ps
<1>3. /\ codecRegs' \in Regs
      /\ \A f \in Feeds : codecRegs'.depth[f] = IF f \in ps /\ codecRegs.depth[f] > 0 THEN codecRegs.depth[f] - 1 ELSE codecRegs.depth[f]
      /\ codecRegs'.delay <=> codecRegs.delay /\ ps = {}
      /\ codecRegs'.bypass <=> codecRegs.bypass /\ ~(ps # {} /\ codecRegs.delay /\ lowPower)
      /\ codecRegs'.earPath = codecRegs.earPath /\ codecRegs'.fed = codecRegs.fed
      /\ codecRegs'.wd = codecRegs.wd /\ codecRegs'.clsh = codecRegs.clsh
      /\ codecRegs'.flyback = codecRegs.flyback /\ (codecRegs'.curDet <=> codecRegs.curDet)
      /\ (codecRegs'.ldohEn <=> codecRegs.ldohEn) /\ (codecRegs'.rxclk <=> codecRegs.rxclk)
  BY <1>0, <1>1, <1>p, HphPostUp DEF OutTypes
<1>4. OutTypes'
  BY <1>0, <1>1, <1>2, <1>3 DEF OutTypes, AtRest
<1>5. FlybackInStep'
  BY <1>0, <1>1, <1>2, <1>3 DEF OutInv, OutTypes, ps, FlybackInStep, Num, InUse
<1>6. ClassHInStep'
  BY <1>0, <1>1, <1>2, <1>3 DEF OutInv, OutTypes, ps, ClassHInStep, InUse, Hph, Paths
<1>7. RxclkInStep'
  BY <1>0, <1>1, <1>2, <1>3 DEF OutInv, OutTypes, ps, RxclkInStep
<1>8. FeedsApart'
  BY <1>0, <1>1, <1>2, <1>3 DEF OutInv, OutTypes, ps, FeedsApart, EarInStep, Feeds
<1>9. EarInStep'
  BY <1>0, <1>1, <1>2, <1>3 DEF OutInv, OutTypes, ps, EarInStep
<1>10. WatchInStep'
  BY <1>0, <1>1, <1>2, <1>3 DEF OutInv, OutTypes, ps, WatchInStep, FeedsApart, EarInStep, InUse, Feeds, Hph
<1>11. DepthInStep'
  BY <1>0, <1>1, <1>2, <1>3 DEF OutInv, OutTypes, ps, DepthInStep, FeedsApart, EarInStep, InUse, Feeds, Hph
<1>12. FedInStep'
  BY <1>0, <1>1, <1>2, <1>3 DEF OutInv, OutTypes, ps, FedInStep, FeedsApart, EarInStep, InUse, Feeds
<1>13. HphInStep'
  BY <1>0, <1>1, <1>2, <1>3 DEF OutInv, OutTypes, ps, HphInStep, InUse, Hph
<1> QED BY <1>4, <1>5, <1>6, <1>7, <1>8, <1>9, <1>10, <1>11, <1>12, <1>13 DEF OutInv

\* Step 14 of the walk keeps the invariant: SND_SOC_DAPM_PRE_PMU of the earpiece amplifier, if it is handled.
LEMMA EarPreUpInv == ASSUME OutInv, DapmEvent, walk.at = 14 PROVE OutInv'
<1>0. OutTypes
  BY DEF OutInv
<1> DEFINE ps == {"ear"} \cap walk.up
<1>1. /\ codecRegs' = HandleEvents(codecRegs, "paPreUp", ps)
      /\ walk' = [walk EXCEPT !.at = 15]
      /\ UNCHANGED <<wired, powered, goal, earMux, ldoh, lowPower, moved, shared>>
  BY <1>0, WalkLines DEF DapmEvent, WalkOn, OutTypes
<1>2. walk'.at = 15 /\ walk'.down = walk.down /\ walk'.up = walk.up
  BY <1>0, <1>1 DEF OutTypes
<1>p. ps \in SUBSET {"ear"}
  OBVIOUS
<1> HIDE DEF ps
<1>3. /\ codecRegs' \in Regs
      /\ codecRegs'.earPath = IF ps = {} THEN codecRegs.earPath ELSE earMux
      /\ codecRegs'.wd = IF ps = {} THEN codecRegs.wd ELSE codecRegs.wd \cup {earMux}
      /\ codecRegs'.fed = codecRegs.fed /\ codecRegs'.depth = codecRegs.depth
      /\ codecRegs'.clsh = codecRegs.clsh /\ codecRegs'.flyback = codecRegs.flyback
      /\ (codecRegs'.curDet <=> codecRegs.curDet)
      /\ (codecRegs'.ldohEn <=> codecRegs.ldohEn)
      /\ (codecRegs'.bypass <=> codecRegs.bypass) /\ (codecRegs'.delay <=> codecRegs.delay)
      /\ (codecRegs'.rxclk <=> codecRegs.rxclk)
  BY <1>0, <1>1, <1>p, EarPreUp DEF OutTypes
<1>4. OutTypes'
  BY <1>0, <1>1, <1>2, <1>3 DEF OutTypes, AtRest
<1>5. FlybackInStep'
  BY <1>0, <1>1, <1>2, <1>3 DEF OutInv, OutTypes, ps, FlybackInStep, Num, InUse
<1>6. ClassHInStep'
  BY <1>0, <1>1, <1>2, <1>3 DEF OutInv, OutTypes, ps, ClassHInStep, InUse, Hph, Paths
<1>7. RxclkInStep'
  BY <1>0, <1>1, <1>2, <1>3 DEF OutInv, OutTypes, ps, RxclkInStep
<1>8. FeedsApart'
  BY <1>0, <1>1, <1>2, <1>3 DEF OutInv, OutTypes, ps, FeedsApart, EarInStep, Feeds
<1>9. EarInStep'
  BY <1>0, <1>1, <1>2, <1>3 DEF OutInv, OutTypes, ps, EarInStep
<1>10. WatchInStep'
  <2>1. \A f : f \in codecRegs'.wd <=> f \in codecRegs.wd \/ (f = earMux /\ "ear" \in walk.up)
    BY <1>3 DEF ps
  <2>2. codecRegs'.earPath = IF "ear" \in walk.up THEN earMux ELSE codecRegs.earPath
    BY <1>3 DEF ps
  <2> QED BY <1>0, <1>1, <1>2, <2>1, <2>2 DEF OutInv, OutTypes, WatchInStep, FeedsApart, EarInStep, InUse, Feeds, Hph
<1>11. DepthInStep'
  BY <1>0, <1>1, <1>2, <1>3 DEF OutInv, OutTypes, ps, DepthInStep, FeedsApart, EarInStep, InUse, Feeds, Hph
<1>12. FedInStep'
  BY <1>0, <1>1, <1>2, <1>3 DEF OutInv, OutTypes, ps, FedInStep, FeedsApart, EarInStep, InUse, Feeds
<1>13. HphInStep'
  BY <1>0, <1>1, <1>2, <1>3 DEF OutInv, OutTypes, ps, HphInStep, InUse, Hph
<1> QED BY <1>4, <1>5, <1>6, <1>7, <1>8, <1>9, <1>10, <1>11, <1>12, <1>13 DEF OutInv

\* Step 15 of the walk keeps the invariant: SND_SOC_DAPM_POST_PMU of the earpiece amplifier, if it is handled.
LEMMA EarPostUpInv == ASSUME OutInv, DapmEvent, walk.at = 15 PROVE OutInv'
<1>0. OutTypes
  BY DEF OutInv
<1> DEFINE ps == {"ear"} \cap walk.up
<1>1. /\ codecRegs' = HandleEvents(codecRegs, "paPostUp", ps)
      /\ walk' = [walk EXCEPT !.at = 16]
      /\ UNCHANGED <<wired, powered, goal, earMux, ldoh, lowPower, moved, shared>>
  BY <1>0, WalkLines DEF DapmEvent, WalkOn, OutTypes
<1>2. walk'.at = 16 /\ walk'.down = walk.down /\ walk'.up = walk.up
  BY <1>0, <1>1 DEF OutTypes
<1>p. ps \in SUBSET {"ear"}
  OBVIOUS
<1> HIDE DEF ps
<1>3. /\ codecRegs' \in Regs
      /\ \A f \in Feeds : codecRegs'.depth[f] = IF ps # {} /\ f = codecRegs.earPath /\ codecRegs.depth[f] > 0 THEN codecRegs.depth[f] - 1 ELSE codecRegs.depth[f]
      /\ codecRegs'.earPath = codecRegs.earPath /\ codecRegs'.fed = codecRegs.fed
      /\ codecRegs'.wd = codecRegs.wd /\ codecRegs'.clsh = codecRegs.clsh
      /\ codecRegs'.flyback = codecRegs.flyback /\ (codecRegs'.curDet <=> codecRegs.curDet)
      /\ (codecRegs'.ldohEn <=> codecRegs.ldohEn)
      /\ (codecRegs'.bypass <=> codecRegs.bypass) /\ (codecRegs'.delay <=> codecRegs.delay)
      /\ (codecRegs'.rxclk <=> codecRegs.rxclk)
  BY <1>0, <1>1, <1>p, EarPostUp DEF OutTypes
<1>4. OutTypes'
  BY <1>0, <1>1, <1>2, <1>3 DEF OutTypes, AtRest
<1>5. FlybackInStep'
  BY <1>0, <1>1, <1>2, <1>3 DEF OutInv, OutTypes, ps, FlybackInStep, Num, InUse
<1>6. ClassHInStep'
  BY <1>0, <1>1, <1>2, <1>3 DEF OutInv, OutTypes, ps, ClassHInStep, InUse, Hph, Paths
<1>7. RxclkInStep'
  BY <1>0, <1>1, <1>2, <1>3 DEF OutInv, OutTypes, ps, RxclkInStep
<1>8. FeedsApart'
  BY <1>0, <1>1, <1>2, <1>3 DEF OutInv, OutTypes, ps, FeedsApart, EarInStep, Feeds
<1>9. EarInStep'
  BY <1>0, <1>1, <1>2, <1>3 DEF OutInv, OutTypes, ps, EarInStep
<1>10. WatchInStep'
  BY <1>0, <1>1, <1>2, <1>3 DEF OutInv, OutTypes, ps, WatchInStep, FeedsApart, EarInStep, InUse, Feeds, Hph
<1>11. DepthInStep'
  BY <1>0, <1>1, <1>2, <1>3 DEF OutInv, OutTypes, ps, DepthInStep, FeedsApart, EarInStep, InUse, Feeds, Hph
<1>12. FedInStep'
  BY <1>0, <1>1, <1>2, <1>3 DEF OutInv, OutTypes, ps, FedInStep, FeedsApart, EarInStep, InUse, Feeds
<1>13. HphInStep'
  BY <1>0, <1>1, <1>2, <1>3 DEF OutInv, OutTypes, ps, HphInStep, InUse, Hph
<1> QED BY <1>4, <1>5, <1>6, <1>7, <1>8, <1>9, <1>10, <1>11, <1>12, <1>13 DEF OutInv

\* Step 16 of the walk keeps the invariant: SND_SOC_DAPM_PRE_PMU of the auxiliary amplifier, if it is handled.
LEMMA AuxPreUpInv == ASSUME OutInv, DapmEvent, walk.at = 16 PROVE OutInv'
<1>0. OutTypes
  BY DEF OutInv
<1> DEFINE ps == {"aux"} \cap walk.up
<1>1. /\ codecRegs' = HandleEvents(codecRegs, "paPreUp", ps)
      /\ walk' = [walk EXCEPT !.at = 17]
      /\ UNCHANGED <<wired, powered, goal, earMux, ldoh, lowPower, moved, shared>>
  BY <1>0, WalkLines DEF DapmEvent, WalkOn, OutTypes
<1>2. walk'.at = 17 /\ walk'.down = walk.down /\ walk'.up = walk.up
  BY <1>0, <1>1 DEF OutTypes
<1>p. ps \in SUBSET {"aux"}
  OBVIOUS
<1> HIDE DEF ps
<1>3. /\ codecRegs' \in Regs
      /\ codecRegs'.wd = codecRegs.wd \cup ps
      /\ codecRegs'.earPath = codecRegs.earPath /\ codecRegs'.fed = codecRegs.fed
      /\ codecRegs'.depth = codecRegs.depth /\ codecRegs'.clsh = codecRegs.clsh
      /\ codecRegs'.flyback = codecRegs.flyback /\ (codecRegs'.curDet <=> codecRegs.curDet)
      /\ (codecRegs'.ldohEn <=> codecRegs.ldohEn)
      /\ (codecRegs'.bypass <=> codecRegs.bypass) /\ (codecRegs'.delay <=> codecRegs.delay)
      /\ (codecRegs'.rxclk <=> codecRegs.rxclk)
  BY <1>0, <1>1, <1>p, AuxPreUp DEF OutTypes
<1>4. OutTypes'
  BY <1>0, <1>1, <1>2, <1>3 DEF OutTypes, AtRest
<1>5. FlybackInStep'
  BY <1>0, <1>1, <1>2, <1>3 DEF OutInv, OutTypes, ps, FlybackInStep, Num, InUse
<1>6. ClassHInStep'
  BY <1>0, <1>1, <1>2, <1>3 DEF OutInv, OutTypes, ps, ClassHInStep, InUse, Hph, Paths
<1>7. RxclkInStep'
  BY <1>0, <1>1, <1>2, <1>3 DEF OutInv, OutTypes, ps, RxclkInStep
<1>8. FeedsApart'
  BY <1>0, <1>1, <1>2, <1>3 DEF OutInv, OutTypes, ps, FeedsApart, EarInStep, Feeds
<1>9. EarInStep'
  BY <1>0, <1>1, <1>2, <1>3 DEF OutInv, OutTypes, ps, EarInStep
<1>10. WatchInStep'
  <2>1. \A f : f \in codecRegs'.wd <=> f \in codecRegs.wd \/ (f = "aux" /\ "aux" \in walk.up)
    BY <1>3 DEF ps
  <2>2. codecRegs'.earPath = codecRegs.earPath
    BY <1>3 DEF ps
  <2> QED BY <1>0, <1>1, <1>2, <2>1, <2>2 DEF OutInv, OutTypes, WatchInStep, FeedsApart, EarInStep, InUse, Feeds, Hph
<1>11. DepthInStep'
  BY <1>0, <1>1, <1>2, <1>3 DEF OutInv, OutTypes, ps, DepthInStep, FeedsApart, EarInStep, InUse, Feeds, Hph
<1>12. FedInStep'
  BY <1>0, <1>1, <1>2, <1>3 DEF OutInv, OutTypes, ps, FedInStep, FeedsApart, EarInStep, InUse, Feeds
<1>13. HphInStep'
  BY <1>0, <1>1, <1>2, <1>3 DEF OutInv, OutTypes, ps, HphInStep, InUse, Hph
<1> QED BY <1>4, <1>5, <1>6, <1>7, <1>8, <1>9, <1>10, <1>11, <1>12, <1>13 DEF OutInv

\* Step 17 of the walk keeps the invariant: SND_SOC_DAPM_POST_PMU of the auxiliary amplifier, if it is handled.
LEMMA AuxPostUpInv == ASSUME OutInv, DapmEvent, walk.at = 17 PROVE OutInv'
<1>0. OutTypes
  BY DEF OutInv
<1> DEFINE ps == {"aux"} \cap walk.up
<1>1. /\ codecRegs' = HandleEvents(codecRegs, "paPostUp", ps)
      /\ walk' = AtRest
      /\ UNCHANGED <<wired, powered, goal, earMux, ldoh, lowPower, moved, shared>>
  BY <1>0, WalkLines DEF DapmEvent, WalkOn, OutTypes
<1>2. walk'.at = 0 /\ walk'.down = {} /\ walk'.up = {}
  BY <1>1 DEF AtRest
<1>p. ps \in SUBSET {"aux"}
  OBVIOUS
<1> HIDE DEF ps
<1>3. /\ codecRegs' \in Regs
      /\ \A f \in Feeds : codecRegs'.depth[f] = IF f \in ps /\ codecRegs.depth[f] > 0 THEN codecRegs.depth[f] - 1 ELSE codecRegs.depth[f]
      /\ codecRegs'.earPath = codecRegs.earPath /\ codecRegs'.fed = codecRegs.fed
      /\ codecRegs'.wd = codecRegs.wd /\ codecRegs'.clsh = codecRegs.clsh
      /\ codecRegs'.flyback = codecRegs.flyback /\ (codecRegs'.curDet <=> codecRegs.curDet)
      /\ (codecRegs'.ldohEn <=> codecRegs.ldohEn)
      /\ (codecRegs'.bypass <=> codecRegs.bypass) /\ (codecRegs'.delay <=> codecRegs.delay)
      /\ (codecRegs'.rxclk <=> codecRegs.rxclk)
  BY <1>0, <1>1, <1>p, AuxPostUp DEF OutTypes
<1>4. OutTypes'
  BY <1>0, <1>1, <1>2, <1>3 DEF OutTypes, AtRest
<1>5. FlybackInStep'
  BY <1>0, <1>1, <1>2, <1>3 DEF OutInv, OutTypes, ps, FlybackInStep, Num, InUse
<1>6. ClassHInStep'
  BY <1>0, <1>1, <1>2, <1>3 DEF OutInv, OutTypes, ps, ClassHInStep, InUse, Hph, Paths
<1>7. RxclkInStep'
  BY <1>0, <1>1, <1>2, <1>3 DEF OutInv, OutTypes, ps, RxclkInStep
<1>8. FeedsApart'
  BY <1>0, <1>1, <1>2, <1>3 DEF OutInv, OutTypes, ps, FeedsApart, EarInStep, Feeds
<1>9. EarInStep'
  BY <1>0, <1>1, <1>2, <1>3 DEF OutInv, OutTypes, ps, EarInStep
<1>10. WatchInStep'
  BY <1>0, <1>1, <1>2, <1>3 DEF OutInv, OutTypes, ps, WatchInStep, FeedsApart, EarInStep, InUse, Feeds, Hph
<1>11. DepthInStep'
  BY <1>0, <1>1, <1>2, <1>3 DEF OutInv, OutTypes, ps, DepthInStep, FeedsApart, EarInStep, InUse, Feeds, Hph
<1>12. FedInStep'
  BY <1>0, <1>1, <1>2, <1>3 DEF OutInv, OutTypes, ps, FedInStep, FeedsApart, EarInStep, InUse, Feeds
<1>13. HphInStep'
  BY <1>0, <1>1, <1>2, <1>3 DEF OutInv, OutTypes, ps, HphInStep, InUse, Hph
<1> QED BY <1>4, <1>5, <1>6, <1>7, <1>8, <1>9, <1>10, <1>11, <1>12, <1>13 DEF OutInv

\* Step 8 of the walk keeps the invariant: the clock goes with the last path.
LEMMA RxclkOffInv == ASSUME OutInv, DapmSupply, walk.at = 8 PROVE OutInv'
<1>0. OutTypes
  BY DEF OutInv
<1>1. /\ codecRegs' = IF goal = {} THEN [codecRegs EXCEPT !.rxclk = FALSE] ELSE codecRegs
      /\ walk' = [walk EXCEPT !.at = 9]
      /\ UNCHANGED <<wired, powered, goal, earMux, ldoh, lowPower, moved, shared>>
  BY <1>0, WalkLines DEF DapmSupply, WalkOn, OutTypes, EnableRxclk
<1>2. walk'.at = 9 /\ walk'.down = walk.down /\ walk'.up = walk.up
  BY <1>0, <1>1 DEF OutTypes
<1>3. /\ codecRegs' \in Regs /\ (codecRegs'.rxclk <=> codecRegs.rxclk /\ goal # {})
      /\ codecRegs'.earPath = codecRegs.earPath /\ codecRegs'.fed = codecRegs.fed /\ codecRegs'.wd = codecRegs.wd
      /\ codecRegs'.depth = codecRegs.depth /\ codecRegs'.clsh = codecRegs.clsh
      /\ codecRegs'.flyback = codecRegs.flyback /\ (codecRegs'.curDet <=> codecRegs.curDet)
      /\ (codecRegs'.ldohEn <=> codecRegs.ldohEn) /\ (codecRegs'.bypass <=> codecRegs.bypass)
      /\ (codecRegs'.delay <=> codecRegs.delay)
  BY <1>0, <1>1 DEF OutTypes, Regs
<1>4. OutTypes'
  BY <1>0, <1>1, <1>2, <1>3 DEF OutTypes, AtRest
<1>5. FlybackInStep'
  BY <1>0, <1>1, <1>2, <1>3 DEF OutInv, OutTypes, FlybackInStep, Num, InUse
<1>6. ClassHInStep'
  BY <1>0, <1>1, <1>2, <1>3 DEF OutInv, OutTypes, ClassHInStep, InUse, Hph, Paths
<1>7. RxclkInStep'
  BY <1>0, <1>1, <1>2, <1>3 DEF OutInv, OutTypes, RxclkInStep
<1>8. FeedsApart'
  BY <1>0, <1>1, <1>2, <1>3 DEF OutInv, OutTypes, FeedsApart, EarInStep, Feeds
<1>9. EarInStep'
  BY <1>0, <1>1, <1>2, <1>3 DEF OutInv, OutTypes, EarInStep
<1>10. WatchInStep'
  BY <1>0, <1>1, <1>2, <1>3 DEF OutInv, OutTypes, WatchInStep, FeedsApart, EarInStep, InUse, Feeds, Hph
<1>11. DepthInStep'
  BY <1>0, <1>1, <1>2, <1>3 DEF OutInv, OutTypes, DepthInStep, FeedsApart, EarInStep, InUse, Feeds, Hph
<1>12. FedInStep'
  BY <1>0, <1>1, <1>2, <1>3 DEF OutInv, OutTypes, FedInStep, FeedsApart, EarInStep, InUse, Feeds
<1>13. HphInStep'
  BY <1>0, <1>1, <1>2, <1>3 DEF OutInv, OutTypes, HphInStep, InUse, Hph
<1> QED BY <1>4, <1>5, <1>6, <1>7, <1>8, <1>9, <1>10, <1>11, <1>12, <1>13 DEF OutInv

\* Step 10 of the walk keeps the invariant: the clock comes with the first path.
LEMMA RxclkOnInv == ASSUME OutInv, DapmSupply, walk.at = 10 PROVE OutInv'
<1>0. OutTypes
  BY DEF OutInv
<1> DEFINE new == walk.down = {} /\ walk.up = goal
<1>1. /\ codecRegs' = IF new THEN [codecRegs EXCEPT !.rxclk = TRUE] ELSE codecRegs
      /\ walk' = [walk EXCEPT !.at = 11]
      /\ UNCHANGED <<wired, powered, goal, earMux, ldoh, lowPower, moved, shared>>
  BY <1>0, WalkLines DEF DapmSupply, WalkOn, OutTypes, EnableRxclk
<1>2. walk'.at = 11 /\ walk'.down = walk.down /\ walk'.up = walk.up
  BY <1>0, <1>1 DEF OutTypes
<1>3. /\ codecRegs' \in Regs /\ (codecRegs'.rxclk <=> codecRegs.rxclk \/ new)
      /\ codecRegs'.earPath = codecRegs.earPath /\ codecRegs'.fed = codecRegs.fed /\ codecRegs'.wd = codecRegs.wd
      /\ codecRegs'.depth = codecRegs.depth /\ codecRegs'.clsh = codecRegs.clsh
      /\ codecRegs'.flyback = codecRegs.flyback /\ (codecRegs'.curDet <=> codecRegs.curDet)
      /\ (codecRegs'.ldohEn <=> codecRegs.ldohEn) /\ (codecRegs'.bypass <=> codecRegs.bypass)
      /\ (codecRegs'.delay <=> codecRegs.delay)
  BY <1>0, <1>1 DEF OutTypes, Regs
<1>4. OutTypes'
  BY <1>0, <1>1, <1>2, <1>3 DEF OutTypes, AtRest
<1>5. FlybackInStep'
  BY <1>0, <1>1, <1>2, <1>3 DEF OutInv, OutTypes, FlybackInStep, Num, InUse
<1>6. ClassHInStep'
  BY <1>0, <1>1, <1>2, <1>3 DEF OutInv, OutTypes, ClassHInStep, InUse, Hph, Paths
<1>7. RxclkInStep'
  BY <1>0, <1>1, <1>2, <1>3 DEF OutInv, OutTypes, RxclkInStep
<1>8. FeedsApart'
  BY <1>0, <1>1, <1>2, <1>3 DEF OutInv, OutTypes, FeedsApart, EarInStep, Feeds
<1>9. EarInStep'
  BY <1>0, <1>1, <1>2, <1>3 DEF OutInv, OutTypes, EarInStep
<1>10. WatchInStep'
  BY <1>0, <1>1, <1>2, <1>3 DEF OutInv, OutTypes, WatchInStep, FeedsApart, EarInStep, InUse, Feeds, Hph
<1>11. DepthInStep'
  BY <1>0, <1>1, <1>2, <1>3 DEF OutInv, OutTypes, DepthInStep, FeedsApart, EarInStep, InUse, Feeds, Hph
<1>12. FedInStep'
  BY <1>0, <1>1, <1>2, <1>3 DEF OutInv, OutTypes, FedInStep, FeedsApart, EarInStep, InUse, Feeds
<1>13. HphInStep'
  BY <1>0, <1>1, <1>2, <1>3 DEF OutInv, OutTypes, HphInStep, InUse, Hph
<1> QED BY <1>4, <1>5, <1>6, <1>7, <1>8, <1>9, <1>10, <1>11, <1>12, <1>13 DEF OutInv

\* Step 9 of the walk keeps the invariant: the paths change over, and the earpiece may change its source.
LEMMA DapmUpdateInv == ASSUME OutInv, DapmUpdate, walk.at = 9 PROVE OutInv'
<1>0. OutTypes
  BY DEF OutInv
<1>1. /\ walk' = [walk EXCEPT !.at = 10] /\ powered' = goal /\ earMux' \in {"hphl", "aux"}
      /\ UNCHANGED <<wired, goal, codecRegs, ldoh, lowPower, moved>>
      /\ shared \subseteq shared'
      /\ "ear" \in goal => {earMux', codecRegs.earPath} \cap goal \subseteq shared'
  BY <1>0, WalkLines DEF DapmUpdate, WalkOn, OutTypes
<1>2. walk'.at = 10 /\ walk'.down = walk.down /\ walk'.up = walk.up
  BY <1>0, <1>1 DEF OutTypes
<1>4. OutTypes'
  BY <1>0, <1>1, <1>2 DEF OutTypes, AtRest
<1>5. FlybackInStep'
  BY <1>0, <1>1, <1>2 DEF OutInv, OutTypes, FlybackInStep, Num, InUse
<1>6. ClassHInStep'
  BY <1>0, <1>1, <1>2 DEF OutInv, OutTypes, ClassHInStep, InUse, Hph, Paths
<1>7. RxclkInStep'
  BY <1>0, <1>1, <1>2 DEF OutInv, OutTypes, RxclkInStep
<1>8. FeedsApart'
  BY <1>0, <1>1, <1>2 DEF OutInv, OutTypes, FeedsApart, EarInStep, Feeds
<1>9. EarInStep'
  BY <1>0, <1>1, <1>2 DEF OutInv, OutTypes, EarInStep
<1>10. WatchInStep'
  BY <1>0, <1>1, <1>2 DEF OutInv, OutTypes, WatchInStep, FeedsApart, EarInStep, InUse, Feeds, Hph
<1>11. DepthInStep'
  BY <1>0, <1>1, <1>2 DEF OutInv, OutTypes, DepthInStep, FeedsApart, EarInStep, InUse, Feeds, Hph
<1>12. FedInStep'
  BY <1>0, <1>1, <1>2 DEF OutInv, OutTypes, FedInStep, FeedsApart, EarInStep, InUse, Feeds
<1>13. HphInStep'
  BY <1>0, <1>1, <1>2 DEF OutInv, OutTypes, HphInStep, InUse, Hph
<1> QED BY <1>4, <1>5, <1>6, <1>7, <1>8, <1>9, <1>10, <1>11, <1>12, <1>13 DEF OutInv

\* A walk that begins keeps the invariant.
LEMMA DapmStartInv == ASSUME OutInv, DapmStart PROVE OutInv'
<1>0. OutTypes /\ walk.at = 0
  BY DEF OutInv, DapmStart, AtRest
<1>1. PICK new \in (SUBSET wired) \ {powered} :
        /\ goal' = new
        /\ walk' = [at |-> 1, down |-> powered \ new, up |-> new \ powered]
        /\ shared' = shared \cup IF "ear" \in new THEN {earMux, codecRegs.earPath} \cap new ELSE {}
  BY DEF DapmStart
<1>2. /\ walk'.at = 1 /\ walk'.down = powered \ goal' /\ walk'.up = goal' \ powered /\ goal = powered
      /\ goal' \subseteq Paths /\ walk'.down \cup walk'.up # {}
      /\ UNCHANGED <<wired, powered, codecRegs, earMux, ldoh, lowPower, moved>>
  <2>1. walk'.at = 1 /\ walk'.down = powered \ goal' /\ walk'.up = goal' \ powered
    BY <1>1
  <2>2. goal = powered /\ wired \subseteq Paths
    BY <1>0 DEF OutTypes
  <2>3. goal' \subseteq wired /\ goal' # powered
    BY <1>1
  <2>4. (powered \ goal') \cup (goal' \ powered) # {}
    BY <2>3
  <2> QED BY <2>1, <2>2, <2>3, <2>4 DEF DapmStart
<1>3. /\ shared \subseteq shared'
      /\ "ear" \in goal' => {earMux, codecRegs.earPath} \cap goal' \subseteq shared'
  BY <1>1
<1>4. OutTypes'
  BY <1>0, <1>1, <1>2 DEF OutTypes
<1>5. FlybackInStep'
  BY <1>0, <1>2, <1>3 DEF OutInv, OutTypes, FlybackInStep, Num, InUse
<1>6. ClassHInStep'
  BY <1>0, <1>2, <1>3 DEF OutInv, OutTypes, ClassHInStep, InUse, Hph, Paths
<1>7. RxclkInStep'
  BY <1>0, <1>2, <1>3 DEF OutInv, OutTypes, RxclkInStep
<1>8. FeedsApart'
  BY <1>0, <1>2, <1>3 DEF OutInv, OutTypes, FeedsApart, EarInStep, Feeds
<1>9. EarInStep'
  BY <1>0, <1>2, <1>3 DEF OutInv, OutTypes, EarInStep
<1>10. WatchInStep'
  BY <1>0, <1>2, <1>3 DEF OutInv, OutTypes, WatchInStep, FeedsApart, EarInStep, InUse, Feeds, Hph
<1>11. DepthInStep'
  BY <1>0, <1>2, <1>3 DEF OutInv, OutTypes, DepthInStep, FeedsApart, EarInStep, InUse, Feeds, Hph
<1>12. FedInStep'
  BY <1>0, <1>2, <1>3 DEF OutInv, OutTypes, FedInStep, FeedsApart, EarInStep, InUse, Feeds
<1>13. HphInStep'
  BY <1>0, <1>2, <1>3 DEF OutInv, OutTypes, HphInStep, InUse, Hph
<1> QED BY <1>4, <1>5, <1>6, <1>7, <1>8, <1>9, <1>10, <1>11, <1>12, <1>13 DEF OutInv

\* wcd938x_ldoh_put() keeps the invariant, also in the middle of a walk.
LEMMA LdohPutInv == ASSUME OutInv, LdohPut PROVE OutInv'
<1>0. OutTypes
  BY DEF OutInv
<1>1. /\ ldoh' = ~ldoh /\ moved \subseteq moved' /\ (HphInUse => "ldoh" \in moved')
      /\ UNCHANGED <<wired, powered, goal, walk, codecRegs, earMux, lowPower, shared>>
  BY DEF LdohPut
<1>4. OutTypes'
  BY <1>0, <1>1 DEF OutTypes
<1>5. FlybackInStep'
  BY <1>0, <1>1 DEF OutInv, OutTypes, FlybackInStep, Num, InUse, HphInUse
<1>6. ClassHInStep'
  BY <1>0, <1>1 DEF OutInv, OutTypes, ClassHInStep, InUse, Hph, Paths, HphInUse
<1>7. RxclkInStep'
  BY <1>0, <1>1 DEF OutInv, OutTypes, RxclkInStep, HphInUse
<1>8. FeedsApart'
  BY <1>0, <1>1 DEF OutInv, OutTypes, FeedsApart, EarInStep, Feeds, HphInUse
<1>9. EarInStep'
  BY <1>0, <1>1 DEF OutInv, OutTypes, EarInStep, HphInUse
<1>10. WatchInStep'
  BY <1>0, <1>1 DEF OutInv, OutTypes, WatchInStep, FeedsApart, EarInStep, InUse, Feeds, Hph, HphInUse
<1>11. DepthInStep'
  BY <1>0, <1>1 DEF OutInv, OutTypes, DepthInStep, FeedsApart, EarInStep, InUse, Feeds, Hph, HphInUse
<1>12. FedInStep'
  BY <1>0, <1>1 DEF OutInv, OutTypes, FedInStep, FeedsApart, EarInStep, InUse, Feeds, HphInUse
<1>13. HphInStep'
  BY <1>0, <1>1 DEF OutInv, OutTypes, HphInStep, InUse, Hph, HphInUse
<1> QED BY <1>4, <1>5, <1>6, <1>7, <1>8, <1>9, <1>10, <1>11, <1>12, <1>13 DEF OutInv

\* wcd938x_rx_hph_mode_put() keeps the invariant, also in the middle of a walk.
LEMMA HphModePutInv == ASSUME OutInv, HphModePut PROVE OutInv'
<1>0. OutTypes
  BY DEF OutInv
<1>1. /\ lowPower' = ~lowPower /\ moved \subseteq moved' /\ (HphInUse => "mode" \in moved')
      /\ UNCHANGED <<wired, powered, goal, walk, codecRegs, earMux, ldoh, shared>>
  BY DEF HphModePut
<1>4. OutTypes'
  BY <1>0, <1>1 DEF OutTypes
<1>5. FlybackInStep'
  BY <1>0, <1>1 DEF OutInv, OutTypes, FlybackInStep, Num, InUse, HphInUse
<1>6. ClassHInStep'
  BY <1>0, <1>1 DEF OutInv, OutTypes, ClassHInStep, InUse, Hph, Paths, HphInUse
<1>7. RxclkInStep'
  BY <1>0, <1>1 DEF OutInv, OutTypes, RxclkInStep, HphInUse
<1>8. FeedsApart'
  BY <1>0, <1>1 DEF OutInv, OutTypes, FeedsApart, EarInStep, Feeds, HphInUse
<1>9. EarInStep'
  BY <1>0, <1>1 DEF OutInv, OutTypes, EarInStep, HphInUse
<1>10. WatchInStep'
  BY <1>0, <1>1 DEF OutInv, OutTypes, WatchInStep, FeedsApart, EarInStep, InUse, Feeds, Hph, HphInUse
<1>11. DepthInStep'
  BY <1>0, <1>1 DEF OutInv, OutTypes, DepthInStep, FeedsApart, EarInStep, InUse, Feeds, Hph, HphInUse
<1>12. FedInStep'
  BY <1>0, <1>1 DEF OutInv, OutTypes, FedInStep, FeedsApart, EarInStep, InUse, Feeds, HphInUse
<1>13. HphInStep'
  BY <1>0, <1>1 DEF OutInv, OutTypes, HphInStep, InUse, Hph, HphInUse
<1> QED BY <1>4, <1>5, <1>6, <1>7, <1>8, <1>9, <1>10, <1>11, <1>12, <1>13 DEF OutInv

\* The codec starts with nothing powered.
LEMMA OutInitInv == OutInit => OutInv
<1> SUFFICES ASSUME OutInit PROVE OutInv
  OBVIOUS
<1>1. /\ codecRegs.earPath = "hphl" /\ codecRegs.fed = {} /\ codecRegs.wd = {} /\ codecRegs.clsh = {}
      /\ codecRegs.flyback = 0 /\ codecRegs.curDet /\ ~codecRegs.ldohEn /\ ~codecRegs.bypass
      /\ ~codecRegs.delay /\ ~codecRegs.rxclk /\ \A f \in Feeds : codecRegs.depth[f] = 1
  BY DEF OutInit
<1>2. walk.at = 0 /\ walk.down = {} /\ walk.up = {} /\ powered = {} /\ goal = {}
  BY DEF OutInit, AtRest
<1>3. codecRegs \in Regs
  BY DEF OutInit, Regs
<1>4. OutTypes
  <2>1. wired \subseteq Paths
    BY OutputsAssumption DEF OutInit
  <2>2. walk = AtRest /\ walk \in [at : 0 .. 17, down : SUBSET Paths, up : SUBSET Paths]
    BY DEF OutInit, AtRest
  <2> QED BY <1>2, <1>3, <2>1, <2>2 DEF OutInit, OutTypes
<1>5. FlybackInStep
  BY <1>1, <1>2 DEF FlybackInStep, Num, InUse
<1>6. ClassHInStep
  BY <1>1, <1>2 DEF ClassHInStep, InUse, Hph, Paths
<1>7. RxclkInStep
  BY <1>1, <1>2 DEF RxclkInStep
<1>8. FeedsApart
  BY <1>1, <1>2 DEF FeedsApart, EarInStep, Feeds
<1>9. EarInStep
  BY <1>1, <1>2 DEF EarInStep
<1>10. WatchInStep
  BY <1>1, <1>2 DEF WatchInStep, FeedsApart, EarInStep, InUse, Feeds, Hph
<1>11. DepthInStep
  BY <1>1, <1>2 DEF DepthInStep, FeedsApart, EarInStep, InUse, Feeds, Hph
<1>12. FedInStep
  BY <1>1, <1>2 DEF FedInStep, FeedsApart, EarInStep, InUse, Feeds
<1>13. HphInStep
  BY <1>1, <1>2 DEF HphInStep, InUse, Hph
<1> QED BY <1>4, <1>5, <1>6, <1>7, <1>8, <1>9, <1>10, <1>11, <1>12, <1>13 DEF OutInv

\* Every step of the outputs keeps the invariant.
LEMMA OutNextInv == OutInv /\ [OutNext]_outVars => OutInv'
<1> SUFFICES ASSUME OutInv, [OutNext]_outVars PROVE OutInv'
  OBVIOUS
<1>0. walk.at \in 0 .. 17
  BY DEF OutInv, OutTypes
<1>1. ASSUME DapmEvent PROVE OutInv'
  <2>1. walk.at \in {1, 2, 3, 4, 5, 6, 7, 11, 12, 13, 14, 15, 16, 17}
    BY <1>0, <1>1, WalkLines DEF DapmEvent
  <2> QED BY <1>1, <2>1, HphPreDownInv, HphPostDownInv, EarPreDownInv, EarPostDownInv, AuxPreDownInv, AuxPostDownInv, DacsDownInv, DacsUpInv, HphPreUpInv, HphPostUpInv, EarPreUpInv, EarPostUpInv, AuxPreUpInv, AuxPostUpInv
<1>2. ASSUME DapmUpdate PROVE OutInv'
  <2>1. walk.at = 9
    BY <1>0, <1>2, WalkLines DEF DapmUpdate
  <2> QED BY <1>2, <2>1, DapmUpdateInv
<1>3. ASSUME DapmSupply PROVE OutInv'
  <2>1. walk.at \in {8, 10}
    BY <1>0, <1>3, WalkLines DEF DapmSupply
  <2> QED BY <1>3, <2>1, RxclkOffInv, RxclkOnInv
<1>4. CASE UNCHANGED outVars
  BY <1>4 DEF outVars, OutInv, OutTypes, FlybackInStep, ClassHInStep, RxclkInStep, FeedsApart, EarInStep,
              WatchInStep, DepthInStep, FedInStep, HphInStep, InUse
<1> QED BY <1>1, <1>2, <1>3, <1>4, DapmStartInv, LdohPutInv, HphModePutInv DEF OutNext

\* The paths that use the flyback converter, counted.
LEMMA OthersCounted ==
    ASSUME powered \subseteq Paths
    PROVE  Cardinality(powered \ Hph) = Num("ear" \in powered) + Num("aux" \in powered)
<1>1. Cardinality({}) = 0
  BY FS_EmptySet
<1>2. Cardinality({"ear"}) = 1 /\ Cardinality({"aux"}) = 1 /\ IsFiniteSet({"ear"})
  BY FS_Singleton
<1>3. Cardinality({"ear"} \cup {"aux"}) = 2
  BY <1>2, FS_AddElement
<1>4. powered \ Hph = (IF "ear" \in powered THEN {"ear"} ELSE {}) \cup (IF "aux" \in powered THEN {"aux"} ELSE {})
  BY DEF Hph, Paths
<1>5. CASE "ear" \in powered /\ "aux" \in powered
  BY <1>3, <1>4, <1>5 DEF Num
<1>6. CASE "ear" \in powered /\ "aux" \notin powered
  <2>1. powered \ Hph = {"ear"}
    BY <1>4, <1>6
  <2> QED BY <1>2, <1>6, <2>1 DEF Num
<1>7. CASE "ear" \notin powered /\ "aux" \in powered
  <2>1. powered \ Hph = {"aux"}
    BY <1>4, <1>7
  <2> QED BY <1>2, <1>7, <2>1 DEF Num
<1>8. CASE "ear" \notin powered /\ "aux" \notin powered
  <2>1. powered \ Hph = {}
    BY <1>4, <1>8
  <2> QED BY <1>1, <1>8, <2>1 DEF Num
<1> QED BY <1>5, <1>6, <1>7, <1>8

\* The invariant implies what the outputs promise once DAPM has settled.
LEMMA OutInvSafe == OutInv => OutputsSafe
<1> SUFFICES ASSUME OutInv PROVE OutputsSafe
  OBVIOUS
<1>0. OutTypes
  BY DEF OutInv
<1>1. OutTypeOK
  BY <1>0 DEF OutTypes, OutTypeOK, Regs
<1>2. ASSUME DapmSettled
      PROVE  walk.at = 0 /\ walk.down = {} /\ walk.up = {} /\ goal = powered
  BY <1>0, <1>2 DEF DapmSettled, AtRest, OutTypes
<1>3. FlybackBalanced
  <2>1. codecRegs.curDet <=> codecRegs.flyback = 0
    BY DEF OutInv, FlybackInStep
  <2>2. ASSUME DapmSettled PROVE codecRegs.flyback = Num("ear" \in powered) + Num("aux" \in powered)
    BY <1>2, <2>2 DEF OutInv, FlybackInStep, InUse, Num
  <2> QED BY <1>0, <2>1, <2>2, OthersCounted DEF FlybackBalanced, OutTypes
<1>4. ClassHTracks
  <2> SUFFICES ASSUME DapmSettled PROVE codecRegs.clsh = powered /\ (codecRegs.rxclk <=> powered # {})
    BY DEF ClassHTracks
  <2>1. \A p \in Paths : p \in codecRegs.clsh <=> p \in powered
    BY <1>2 DEF OutInv, ClassHInStep, InUse, Paths, Hph
  <2>2. codecRegs.rxclk <=> powered # {}
    BY <1>2 DEF OutInv, RxclkInStep
  <2>3. codecRegs.clsh \subseteq Paths /\ powered \subseteq Paths
    BY <1>0 DEF OutTypes, Regs
  <2> QED BY <2>1, <2>2, <2>3
<1>5. WatchedWhilePlaying
  BY <1>2 DEF WatchedWhilePlaying, OutInv, WatchInStep, DepthInStep, FedInStep, InUse
<1>6. HphSettled
  BY <1>2 DEF HphSettled, OutInv, HphInStep, InUse, Hph
<1> QED BY <1>1, <1>3, <1>4, <1>5, <1>6 DEF OutputsSafe

\* The output paths (wcd938x.c, the event handlers of the DACs and amplifiers) keep what
\* they share in step for every set of boards: once DAPM has settled, the flyback count is
\* the number of its users, the class-H controller knows the paths that play, and every feed
\* that the earpiece did not share is watched, with its interrupt on, exactly while it plays.
THEOREM OutIsSafe == OutSpec => []OutputsSafe
BY OutInitInv, OutNextInv, OutInvSafe, PTL DEF OutSpec

-----------------------------------------------------------------------------
(* Microphone bias                                                         *)

CountOps == {"on", "off", "pullOn", "pullOff"}
CountCalls ==
    [op : CountOps, at : {"load", "store", "test"}, r : Nat, w : {"none"}]
      \cup [op : CountOps, at : {"write"}, r : Nat, w : {"on", "off", "pull"}]
AdjustCalls == [op : {"adjust"}, at : {"read", "pull", "vout", "again"}, r : {0, 1}, w : {"low", "high"}]

BiasTypes ==
    /\ micbRef \in Nat /\ pullRef \in Nat /\ micb \in {"off", "pull", "on"}
    /\ vout \in {"low", "high"} /\ mv2 \in {"low", "high"} /\ mv3 \in {"low", "high"}
    /\ detecting \in BOOLEAN /\ biasRaced \subseteq {"refs", "voltage"}
    /\ holds \in [Callers -> SUBSET {"bias", "pull"}]
    /\ call \in [Callers -> {NoCall} \cup CountCalls \cup AdjustCalls]
    /\ call["dapm"] \notin AdjustCalls

Adjusting == call["mbhc"].at \in {"read", "pull", "vout", "again"}
Counts(c) == call[c].at \in {"load", "store", "test", "write"}

(* Calls that overlap are remembered. *)
CallsAlone ==
    /\ "refs" \notin biasRaced => ~(Counts("dapm") /\ Counts("mbhc"))
    /\ biasRaced = {} => call["dapm"] = NoCall \/ call["mbhc"] = NoCall

Has(x, c) == IF x \in holds[c] THEN 1 ELSE 0
Owed(c, up, down) ==
    IF call[c].at \notin {"load", "store"} THEN 0
    ELSE IF call[c].op = up THEN 1 ELSE IF call[c].op = down THEN -1 ELSE 0

(* The counters are the holders, but for what the call under way has still   *)
(* to add or to take; what it has read is what the counter is.               *)
RefsInStep ==
    "refs" \notin biasRaced =>
      /\ micbRef + Owed("dapm", "on", "off") + Owed("mbhc", "on", "off") = Has("bias", "dapm") + Has("bias", "mbhc")
      /\ pullRef + Owed("dapm", "pullOn", "pullOff") + Owed("mbhc", "pullOn", "pullOff")
           = Has("pull", "dapm") + Has("pull", "mbhc")
      /\ \A c \in Callers : call[c].at = "store" =>
           call[c].r = IF call[c].op \in {"on", "off"} THEN micbRef ELSE pullRef

(* The call under way is about to turn the bias on. *)
TurnsOn(c) ==
    \/ call[c].at = "write" /\ call[c].w = "on"
    \/ call[c].at = "test" /\ call[c].op = "on" /\ micbRef = 1
(* The change of the voltage has taken the bias off and will put it back.    *)
PutsBack == call["mbhc"].at \in {"vout", "again"} /\ call["mbhc"].r = 1

(* A counted bias is on, or about to be; only an uncounted one is about to   *)
(* be turned off.                                                            *)
FieldInStep ==
    "refs" \notin biasRaced =>
      /\ micbRef > 0 => micb = "on" \/ TurnsOn("dapm") \/ TurnsOn("mbhc") \/ PutsBack
      /\ \A c \in Callers : call[c].at = "write" /\ call[c].w # "on" => micbRef = 0

(* The field the counters ask for. *)
Wanted(m, p) == IF m > 0 THEN "on" ELSE IF p > 0 THEN "pull" ELSE "off"

RestOf(c) ==
    /\ call[c].at \in {"load", "store", "read", "pull"} => micb = Wanted(micbRef, pullRef)
    /\ call[c].at = "test" =>
         CASE call[c].op = "on" -> micbRef > 0 /\ micb = Wanted(micbRef - 1, pullRef)
           [] call[c].op = "off" -> micb = Wanted(micbRef + 1, pullRef)
           [] call[c].op = "pullOn" -> pullRef > 0 /\ micb = Wanted(micbRef, pullRef - 1)
           [] OTHER -> micb = Wanted(micbRef, pullRef + 1)
    /\ call[c].at = "write" => call[c].w = Wanted(micbRef, pullRef)
    /\ call[c].at = "pull" => (call[c].r = 1 <=> micb = "on")
    /\ call[c].at \in {"vout", "again"} =>
         IF call[c].r = 1 THEN micbRef > 0 ELSE micb = Wanted(micbRef, pullRef)

(* With no calls that overlap, the field is what the counters asked for when *)
(* the call under way began, and what it will write is what they ask for.    *)
RestInStep ==
    biasRaced = {} =>
      /\ (\A c \in Callers : call[c] = NoCall) => micb = Wanted(micbRef, pullRef)
      /\ \A c \in Callers : RestOf(c)

(* The detection sets the voltage it wants and restores the low one; with a  *)
(* high bias 3 it leaves the voltage alone.                                  *)
VoltInStep ==
    /\ mv3 = "high" => vout = mv2 /\ ~Adjusting
    /\ mv2 = "low" /\ mv3 = "low" =>
         /\ Adjusting => call["mbhc"].w = IF detecting THEN "high" ELSE "low"
         /\ ~Adjusting \/ call["mbhc"].at = "again" => vout = IF detecting THEN "high" ELSE "low"

BiasInv == BiasTypes /\ CallsAlone /\ RefsInStep /\ FieldInStep /\ RestInStep /\ VoltInStep


(* What a call may look like, by its place. *)
LEMMA CallShapes ==
    ASSUME BiasTypes, NEW c \in Callers
    PROVE  /\ call[c] = NoCall <=> call[c].at = "none"
           /\ Counts(c) => call[c].op \in CountOps /\ call[c].r \in Nat /\ call[c] \notin AdjustCalls
           /\ call[c].at \in {"load", "store", "test"} => call[c] \in [op : CountOps, at : {"load", "store", "test"}, r : Nat, w : {"none"}]
           /\ call[c].at = "write" => call[c].w \in {"on", "off", "pull"}
           /\ call[c].at \in {"read", "pull", "vout", "again"} => c = "mbhc" /\ call[c] \in AdjustCalls
           /\ call[c] \in AdjustCalls => call[c].at \in {"read", "pull", "vout", "again"} /\ call[c].op = "adjust"
           /\ call[c].at \in {"none", "load", "store", "test", "write", "read", "pull", "vout", "again"}
<1>1. CASE call[c] = NoCall
  BY <1>1 DEF NoCall, Counts, AdjustCalls
<1>2. CASE call[c] \in CountCalls
  BY <1>2 DEF NoCall, Counts, CountCalls, AdjustCalls, CountOps
<1>3. CASE call[c] \in AdjustCalls
  BY <1>3 DEF NoCall, Counts, AdjustCalls, BiasTypes, Callers
<1> QED BY <1>1, <1>2, <1>3 DEF BiasTypes

\* Nobody holds the bias at the start.
LEMMA BiasInitInv == BiasInit => BiasInv
<1> SUFFICES ASSUME BiasInit PROVE BiasInv
  OBVIOUS
<1>1. call["dapm"] = NoCall /\ call["mbhc"] = NoCall /\ NoCall.at = "none" /\ NoCall \notin AdjustCalls
  BY DEF BiasInit, Callers, NoCall, AdjustCalls
<1>2. BiasTypes
  BY <1>1 DEF BiasInit, BiasTypes
<1>3. CallsAlone /\ RefsInStep
  BY <1>1 DEF BiasInit, CallsAlone, RefsInStep, Counts, Owed, Has, Callers
<1>4. FieldInStep /\ RestInStep /\ VoltInStep
  BY <1>1 DEF BiasInit, FieldInStep, RestInStep, RestOf, Wanted, VoltInStep, Adjusting, Callers
<1> QED BY <1>2, <1>3, <1>4 DEF BiasInv

(* A call that begins while another is under way is remembered. *)
LEMMA BeginsRaced ==
    ASSUME BiasTypes, NEW c \in Callers, NEW c1, Begins(c, c1)
    PROVE  /\ biasRaced \subseteq biasRaced' /\ biasRaced' \subseteq {"refs", "voltage"}
           /\ call[c] = NoCall /\ call' = [call EXCEPT ![c] = c1]
           /\ \A d \in Callers \ {c} : call[d] # NoCall =>
                IF "adjust" \in {c1.op, call[d].op} THEN "voltage" \in biasRaced' ELSE "refs" \in biasRaced'
<1>1. biasRaced' = biasRaced \cup { IF "adjust" \in {c1.op, call[d].op} THEN "voltage" ELSE "refs"
                                   : d \in { d \in Callers \ {c} : Busy(d) } }
  BY DEF Begins
<1>2. \A d \in Callers \ {c} : call[d] # NoCall => d \in { e \in Callers \ {c} : Busy(e) }
  BY DEF Busy
<1>3. biasRaced \subseteq biasRaced' /\ biasRaced' \subseteq {"refs", "voltage"}
  BY <1>1 DEF BiasTypes
<1>4. ASSUME NEW d \in Callers \ {c}, call[d] # NoCall
      PROVE  IF "adjust" \in {c1.op, call[d].op} THEN "voltage" \in biasRaced' ELSE "refs" \in biasRaced'
  BY <1>1, <1>2, <1>4
<1>5. call[c] = NoCall /\ call' = [call EXCEPT ![c] = c1]
  BY DEF Begins, Busy
<1> QED BY <1>3, <1>4, <1>5

\* The start of a wcd938x_micbias_control call keeps the invariant.
LEMMA RequestMicbiasInv == ASSUME BiasInv, NEW c \in Callers, NEW op \in DOMAIN Ops, RequestMicbias(c, op) PROVE BiasInv'
<1>0. BiasTypes /\ "dapm" \in Callers /\ "mbhc" \in Callers
  BY DEF BiasInv, Callers
<1>s. /\ call["dapm"] = NoCall <=> call["dapm"].at = "none"
      /\ call["mbhc"] = NoCall <=> call["mbhc"].at = "none"
  BY <1>0, CallShapes
<1> DEFINE c1 == [op |-> op, at |-> "load", r |-> 0, w |-> "none"]
<1>a. /\ biasRaced \subseteq biasRaced' /\ biasRaced' \subseteq {"refs", "voltage"}
      /\ call[c] = NoCall /\ call' = [call EXCEPT ![c] = c1]
      /\ \A d \in Callers \ {c} : call[d] # NoCall =>
           IF "adjust" \in {c1.op, call[d].op} THEN "voltage" \in biasRaced' ELSE "refs" \in biasRaced'
  BY <1>0, BeginsRaced DEF RequestMicbias
<1>b. op \in CountOps /\ c1 \in CountCalls /\ c1 \notin AdjustCalls /\ c1.op = op /\ c1.at = "load"
  BY DEF Ops, CountOps, CountCalls, AdjustCalls
<1>1. BiasTypes'
  <2>1. holds' \in [Callers -> SUBSET {"bias", "pull"}]
    BY <1>0 DEF RequestMicbias, BiasTypes, Ops
  <2>2. call' \in [Callers -> {NoCall} \cup CountCalls \cup AdjustCalls] /\ call'["dapm"] \notin AdjustCalls
    BY <1>0, <1>a, <1>b DEF BiasTypes
  <2> QED BY <1>0, <1>a, <2>1, <2>2 DEF RequestMicbias, BiasTypes
<1>2. CallsAlone'
  <2>1. \A d \in Callers \ {c} : Counts(d)' => "refs" \in biasRaced'
    <3> SUFFICES ASSUME NEW d \in Callers \ {c}, Counts(d)' PROVE "refs" \in biasRaced'
      OBVIOUS
    <3>1. call'[d] = call[d] /\ Counts(d)
      BY <1>a DEF Counts, BiasInv, BiasTypes
    <3>2. call[d] # NoCall /\ call[d].op # "adjust"
      BY <1>0, <3>1, CallShapes DEF Counts, CountOps
    <3> QED BY <1>a, <1>b, <3>2 DEF CountOps
  <2>2. \A d \in Callers \ {c} : call'[d] # NoCall => biasRaced' # {}
    BY <1>a DEF BiasInv, BiasTypes
  <2> QED BY <2>1, <2>2 DEF CallsAlone, Callers
<1>3. RefsInStep'
  BY <1>0, <1>1, CallShapes, SMTT(30) DEF BiasInv, BiasTypes, RequestMicbias, Begins, Busy, Ops, RefsInStep, Owed, Has, CallsAlone, Counts, Callers, NoCall
<1>4. FieldInStep'
  BY <1>0, <1>1, CallShapes DEF BiasInv, BiasTypes, RequestMicbias, Begins, Busy, Ops, FieldInStep, TurnsOn, PutsBack, CallsAlone, Counts, RefsInStep, Callers, NoCall
<1>5. RestInStep'
  BY <1>0, <1>1, CallShapes DEF BiasInv, BiasTypes, RequestMicbias, Begins, Busy, Ops, RestInStep, RestOf, Wanted, CallsAlone, Callers, NoCall
<1>6. VoltInStep'
  BY <1>0, <1>1, CallShapes DEF BiasInv, BiasTypes, RequestMicbias, Begins, Busy, Ops, VoltInStep, Adjusting, Callers, NoCall
<1> QED BY <1>1, <1>2, <1>3, <1>4, <1>5, <1>6 DEF BiasInv

\* The read of a counter keeps the invariant.
LEMMA LoadRefInv == ASSUME BiasInv, NEW c \in Callers, LoadRef(c) PROVE BiasInv'
<1>0. BiasTypes /\ "dapm" \in Callers /\ "mbhc" \in Callers
  BY DEF BiasInv, Callers
<1>s. /\ call["dapm"] = NoCall <=> call["dapm"].at = "none"
      /\ call["mbhc"] = NoCall <=> call["mbhc"].at = "none"
  BY <1>0, CallShapes
<1>1. BiasTypes'
  BY <1>0, CallShapes DEF LoadRef, BiasTypes, Callers, NoCall, CountCalls, CountOps, AdjustCalls, Counts
<1>2. CallsAlone'
  BY <1>0, <1>1, CallShapes DEF BiasInv, BiasTypes, LoadRef, CallsAlone, Counts, Callers, NoCall
<1>3. RefsInStep'
  BY <1>0, <1>1, CallShapes, SMTT(30) DEF BiasInv, BiasTypes, LoadRef, RefsInStep, Owed, Has, CallsAlone, Counts, Callers, NoCall
<1>4. FieldInStep'
  BY <1>0, <1>1, CallShapes DEF BiasInv, BiasTypes, LoadRef, FieldInStep, TurnsOn, PutsBack, CallsAlone, Counts, RefsInStep, Callers, NoCall
<1>5. RestInStep'
  BY <1>0, <1>1, CallShapes DEF BiasInv, BiasTypes, LoadRef, RestInStep, RestOf, Wanted, CallsAlone, Callers, NoCall
<1>6. VoltInStep'
  BY <1>0, <1>1, CallShapes DEF BiasInv, BiasTypes, LoadRef, VoltInStep, Adjusting, Callers, NoCall
<1> QED BY <1>1, <1>2, <1>3, <1>4, <1>5, <1>6 DEF BiasInv

\* The write of the counter keeps the invariant.
LEMMA StoreRefInv == ASSUME BiasInv, NEW c \in Callers, StoreRef(c) PROVE BiasInv'
<1>0. BiasTypes /\ "dapm" \in Callers /\ "mbhc" \in Callers
  BY DEF BiasInv, Callers
<1>s. /\ call["dapm"] = NoCall <=> call["dapm"].at = "none"
      /\ call["mbhc"] = NoCall <=> call["mbhc"].at = "none"
  BY <1>0, CallShapes
<1>1. BiasTypes'
  BY <1>0, CallShapes DEF StoreRef, BiasTypes, Callers, NoCall, CountCalls, CountOps, AdjustCalls, Counts
<1>2. CallsAlone'
  BY <1>0, <1>1, CallShapes DEF BiasInv, BiasTypes, StoreRef, CallsAlone, Counts, Callers, NoCall
<1>a. /\ call[c].at = "store" /\ call[c].op \in CountOps /\ call[c].r \in Nat /\ call[c].w = "none"
      /\ call' = [call EXCEPT ![c].at = "test", ![c].r = 0] /\ UNCHANGED <<holds, biasRaced, micb>>
  BY <1>0, CallShapes DEF StoreRef, Counts
<1>b. ASSUME "refs" \notin biasRaced
      PROVE  /\ \A d \in Callers \ {c} : ~Counts(d)
             /\ call[c].op = "on" => micbRef' = micbRef + 1 /\ pullRef' = pullRef
             /\ call[c].op = "off" => micbRef > 0 /\ micbRef' = micbRef - 1 /\ pullRef' = pullRef
             /\ call[c].op = "pullOn" => pullRef' = pullRef + 1 /\ micbRef' = micbRef
             /\ call[c].op = "pullOff" => pullRef > 0 /\ pullRef' = pullRef - 1 /\ micbRef' = micbRef
  <2>1. \A d \in Callers \ {c} : ~Counts(d)
    BY <1>a, <1>b DEF BiasInv, CallsAlone, Counts, Callers
  <2>2. \A d \in Callers \ {c} : call[d].at \notin {"load", "store"}
    BY <2>1 DEF Counts
  <2>3. call[c].op = "off" => micbRef > 0
    BY <1>0, <1>a, <1>b, <2>2 DEF BiasInv, BiasTypes, RefsInStep, Owed, Has, Callers
  <2>4. call[c].op = "pullOff" => pullRef > 0
    BY <1>0, <1>a, <1>b, <2>2 DEF BiasInv, BiasTypes, RefsInStep, Owed, Has, Callers
  <2>5. call[c].r = IF call[c].op \in {"on", "off"} THEN micbRef ELSE pullRef
    BY <1>a, <1>b DEF BiasInv, RefsInStep
  <2> QED BY <1>0, <1>a, <2>1, <2>3, <2>4, <2>5 DEF StoreRef, BiasTypes
<1>c. \A d \in Callers : /\ call'[d].at = IF d = c THEN "test" ELSE call[d].at
                         /\ call'[d].op = call[d].op /\ call'[d].w = call[d].w
                         /\ d # c => call'[d] = call[d]
  BY <1>0, <1>a DEF BiasTypes, CountCalls, AdjustCalls, NoCall
<1>3. RefsInStep'
  <2> SUFFICES ASSUME "refs" \notin biasRaced PROVE RefsInStep'
    BY <1>a DEF RefsInStep
  <2>1. \A d \in Callers \ {c} : call[d].at \notin {"load", "store"}
    BY <1>b DEF Counts
  <2>2. CASE c = "dapm"
    BY <1>0, <1>a, <1>b, <1>c, <2>1, <2>2 DEF BiasInv, BiasTypes, RefsInStep, Owed, Has, Callers, CountOps
  <2>3. CASE c = "mbhc"
    BY <1>0, <1>a, <1>b, <1>c, <2>1, <2>3 DEF BiasInv, BiasTypes, RefsInStep, Owed, Has, Callers, CountOps
  <2> QED BY <2>2, <2>3 DEF Callers
<1>4. FieldInStep'
  BY <1>0, <1>1, CallShapes DEF BiasInv, BiasTypes, StoreRef, FieldInStep, TurnsOn, PutsBack, CallsAlone, Counts, RefsInStep, Callers, NoCall
<1>5. RestInStep'
  <2> SUFFICES ASSUME biasRaced = {} PROVE RestInStep'
    BY <1>a DEF RestInStep
  <2>1. \A d \in Callers \ {c} : call[d] = NoCall /\ call'[d] = NoCall
    BY <1>a, <1>c DEF BiasInv, CallsAlone, Callers, NoCall
  <2>2. micb = Wanted(micbRef, pullRef) /\ call'[c] # NoCall /\ call'[c].at = "test" /\ call'[c].op = call[c].op
    <3>1. RestOf(c)
      BY DEF BiasInv, RestInStep
    <3>2. micb = Wanted(micbRef, pullRef)
      BY <1>a, <3>1 DEF RestOf
    <3> QED BY <1>c, <3>2 DEF NoCall
  <2>3. \A d \in Callers \ {c} : RestOf(d)'
    BY <2>1 DEF RestOf, NoCall
  <2>4. RestOf(c)'
    BY <1>0, <1>a, <1>b, <2>2 DEF RestOf, Wanted, BiasTypes, CountOps
  <2> QED BY <2>2, <2>3, <2>4 DEF RestInStep
<1>6. VoltInStep'
  BY <1>0, <1>1, CallShapes DEF BiasInv, BiasTypes, StoreRef, VoltInStep, Adjusting, Callers, NoCall
<1> QED BY <1>1, <1>2, <1>3, <1>4, <1>5, <1>6 DEF BiasInv

\* The test of the counters keeps the invariant.
LEMMA TestRefsInv == ASSUME BiasInv, NEW c \in Callers, TestRefs(c) PROVE BiasInv'
<1>0. BiasTypes /\ "dapm" \in Callers /\ "mbhc" \in Callers
  BY DEF BiasInv, Callers
<1>s. /\ call["dapm"] = NoCall <=> call["dapm"].at = "none"
      /\ call["mbhc"] = NoCall <=> call["mbhc"].at = "none"
  BY <1>0, CallShapes
<1> DEFINE w == NewField(call[c].op)
<1>a. /\ call[c] \in [op : CountOps, at : {"load", "store", "test"}, r : Nat, w : {"none"}] /\ call[c].at = "test"
      /\ w \in {"none", "on", "off", "pull"}
  <2>1. call[c].at = "test" /\ call[c] \in [op : CountOps, at : {"load", "store", "test"}, r : Nat, w : {"none"}]
    BY <1>0, CallShapes DEF TestRefs
  <2> QED BY <1>0, <2>1 DEF NewField, CountOps, BiasTypes
<1>b. /\ call' = [call EXCEPT ![c] = IF w = "none" THEN NoCall ELSE [call[c] EXCEPT !.at = "write", !.w = w]]
      /\ UNCHANGED <<micbRef, pullRef, micb, vout, mv2, mv3, holds, detecting, biasRaced>>
  BY DEF TestRefs
<1>1. BiasTypes'
  <2>1. w # "none" => [call[c] EXCEPT !.at = "write", !.w = w] \in CountCalls
    BY <1>a DEF CountCalls, CountOps
  <2>2. \A x \in CountCalls \cup {NoCall} : x \notin AdjustCalls
    BY DEF CountCalls, CountOps, AdjustCalls, NoCall
  <2> HIDE DEF w
  <2>3. call' \in [Callers -> {NoCall} \cup CountCalls \cup AdjustCalls] /\ call'["dapm"] \notin AdjustCalls
    BY <1>0, <1>b, <2>1, <2>2 DEF BiasTypes
  <2> QED BY <1>0, <1>b, <2>3 DEF BiasTypes
<1>2. CallsAlone'
  BY <1>0, <1>1, CallShapes DEF BiasInv, BiasTypes, TestRefs, NewField, CallsAlone, Counts, Callers, NoCall
<1>3. RefsInStep'
  BY <1>0, <1>1, CallShapes, SMTT(30) DEF BiasInv, BiasTypes, TestRefs, NewField, RefsInStep, Owed, Has, CallsAlone, Counts, Callers, NoCall
<1>4. FieldInStep'
  BY <1>0, <1>1, CallShapes DEF BiasInv, BiasTypes, TestRefs, NewField, FieldInStep, TurnsOn, PutsBack, CallsAlone, Counts, RefsInStep, Callers, NoCall
<1>5. RestInStep'
  <2> SUFFICES ASSUME biasRaced = {} PROVE RestInStep'
    BY <1>b DEF RestInStep
  <2>1. \A d \in Callers \ {c} : call[d] = NoCall /\ call'[d] = NoCall
    BY <1>0, <1>a, <1>b DEF BiasInv, BiasTypes, CallsAlone, Callers, NoCall
  <2>2. RestOf(c)
    BY DEF BiasInv, RestInStep
  <2>3. \A d \in Callers \ {c} : RestOf(d)'
    BY <2>1 DEF RestOf, NoCall
  <2>4. CASE w = "none"
    <3>1. call'[c] = NoCall
      BY <1>0, <1>b, <2>4 DEF BiasTypes
    <3>2. micb = Wanted(micbRef, pullRef)
      BY <1>0, <1>a, <2>2, <2>4 DEF RestOf, Wanted, NewField, CountOps, BiasTypes
    <3>3. RestOf(c)'
      BY <3>1 DEF RestOf, NoCall
    <3> QED BY <1>b, <2>3, <3>2, <3>3 DEF RestInStep, Wanted
  <2>5. CASE w # "none"
    <3>1. call'[c].at = "write" /\ call'[c].w = w /\ call'[c] # NoCall
      BY <1>0, <1>a, <1>b, <2>5 DEF BiasTypes, NoCall
    <3>2. w = Wanted(micbRef, pullRef)
      BY <1>0, <1>a, <2>2, <2>5 DEF RestOf, Wanted, NewField, CountOps, BiasTypes
    <3>3. RestOf(c)'
      BY <1>b, <3>1, <3>2 DEF RestOf, Wanted
    <3> QED BY <2>3, <3>1, <3>3 DEF RestInStep
  <2> QED BY <2>4, <2>5
<1>6. VoltInStep'
  BY <1>0, <1>1, CallShapes DEF BiasInv, BiasTypes, TestRefs, NewField, VoltInStep, Adjusting, Callers, NoCall
<1> QED BY <1>1, <1>2, <1>3, <1>4, <1>5, <1>6 DEF BiasInv

\* The write of the field keeps the invariant.
LEMMA WriteMicbInv == ASSUME BiasInv, NEW c \in Callers, WriteMicb(c) PROVE BiasInv'
<1>0. BiasTypes /\ "dapm" \in Callers /\ "mbhc" \in Callers
  BY DEF BiasInv, Callers
<1>s. /\ call["dapm"] = NoCall <=> call["dapm"].at = "none"
      /\ call["mbhc"] = NoCall <=> call["mbhc"].at = "none"
  BY <1>0, CallShapes
<1>1. BiasTypes'
  BY <1>0, CallShapes DEF WriteMicb, BiasTypes, Callers, NoCall, CountCalls, CountOps, AdjustCalls, Counts
<1>2. CallsAlone'
  BY <1>0, <1>1, CallShapes DEF BiasInv, BiasTypes, WriteMicb, CallsAlone, Counts, Callers, NoCall
<1>3. RefsInStep'
  BY <1>0, <1>1, CallShapes, SMTT(30) DEF BiasInv, BiasTypes, WriteMicb, RefsInStep, Owed, Has, CallsAlone, Counts, Callers, NoCall
<1>4. FieldInStep'
  BY <1>0, <1>1, CallShapes DEF BiasInv, BiasTypes, WriteMicb, FieldInStep, TurnsOn, PutsBack, CallsAlone, Counts, RefsInStep, Callers, NoCall
<1>5. RestInStep'
  BY <1>0, <1>1, CallShapes DEF BiasInv, BiasTypes, WriteMicb, RestInStep, RestOf, Wanted, CallsAlone, Callers, NoCall
<1>6. VoltInStep'
  BY <1>0, <1>1, CallShapes DEF BiasInv, BiasTypes, WriteMicb, VoltInStep, Adjusting, Callers, NoCall
<1> QED BY <1>1, <1>2, <1>3, <1>4, <1>5, <1>6 DEF BiasInv

\* The start of a wcd938x_mbhc_micb_ctrl_threshold_mic call keeps the invariant.
LEMMA ThresholdMicInv == ASSUME BiasInv, ThresholdMic PROVE BiasInv'
<1>0. BiasTypes /\ "dapm" \in Callers /\ "mbhc" \in Callers
  BY DEF BiasInv, Callers
<1>s. /\ call["dapm"] = NoCall <=> call["dapm"].at = "none"
      /\ call["mbhc"] = NoCall <=> call["mbhc"].at = "none"
  BY <1>0, CallShapes
<1> DEFINE c1 == [op |-> "adjust", at |-> "read", r |-> 0, w |-> IF ~detecting THEN "high" ELSE mv3]
<1>a. /\ detecting' = ~detecting /\ call["mbhc"] = NoCall
      /\ UNCHANGED <<micbRef, pullRef, micb, vout, mv2, mv3, holds>>
      /\ mv3 = "high" => UNCHANGED <<call, biasRaced>>
      /\ mv3 # "high" => call' = [call EXCEPT !["mbhc"] = c1]
      /\ biasRaced' \subseteq {"refs", "voltage"}
  BY <1>0, BeginsRaced DEF ThresholdMic, Busy, BiasTypes
<1>b. c1 \in AdjustCalls /\ c1.at = "read" /\ c1.w = IF ~detecting THEN "high" ELSE mv3
  BY <1>0 DEF AdjustCalls, BiasTypes
<1>1. BiasTypes'
  <2>1. call' \in [Callers -> {NoCall} \cup CountCalls \cup AdjustCalls] /\ call'["dapm"] \notin AdjustCalls
    <3> HIDE DEF c1
    <3> QED BY <1>0, <1>a, <1>b DEF BiasTypes
  <2>2. detecting' \in BOOLEAN
    BY <1>0, <1>a DEF BiasTypes
  <2> QED BY <1>0, <1>a, <2>1, <2>2 DEF BiasTypes
<1>2. CallsAlone'
  BY <1>0, <1>1, CallShapes DEF BiasInv, BiasTypes, ThresholdMic, Begins, Busy, CallsAlone, Counts, Callers, NoCall
<1>3. RefsInStep'
  BY <1>0, <1>1, CallShapes, SMTT(30) DEF BiasInv, BiasTypes, ThresholdMic, Begins, Busy, RefsInStep, Owed, Has, CallsAlone, Counts, Callers, NoCall
<1>4. FieldInStep'
  BY <1>0, <1>1, CallShapes DEF BiasInv, BiasTypes, ThresholdMic, Begins, Busy, FieldInStep, TurnsOn, PutsBack, CallsAlone, Counts, RefsInStep, Callers, NoCall
<1>5. RestInStep'
  BY <1>0, <1>1, CallShapes DEF BiasInv, BiasTypes, ThresholdMic, Begins, Busy, RestInStep, RestOf, Wanted, CallsAlone, Callers, NoCall
<1>6. VoltInStep'
  <2>1. CASE mv3 = "high"
    BY <1>0, <1>a, <2>1 DEF BiasInv, BiasTypes, VoltInStep, Adjusting
  <2>2. CASE mv3 # "high"
    <3>1. call'["mbhc"].at = "read" /\ call'["mbhc"].w = IF ~detecting THEN "high" ELSE mv3
      BY <1>0, <1>a, <1>b, <2>2 DEF BiasTypes
    <3> QED BY <1>0, <1>a, <2>2, <3>1 DEF BiasInv, BiasTypes, VoltInStep, Adjusting
  <2> QED BY <2>1, <2>2
<1> QED BY <1>1, <1>2, <1>3, <1>4, <1>5, <1>6 DEF BiasInv

\* The voltage change reads the field.
LEMMA AdjustReadInv == ASSUME BiasInv, AdjustRead PROVE BiasInv'
<1>0. BiasTypes /\ "dapm" \in Callers /\ "mbhc" \in Callers
  BY DEF BiasInv, Callers
<1>s. /\ call["dapm"] = NoCall <=> call["dapm"].at = "none"
      /\ call["mbhc"] = NoCall <=> call["mbhc"].at = "none"
  BY <1>0, CallShapes
<1>1. BiasTypes'
  BY <1>0, CallShapes DEF AdjustRead, BiasTypes, Callers, NoCall, CountCalls, CountOps, AdjustCalls, Counts
<1>2. CallsAlone'
  BY <1>0, <1>1, CallShapes DEF BiasInv, BiasTypes, AdjustRead, CallsAlone, Counts, Callers, NoCall
<1>3. RefsInStep'
  BY <1>0, <1>1, CallShapes, SMTT(30) DEF BiasInv, BiasTypes, AdjustRead, RefsInStep, Owed, Has, CallsAlone, Counts, Callers, NoCall
<1>4. FieldInStep'
  BY <1>0, <1>1, CallShapes DEF BiasInv, BiasTypes, AdjustRead, FieldInStep, TurnsOn, PutsBack, CallsAlone, Counts, RefsInStep, Callers, NoCall
<1>5. RestInStep'
  BY <1>0, <1>1, CallShapes DEF BiasInv, BiasTypes, AdjustRead, RestInStep, RestOf, Wanted, CallsAlone, Callers, NoCall
<1>6. VoltInStep'
  BY <1>0, <1>1, CallShapes DEF BiasInv, BiasTypes, AdjustRead, VoltInStep, Adjusting, Callers, NoCall
<1> QED BY <1>1, <1>2, <1>3, <1>4, <1>5, <1>6 DEF BiasInv

\* It takes a bias that is on down to pull-up.
LEMMA AdjustPullInv == ASSUME BiasInv, AdjustPull PROVE BiasInv'
<1>0. BiasTypes /\ "dapm" \in Callers /\ "mbhc" \in Callers
  BY DEF BiasInv, Callers
<1>s. /\ call["dapm"] = NoCall <=> call["dapm"].at = "none"
      /\ call["mbhc"] = NoCall <=> call["mbhc"].at = "none"
  BY <1>0, CallShapes
<1>1. BiasTypes'
  BY <1>0, CallShapes DEF AdjustPull, BiasTypes, Callers, NoCall, CountCalls, CountOps, AdjustCalls, Counts
<1>2. CallsAlone'
  BY <1>0, <1>1, CallShapes DEF BiasInv, BiasTypes, AdjustPull, CallsAlone, Counts, Callers, NoCall
<1>3. RefsInStep'
  BY <1>0, <1>1, CallShapes, SMTT(30) DEF BiasInv, BiasTypes, AdjustPull, RefsInStep, Owed, Has, CallsAlone, Counts, Callers, NoCall
<1>4. FieldInStep'
  BY <1>0, <1>1, CallShapes DEF BiasInv, BiasTypes, AdjustPull, FieldInStep, TurnsOn, PutsBack, CallsAlone, Counts, RefsInStep, Callers, NoCall
<1>5. RestInStep'
  BY <1>0, <1>1, CallShapes DEF BiasInv, BiasTypes, AdjustPull, RestInStep, RestOf, Wanted, CallsAlone, Callers, NoCall
<1>6. VoltInStep'
  BY <1>0, <1>1, CallShapes DEF BiasInv, BiasTypes, AdjustPull, VoltInStep, Adjusting, Callers, NoCall
<1> QED BY <1>1, <1>2, <1>3, <1>4, <1>5, <1>6 DEF BiasInv

\* It writes the voltage.
LEMMA AdjustVoutInv == ASSUME BiasInv, AdjustVout PROVE BiasInv'
<1>0. BiasTypes /\ "dapm" \in Callers /\ "mbhc" \in Callers
  BY DEF BiasInv, Callers
<1>s. /\ call["dapm"] = NoCall <=> call["dapm"].at = "none"
      /\ call["mbhc"] = NoCall <=> call["mbhc"].at = "none"
  BY <1>0, CallShapes
<1>1. BiasTypes'
  BY <1>0, CallShapes DEF AdjustVout, BiasTypes, Callers, NoCall, CountCalls, CountOps, AdjustCalls, Counts
<1>2. CallsAlone'
  BY <1>0, <1>1, CallShapes DEF BiasInv, BiasTypes, AdjustVout, CallsAlone, Counts, Callers, NoCall
<1>3. RefsInStep'
  BY <1>0, <1>1, CallShapes, SMTT(30) DEF BiasInv, BiasTypes, AdjustVout, RefsInStep, Owed, Has, CallsAlone, Counts, Callers, NoCall
<1>4. FieldInStep'
  BY <1>0, <1>1, CallShapes DEF BiasInv, BiasTypes, AdjustVout, FieldInStep, TurnsOn, PutsBack, CallsAlone, Counts, RefsInStep, Callers, NoCall
<1>5. RestInStep'
  BY <1>0, <1>1, CallShapes DEF BiasInv, BiasTypes, AdjustVout, RestInStep, RestOf, Wanted, CallsAlone, Callers, NoCall
<1>6. VoltInStep'
  BY <1>0, <1>1, CallShapes DEF BiasInv, BiasTypes, AdjustVout, VoltInStep, Adjusting, Callers, NoCall
<1> QED BY <1>1, <1>2, <1>3, <1>4, <1>5, <1>6 DEF BiasInv

\* It turns a bias it took down on again.
LEMMA AdjustAgainInv == ASSUME BiasInv, AdjustAgain PROVE BiasInv'
<1>0. BiasTypes /\ "dapm" \in Callers /\ "mbhc" \in Callers
  BY DEF BiasInv, Callers
<1>s. /\ call["dapm"] = NoCall <=> call["dapm"].at = "none"
      /\ call["mbhc"] = NoCall <=> call["mbhc"].at = "none"
  BY <1>0, CallShapes
<1>1. BiasTypes'
  BY <1>0, CallShapes DEF AdjustAgain, BiasTypes, Callers, NoCall, CountCalls, CountOps, AdjustCalls, Counts
<1>2. CallsAlone'
  BY <1>0, <1>1, CallShapes DEF BiasInv, BiasTypes, AdjustAgain, CallsAlone, Counts, Callers, NoCall
<1>3. RefsInStep'
  BY <1>0, <1>1, CallShapes, SMTT(30) DEF BiasInv, BiasTypes, AdjustAgain, RefsInStep, Owed, Has, CallsAlone, Counts, Callers, NoCall
<1>4. FieldInStep'
  BY <1>0, <1>1, CallShapes DEF BiasInv, BiasTypes, AdjustAgain, FieldInStep, TurnsOn, PutsBack, CallsAlone, Counts, RefsInStep, Callers, NoCall
<1>5. RestInStep'
  BY <1>0, <1>1, CallShapes DEF BiasInv, BiasTypes, AdjustAgain, RestInStep, RestOf, Wanted, CallsAlone, Callers, NoCall
<1>6. VoltInStep'
  BY <1>0, <1>1, CallShapes DEF BiasInv, BiasTypes, AdjustAgain, VoltInStep, Adjusting, Callers, NoCall
<1> QED BY <1>1, <1>2, <1>3, <1>4, <1>5, <1>6 DEF BiasInv

\* Every step of the microphone bias keeps the invariant.
LEMMA BiasNextInv == BiasInv /\ [BiasNext]_biasVars => BiasInv'
<1> SUFFICES ASSUME BiasInv, [BiasNext]_biasVars PROVE BiasInv'
  OBVIOUS
<1>1. CASE UNCHANGED biasVars
  BY <1>1 DEF biasVars, BiasInv, BiasTypes, CallsAlone, Counts, RefsInStep, Owed, Has, FieldInStep, TurnsOn,
              PutsBack, RestInStep, RestOf, VoltInStep, Adjusting
<1> QED BY <1>1, RequestMicbiasInv, LoadRefInv, StoreRefInv, TestRefsInv, WriteMicbInv, ThresholdMicInv,
           AdjustReadInv, AdjustPullInv, AdjustVoutInv, AdjustAgainInv DEF BiasNext

\* The holders of the bias, counted.
LEMMA HoldersCounted ==
    ASSUME NEW x PROVE Cardinality(Holders(x)) = Has(x, "dapm") + Has(x, "mbhc")
<1>1. IsFiniteSet({}) /\ Cardinality({}) = 0
  BY FS_EmptySet
<1>2. Cardinality({"dapm"}) = 1 /\ Cardinality({"mbhc"}) = 1 /\ IsFiniteSet({"dapm"})
  BY FS_Singleton
<1>3. Cardinality({"dapm"} \cup {"mbhc"}) = 2
  BY <1>2, FS_AddElement
<1>4. Holders(x) = (IF x \in holds["dapm"] THEN {"dapm"} ELSE {}) \cup (IF x \in holds["mbhc"] THEN {"mbhc"} ELSE {})
  BY DEF Holders, Callers
<1>5. CASE x \in holds["dapm"] /\ x \in holds["mbhc"]
  BY <1>3, <1>4, <1>5 DEF Has
<1>6. CASE x \in holds["dapm"] /\ x \notin holds["mbhc"]
  <2>1. Holders(x) = {"dapm"}
    BY <1>4, <1>6
  <2> QED BY <1>2, <1>6, <2>1 DEF Has
<1>7. CASE x \notin holds["dapm"] /\ x \in holds["mbhc"]
  <2>1. Holders(x) = {"mbhc"}
    BY <1>4, <1>7
  <2> QED BY <1>2, <1>7, <2>1 DEF Has
<1>8. CASE x \notin holds["dapm"] /\ x \notin holds["mbhc"]
  <2>1. Holders(x) = {}
    BY <1>4, <1>8
  <2> QED BY <1>1, <1>8, <2>1 DEF Has
<1> QED BY <1>5, <1>6, <1>7, <1>8

\* The invariant implies what the microphone bias promises.
LEMMA BiasInvSafe == BiasInv => MicbiasSafe
<1> SUFFICES ASSUME BiasInv PROVE MicbiasSafe
  OBVIOUS
<1>1. BiasTypeOK
  BY DEF BiasInv, BiasTypes, BiasTypeOK
<1>2. ASSUME NoCalls
      PROVE  call["dapm"] = NoCall /\ call["mbhc"] = NoCall /\ call["dapm"].at = "none" /\ call["mbhc"].at = "none"
  BY <1>2 DEF NoCalls, Busy, Callers, NoCall
<1>3. ASSUME NoCalls, "refs" \notin biasRaced
      PROVE  /\ micbRef = Has("bias", "dapm") + Has("bias", "mbhc")
             /\ pullRef = Has("pull", "dapm") + Has("pull", "mbhc")
  BY <1>2, <1>3 DEF BiasInv, BiasTypes, RefsInStep, Owed, Has
<1>4. RefsExact
  BY <1>3, HoldersCounted DEF RefsExact
<1>5. \A x : Holders(x) # {} <=> Has(x, "dapm") + Has(x, "mbhc") > 0
  BY DEF Holders, Has, Callers
<1>6. HeldBiasOn
  BY <1>2, <1>3, <1>5 DEF HeldBiasOn, BiasInv, FieldInStep, TurnsOn, PutsBack
<1>7. ReleasedBiasOff
  <2> SUFFICES ASSUME NoCalls, biasRaced = {}, Holders("bias") = {}
               PROVE  micb = IF Holders("pull") # {} THEN "pull" ELSE "off"
    BY DEF ReleasedBiasOff
  <2>1. micb = Wanted(micbRef, pullRef)
    BY <1>2 DEF BiasInv, RestInStep, Callers
  <2>2. ~(micbRef > 0) /\ (pullRef > 0 <=> Holders("pull") # {})
    BY <1>3, <1>5
  <2> QED BY <2>1, <2>2 DEF Wanted
<1>8. VoltageRestored
  BY <1>2 DEF VoltageRestored, BiasInv, BiasTypes, VoltInStep, Adjusting
<1> QED BY <1>1, <1>4, <1>6, <1>7, <1>8 DEF MicbiasSafe

\* The microphone bias (wcd938x_micbias_control, wcd938x_mbhc_micb_adjust_voltage): the
\* counters are the holders, a bias that is held is on and one that is not is off, unless
\* calls overlapped in the way micb_lock is missing for, and the voltage is restored.
THEOREM BiasIsSafe == BiasSpec => []MicbiasSafe
BY BiasInitInv, BiasNextInv, BiasInvSafe, PTL DEF BiasSpec

-----------------------------------------------------------------------------
(* ADC paths                                                               *)

AdcSteps == {"none", "reqUp", "swrUp", "adcUp", "adcDown", "reqDown", "swrDown"}

AdcTypes ==
    /\ adcOn \subseteq Adcs /\ adcStep \in [at : AdcSteps, set : SUBSET Adcs]
    /\ adcStep.at = "none" => adcStep.set = {}
    /\ txMode \in [Adcs -> Modes] /\ txdMode \in [Adcs -> Modes \cup {"off"}]
    /\ txClk \in BOOLEAN /\ txDiv2 \in BOOLEAN /\ txdClk \subseteq Adcs /\ swrRate \in Modes
    /\ newest \subseteq Adcs /\ cut \subseteq Adcs

(* Where the set DAPM is at stands: an ADC that comes was off and has its    *)
(* clock after the request; once one has gone, every other is excused.       *)
AdcSetInStep ==
    /\ adcStep.at \in {"reqUp", "swrUp", "adcUp"} => adcStep.set \cap adcOn = {}
    /\ adcStep.at \in {"swrUp", "adcUp"} => adcStep.set \subseteq txdClk /\ newest = adcStep.set
    /\ adcStep.at = "adcDown" => adcStep.set \subseteq adcOn
    /\ adcStep.at \in {"reqDown", "swrDown"} => adcOn \subseteq cut

(* An ADC is set up with the mode of its control, unless that was changed.   *)
AdcModesInStep ==
    /\ \A a \in adcOn \ cut : txdMode[a] = txMode[a]
    /\ adcStep.at \in {"swrUp", "adcUp"} => \A a \in adcStep.set \ cut : txdMode[a] = txMode[a]

(* The rate is right for the ADCs in status_mask as soon as it is chosen,    *)
(* which is before the new ones are in it.                                   *)
AdcRateInStep ==
    adcStep.at \in {"none", "adcUp"} =>
      \A a \in adcOn \ cut : a \notin newest /\ txdMode[a] = "hifi" => swrRate = "hifi"

AdcInv == AdcTypes /\ AdcSetInStep /\ AdcModesInStep /\ AdcRateInStep /\ CaptureClocked

\* The ADCs start unpowered and unclocked.
LEMMA AdcInitInv == AdcInit => AdcInv
<1> SUFFICES ASSUME AdcInit PROVE AdcInv
  OBVIOUS
<1>1. /\ adcOn = {} /\ adcStep = [at |-> "none", set |-> {}] /\ txdClk = {} /\ swrRate = "hifi"
      /\ newest = {} /\ cut = {} /\ txClk = FALSE /\ txDiv2 = FALSE
  BY DEF AdcInit, NoStep
<1>2. txMode \in [Adcs -> Modes] /\ txdMode \in [Adcs -> Modes \cup {"off"}]
  BY DEF AdcInit, Modes
<1>3. adcStep \in [at : AdcSteps, set : SUBSET Adcs]
  BY <1>1 DEF AdcSteps
<1>4. AdcTypes
  BY <1>1, <1>2, <1>3 DEF AdcTypes, Modes
<1> QED BY <1>1, <1>4 DEF AdcInv, AdcSetInStep, AdcModesInStep, AdcRateInStep, CaptureClocked

\* Every step of the ADC paths keeps the invariant.
LEMMA AdcNextInv == AdcInv /\ [AdcNext]_adcVars => AdcInv'
<1> SUFFICES ASSUME AdcInv, [AdcNext]_adcVars PROVE AdcInv'
  OBVIOUS
<1> USE DEF AdcInv, AdcTypes, AdcSteps, AdcSetInStep, AdcModesInStep, AdcRateInStep,
            CaptureClocked, Modes, NoStep
<1>1. CASE BiasClocks
  BY <1>1 DEF BiasClocks
<1>2. ASSUME NEW a \in Adcs, TxModePut(a) PROVE AdcInv'
  BY <1>2 DEF TxModePut
<1>3. CASE AdcStart
  BY <1>3 DEF AdcStart
<1>4. CASE AdcReqUp
  BY <1>4 DEF AdcReqUp
<1>5. CASE TxSwrUp
  BY <1>5 DEF TxSwrUp, SwrRateFor
<1>6. CASE EnableAdc
  BY <1>6 DEF EnableAdc
<1>7. CASE DisableAdc
  BY <1>7 DEF DisableAdc
<1>8. CASE AdcReqDown
  BY <1>8 DEF AdcReqDown
<1>9. CASE TxSwrDown
  BY <1>9 DEF TxSwrDown
<1>10. CASE UNCHANGED adcVars
  BY <1>10 DEF adcVars
<1> QED BY <1>1, <1>2, <1>3, <1>4, <1>5, <1>6, <1>7, <1>8, <1>9, <1>10 DEF AdcNext

\* The invariant implies what the ADC paths promise.
LEMMA AdcInvSafe == AdcInv => AdcSafe
BY DEF AdcInv, AdcTypes, AdcRateInStep, AdcSafe, AdcTypeOK, CaptureClocked, RateSuffices, NoStep, Modes

(* The clocks and the rate of the ADCs, for any number of them. *)
THEOREM AdcIsSafe == AdcSpec => []AdcSafe
BY AdcInitInv, AdcNextInv, AdcInvSafe, PTL DEF AdcSpec

-----------------------------------------------------------------------------
(* Proximity sensor                                                        *)

AwTypes ==
    /\ awProbe \in {"chip", "off", "clear", "request", "copy", "write", "register", "done", "failed"}
    /\ awCfg \in {"none", "load", "startFile", "default", "startDefault", "use", "over", "noFile", "noCfg"}
    /\ hostirqen \in BOOLEAN /\ irqen \in BOOLEAN /\ copyRead \in BOOLEAN /\ irqsrc \in BOOLEAN
    /\ chanEn \subseteq Channels /\ chUsed \subseteq Channels /\ chScan \subseteq Channels
    /\ chChange = {} \/ \E c \in Channels, sw \in BOOLEAN : chChange = {<<c, sw>>}
    /\ awStatus \in [Channels -> {"far", "near", "odd"}]
    /\ statRead \in [Channels -> {"far", "near", "odd"}]
    /\ oldStatus \in [Channels -> {"far", "near", "odd"}]
    /\ awThread \in {"idle", "stat", "report"}
    /\ awFresh \subseteq chUsed /\ disturbed \subseteq {"irqen", "used"}
    /\ awCfg = "none" => awProbe \in {"chip", "failed"}

(* A loaded configuration wants interrupts, and once the scan has started    *)
(* only a probe that writes back an older copy turns them off.               *)
IrqenInStep ==
    /\ awCfg \in {"startFile", "startDefault", "use", "over"} => hostirqen
    /\ awCfg \in {"use", "over"} /\ awProbe \in {"register", "done"} /\ "irqen" \notin disturbed => irqen

(* Flags and register differ by the change that a user is in the middle of;  *)
(* a user in the middle of one while the callback runs has disturbed it.     *)
ScanInStep ==
    /\ awProbe # "done" => chChange = {}
    /\ Configuring /\ chChange # {} => "used" \in disturbed
    /\ awCfg \in {"startFile", "startDefault", "use"} /\ "used" \notin disturbed => chScan = chanEn
    /\ awCfg = "over" /\ "used" \notin disturbed =>
         /\ chChange = {} => chUsed = chScan
         /\ \A c \in Channels : <<c, TRUE>> \in chChange => chUsed = chScan \cup {c}
         /\ \A c \in Channels : <<c, FALSE>> \in chChange => chUsed = chScan \ {c}

(* Without a pending source, what the thread has read is what the chip sees, *)
(* and nothing is expected of an interrupt that is not requested.            *)
StatusInStep ==
    /\ awProbe \in {"chip", "off", "clear", "request"} => awFresh = {} /\ awThread = "idle"
    /\ awThread = "report" /\ ~irqsrc => statRead = awStatus

AwInv == AwTypes /\ IrqenInStep /\ ScanInStep /\ StatusInStep /\ ChangesReported

\* The sensor starts with its interrupt off and no channel used.
LEMMA AwInitInv == AwInit => AwInv
<1> SUFFICES ASSUME AwInit PROVE AwInv
  OBVIOUS
<1>1. AwTypes
  BY AwAssumption DEF AwInit, AwTypes
<1> QED BY <1>1 DEF AwInit, AwInv, IrqenInStep, ScanInStep, Configuring, StatusInStep, ChangesReported

(* What a step does not touch stays in step. *)
LEMMA AwStatusKept ==
    AwInv /\ UNCHANGED <<chipVars, threadVars>> /\ awFresh' \subseteq awFresh => ChangesReported'
BY DEF AwInv, ChangesReported, chipVars, threadVars

\* The steps of aw96103_probe keep the invariant.
LEMMA AwProbeInv ==
    AwInv /\ (ProbeChip \/ IrqOff \/ AwIrqClear \/ AwIrqRequest \/ IrqCopy \/ IrqWrite \/ AwRegister) => AwInv'
<1> SUFFICES ASSUME AwInv, ProbeChip \/ IrqOff \/ AwIrqClear \/ AwIrqRequest \/ IrqCopy \/ IrqWrite \/ AwRegister
             PROVE  AwInv'
  OBVIOUS
<1>1. CASE ProbeChip
  <2>1. AwTypes'
    BY <1>1, SMTT(30) DEF AwInv, AwTypes, ProbeChip, cfgVars, userVars, chipVars, threadVars
  <2>2. IrqenInStep'
    BY <1>1 DEF AwInv, AwTypes, IrqenInStep, ProbeChip, cfgVars, userVars, chipVars, threadVars
  <2>3. ScanInStep'
    BY <1>1 DEF AwInv, AwTypes, ScanInStep, Configuring, ProbeChip, cfgVars, userVars, chipVars, threadVars
  <2>4. StatusInStep'
    BY <1>1 DEF AwInv, AwTypes, StatusInStep, ProbeChip, cfgVars, userVars, chipVars, threadVars
  <2>5. ChangesReported'
    BY <1>1, AwStatusKept DEF ProbeChip, cfgVars, userVars, chipVars, threadVars
  <2> QED BY <2>1, <2>2, <2>3, <2>4, <2>5 DEF AwInv
<1>2. CASE IrqOff
  <2>1. AwTypes'
    BY <1>2, ZenonT(60) DEF AwInv, AwTypes, IrqOff, cfgVars, userVars, chipVars, threadVars
  <2>2. IrqenInStep'
    BY <1>2 DEF AwInv, AwTypes, IrqenInStep, IrqOff, cfgVars, userVars, chipVars, threadVars
  <2>3. ScanInStep'
    BY <1>2 DEF AwInv, AwTypes, ScanInStep, Configuring, IrqOff, cfgVars, userVars, chipVars, threadVars
  <2>4. StatusInStep'
    BY <1>2 DEF AwInv, AwTypes, StatusInStep, IrqOff, cfgVars, userVars, chipVars, threadVars
  <2>5. ChangesReported'
    BY <1>2, AwStatusKept DEF IrqOff, cfgVars, userVars, chipVars, threadVars
  <2> QED BY <2>1, <2>2, <2>3, <2>4, <2>5 DEF AwInv
<1>3. CASE AwIrqClear
  <2>1. AwTypes'
    BY <1>3, ZenonT(60) DEF AwInv, AwTypes, AwIrqClear, cfgVars, userVars, chipVars, threadVars
  <2>2. IrqenInStep'
    BY <1>3 DEF AwInv, AwTypes, IrqenInStep, AwIrqClear, cfgVars, userVars, chipVars, threadVars
  <2>3. ScanInStep'
    BY <1>3 DEF AwInv, AwTypes, ScanInStep, Configuring, AwIrqClear, cfgVars, userVars, chipVars, threadVars
  <2>4. StatusInStep'
    BY <1>3 DEF AwInv, AwTypes, StatusInStep, AwIrqClear, cfgVars, userVars, chipVars, threadVars
  <2>5. ChangesReported'
    BY <1>3 DEF AwInv, AwTypes, StatusInStep, ChangesReported, AwIrqClear, cfgVars, userVars, chipVars, threadVars
  <2> QED BY <2>1, <2>2, <2>3, <2>4, <2>5 DEF AwInv
<1>4. CASE AwIrqRequest
  <2>1. AwTypes'
    BY <1>4, SMTT(30) DEF AwInv, AwTypes, AwIrqRequest, cfgVars, userVars, chipVars, threadVars
  <2>2. IrqenInStep'
    BY <1>4 DEF AwInv, AwTypes, IrqenInStep, AwIrqRequest, cfgVars, userVars, chipVars, threadVars
  <2>3. ScanInStep'
    BY <1>4 DEF AwInv, AwTypes, ScanInStep, Configuring, AwIrqRequest, cfgVars, userVars, chipVars, threadVars
  <2>4. StatusInStep'
    BY <1>4 DEF AwInv, AwTypes, StatusInStep, AwIrqRequest, cfgVars, userVars, chipVars, threadVars
  <2>5. ChangesReported'
    BY <1>4, AwStatusKept DEF AwIrqRequest, cfgVars, userVars, chipVars, threadVars
  <2> QED BY <2>1, <2>2, <2>3, <2>4, <2>5 DEF AwInv
<1>5. CASE IrqCopy
  <2>1. AwTypes'
    BY <1>5, SMTT(30) DEF AwInv, AwTypes, IrqCopy, cfgVars, userVars, chipVars, threadVars
  <2>2. IrqenInStep'
    BY <1>5 DEF AwInv, AwTypes, IrqenInStep, IrqCopy, cfgVars, userVars, chipVars, threadVars
  <2>3. ScanInStep'
    BY <1>5 DEF AwInv, AwTypes, ScanInStep, Configuring, IrqCopy, cfgVars, userVars, chipVars, threadVars
  <2>4. StatusInStep'
    BY <1>5 DEF AwInv, AwTypes, StatusInStep, IrqCopy, cfgVars, userVars, chipVars, threadVars
  <2>5. ChangesReported'
    BY <1>5, AwStatusKept DEF IrqCopy, cfgVars, userVars, chipVars, threadVars
  <2> QED BY <2>1, <2>2, <2>3, <2>4, <2>5 DEF AwInv
<1>6. CASE IrqWrite
  <2>1. AwTypes'
    BY <1>6, ZenonT(60) DEF AwInv, AwTypes, IrqWrite, cfgVars, userVars, chipVars, threadVars
  <2>2. IrqenInStep'
    BY <1>6 DEF AwInv, AwTypes, IrqenInStep, IrqWrite, cfgVars, userVars, chipVars, threadVars
  <2>3. ScanInStep'
    BY <1>6 DEF AwInv, AwTypes, ScanInStep, Configuring, IrqWrite, cfgVars, userVars, chipVars, threadVars
  <2>4. StatusInStep'
    BY <1>6 DEF AwInv, AwTypes, StatusInStep, IrqWrite, cfgVars, userVars, chipVars, threadVars
  <2>5. ChangesReported'
    BY <1>6, AwStatusKept DEF IrqWrite, cfgVars, userVars, chipVars, threadVars
  <2> QED BY <2>1, <2>2, <2>3, <2>4, <2>5 DEF AwInv
<1>7. CASE AwRegister
  <2>1. AwTypes'
    BY <1>7, SMTT(30) DEF AwInv, AwTypes, AwRegister, cfgVars, userVars, chipVars, threadVars
  <2>2. IrqenInStep'
    BY <1>7 DEF AwInv, AwTypes, IrqenInStep, AwRegister, cfgVars, userVars, chipVars, threadVars
  <2>3. ScanInStep'
    BY <1>7 DEF AwInv, AwTypes, ScanInStep, Configuring, AwRegister, cfgVars, userVars, chipVars, threadVars
  <2>4. StatusInStep'
    BY <1>7 DEF AwInv, AwTypes, StatusInStep, AwRegister, cfgVars, userVars, chipVars, threadVars
  <2>5. ChangesReported'
    BY <1>7, AwStatusKept DEF AwRegister, cfgVars, userVars, chipVars, threadVars
  <2> QED BY <2>1, <2>2, <2>3, <2>4, <2>5 DEF AwInv
<1> QED BY <1>1, <1>2, <1>3, <1>4, <1>5, <1>6, <1>7

\* The steps of the firmware callback keep the invariant.
LEMMA AwConfigInv ==
    AwInv /\ (NoFile \/ LoadFile \/ LoadDefaults \/ ScanStart \/ UseChannels) => AwInv'
<1> SUFFICES ASSUME AwInv, NoFile \/ LoadFile \/ LoadDefaults \/ ScanStart \/ UseChannels PROVE AwInv'
  OBVIOUS
<1>1. CASE NoFile
  <2>1. AwTypes'
    BY <1>1, SMTT(30) DEF AwInv, AwTypes, NoFile, cfgVars, userVars, chipVars, threadVars
  <2>2. IrqenInStep'
    BY <1>1 DEF AwInv, AwTypes, IrqenInStep, NoFile, cfgVars, userVars, chipVars, threadVars
  <2>3. ScanInStep'
    BY <1>1 DEF AwInv, AwTypes, ScanInStep, Configuring, NoFile, cfgVars, userVars, chipVars, threadVars
  <2>4. StatusInStep'
    BY <1>1 DEF AwInv, AwTypes, StatusInStep, NoFile, cfgVars, userVars, chipVars, threadVars
  <2>5. ChangesReported'
    BY <1>1, AwStatusKept DEF NoFile, cfgVars, userVars, chipVars, threadVars
  <2> QED BY <2>1, <2>2, <2>3, <2>4, <2>5 DEF AwInv
<1>2. CASE LoadFile
  <2>a. /\ hostirqen' \in BOOLEAN /\ chanEn' \subseteq Channels /\ chScan' \subseteq Channels
        /\ awCfg' \in {"startFile", "default"} /\ disturbed' \subseteq {"irqen", "used"}
    BY <1>2, AwAssumption DEF AwInv, AwTypes, LoadFile
  <2>b. UNCHANGED <<awProbe, irqen, copyRead, chUsed, chChange, chipVars, threadVars, awFresh>>
    BY <1>2 DEF LoadFile
  <2>1. AwTypes'
    BY <2>a, <2>b DEF AwInv, AwTypes, chipVars, threadVars
  <2>2. IrqenInStep'
    BY <1>2 DEF AwInv, AwTypes, IrqenInStep, LoadFile, cfgVars, userVars, chipVars, threadVars
  <2>3. ScanInStep'
    BY <1>2 DEF AwInv, AwTypes, ScanInStep, Configuring, LoadFile, cfgVars, userVars, chipVars, threadVars
  <2>4. StatusInStep'
    BY <1>2 DEF AwInv, AwTypes, StatusInStep, LoadFile, cfgVars, userVars, chipVars, threadVars
  <2>5. ChangesReported'
    BY <1>2, AwStatusKept DEF LoadFile, cfgVars, userVars, chipVars, threadVars
  <2> QED BY <2>1, <2>2, <2>3, <2>4, <2>5 DEF AwInv
<1>3. CASE LoadDefaults
  <2>1. AwTypes'
    BY <1>3, ZenonT(60) DEF AwInv, AwTypes, LoadDefaults, cfgVars, userVars, chipVars, threadVars
  <2>2. IrqenInStep'
    BY <1>3 DEF AwInv, AwTypes, IrqenInStep, LoadDefaults, cfgVars, userVars, chipVars, threadVars
  <2>3. ScanInStep'
    BY <1>3 DEF AwInv, AwTypes, ScanInStep, Configuring, LoadDefaults, cfgVars, userVars, chipVars, threadVars
  <2>4. StatusInStep'
    BY <1>3 DEF AwInv, AwTypes, StatusInStep, LoadDefaults, cfgVars, userVars, chipVars, threadVars
  <2>5. ChangesReported'
    BY <1>3, AwStatusKept DEF LoadDefaults, cfgVars, userVars, chipVars, threadVars
  <2> QED BY <2>1, <2>2, <2>3, <2>4, <2>5 DEF AwInv
<1>4. CASE ScanStart
  <2>1. AwTypes'
    BY <1>4, SMTT(30) DEF AwInv, AwTypes, ScanStart, cfgVars, userVars, chipVars, threadVars
  <2>2. IrqenInStep'
    BY <1>4 DEF AwInv, AwTypes, IrqenInStep, ScanStart, cfgVars, userVars, chipVars, threadVars
  <2>3. ScanInStep'
    BY <1>4 DEF AwInv, AwTypes, ScanInStep, Configuring, ScanStart, cfgVars, userVars, chipVars, threadVars
  <2>4. StatusInStep'
    BY <1>4 DEF AwInv, AwTypes, StatusInStep, ScanStart, cfgVars, userVars, chipVars, threadVars
  <2>5. ChangesReported'
    BY <1>4, AwStatusKept DEF ScanStart, cfgVars, userVars, chipVars, threadVars
  <2> QED BY <2>1, <2>2, <2>3, <2>4, <2>5 DEF AwInv
<1>5. CASE UseChannels
  <2>1. AwTypes'
    BY <1>5, SMTT(30) DEF AwInv, AwTypes, UseChannels, cfgVars, userVars, chipVars, threadVars
  <2>2. IrqenInStep'
    BY <1>5 DEF AwInv, AwTypes, IrqenInStep, UseChannels, cfgVars, userVars, chipVars, threadVars
  <2>3. ScanInStep'
    BY <1>5 DEF AwInv, AwTypes, ScanInStep, Configuring, UseChannels, cfgVars, userVars, chipVars, threadVars
  <2>4. StatusInStep'
    BY <1>5 DEF AwInv, AwTypes, StatusInStep, UseChannels, cfgVars, userVars, chipVars, threadVars
  <2>5. ChangesReported'
    BY <1>5, AwStatusKept DEF UseChannels, cfgVars, userVars, chipVars, threadVars
  <2> QED BY <2>1, <2>2, <2>3, <2>4, <2>5 DEF AwInv
<1> QED BY <1>1, <1>2, <1>3, <1>4, <1>5

\* aw96103_write_event_config keeps the invariant.
LEMMA AwUserInv ==
    ASSUME AwInv, NEW c \in Channels, NEW sw \in BOOLEAN, WriteEventConfig(c, sw) \/ WriteScan(c, sw)
    PROVE  AwInv'
<1>1. CASE WriteEventConfig(c, sw)
  <2>1. AwTypes'
    BY <1>1, SMTT(30) DEF AwInv, AwTypes, WriteEventConfig, cfgVars, userVars, chipVars, threadVars
  <2>2. IrqenInStep'
    BY <1>1 DEF AwInv, AwTypes, IrqenInStep, WriteEventConfig, cfgVars, userVars, chipVars, threadVars
  <2>3. ScanInStep'
    BY <1>1 DEF AwInv, AwTypes, ScanInStep, Configuring, WriteEventConfig, cfgVars, userVars, chipVars, threadVars
  <2>4. StatusInStep'
    BY <1>1 DEF AwInv, AwTypes, StatusInStep, WriteEventConfig, cfgVars, userVars, chipVars, threadVars
  <2>5. ChangesReported'
    BY <1>1, AwStatusKept DEF WriteEventConfig, cfgVars, userVars, chipVars, threadVars
  <2> QED BY <2>1, <2>2, <2>3, <2>4, <2>5 DEF AwInv
<1>2. CASE WriteScan(c, sw)
  <2>a. chChange' = {} /\ chScan' \subseteq Channels /\ disturbed' \subseteq {"irqen", "used"}
    BY <1>2 DEF AwInv, AwTypes, WriteScan
  <2>b. UNCHANGED <<awProbe, awCfg, cfgVars, irqen, copyRead, chUsed, chipVars, threadVars, awFresh>>
    BY <1>2 DEF WriteScan
  <2>1. AwTypes'
    BY <2>a, <2>b DEF AwInv, AwTypes, cfgVars, chipVars, threadVars
  <2>2. IrqenInStep'
    BY <1>2 DEF AwInv, AwTypes, IrqenInStep, WriteScan, cfgVars, userVars, chipVars, threadVars
  <2>3. ScanInStep'
    BY <1>2 DEF AwInv, AwTypes, ScanInStep, Configuring, WriteScan, cfgVars, userVars, chipVars, threadVars
  <2>4. StatusInStep'
    BY <1>2 DEF AwInv, AwTypes, StatusInStep, WriteScan, cfgVars, userVars, chipVars, threadVars
  <2>5. ChangesReported'
    BY <1>2, AwStatusKept DEF WriteScan, cfgVars, userVars, chipVars, threadVars
  <2> QED BY <2>1, <2>2, <2>3, <2>4, <2>5 DEF AwInv
<1> QED BY <1>1, <1>2

\* The chip and the interrupt thread keep the invariant.
LEMMA AwChipInv ==
    AwInv /\ ((\E c \in Channels : Sense(c)) \/ IrqReadSource \/ IrqReadStatus \/ IrqReport) => AwInv'
<1> SUFFICES ASSUME AwInv, (\E c \in Channels : Sense(c)) \/ IrqReadSource \/ IrqReadStatus \/ IrqReport
             PROVE  AwInv'
  OBVIOUS
<1>1. ASSUME NEW c \in Channels, Sense(c) PROVE AwInv'
  <2>1. AwTypes'
    BY <1>1, SMTT(30) DEF AwInv, AwTypes, Sense, Listening, cfgVars, userVars, chipVars, threadVars
  <2>2. IrqenInStep'
    BY <1>1 DEF AwInv, AwTypes, IrqenInStep, Sense, Listening, cfgVars, userVars, chipVars, threadVars
  <2>3. ScanInStep'
    BY <1>1 DEF AwInv, AwTypes, ScanInStep, Configuring, Sense, Listening, cfgVars, userVars, chipVars, threadVars
  <2>4. StatusInStep'
    BY <1>1 DEF AwInv, AwTypes, StatusInStep, Sense, Listening, cfgVars, userVars, chipVars, threadVars
  <2>5. ChangesReported'
    BY <1>1 DEF Sense, ChangesReported
  <2> QED BY <2>1, <2>2, <2>3, <2>4, <2>5 DEF AwInv
<1>2. CASE IrqReadSource
  <2>1. AwTypes'
    BY <1>2, ZenonT(60) DEF AwInv, AwTypes, IrqReadSource, Listening, cfgVars, userVars, chipVars, threadVars
  <2>2. IrqenInStep'
    BY <1>2 DEF AwInv, AwTypes, IrqenInStep, IrqReadSource, Listening, cfgVars, userVars, chipVars, threadVars
  <2>3. ScanInStep'
    BY <1>2 DEF AwInv, AwTypes, ScanInStep, Configuring, IrqReadSource, Listening, cfgVars, userVars, chipVars, threadVars
  <2>4. StatusInStep'
    BY <1>2 DEF AwInv, AwTypes, StatusInStep, IrqReadSource, Listening, cfgVars, userVars, chipVars, threadVars
  <2>5. ChangesReported'
    BY <1>2 DEF AwInv, AwTypes, StatusInStep, ChangesReported, IrqReadSource, Listening, cfgVars, userVars, chipVars, threadVars
  <2> QED BY <2>1, <2>2, <2>3, <2>4, <2>5 DEF AwInv
<1>3. CASE IrqReadStatus
  <2>1. AwTypes'
    BY <1>3, SMTT(30) DEF AwInv, AwTypes, IrqReadStatus, cfgVars, userVars, chipVars, threadVars
  <2>2. IrqenInStep'
    BY <1>3 DEF AwInv, AwTypes, IrqenInStep, IrqReadStatus, cfgVars, userVars, chipVars, threadVars
  <2>3. ScanInStep'
    BY <1>3 DEF AwInv, AwTypes, ScanInStep, Configuring, IrqReadStatus, cfgVars, userVars, chipVars, threadVars
  <2>4. StatusInStep'
    BY <1>3 DEF AwInv, AwTypes, StatusInStep, IrqReadStatus, cfgVars, userVars, chipVars, threadVars
  <2>5. ChangesReported'
    BY <1>3 DEF IrqReadStatus, ChangesReported, chipVars
  <2> QED BY <2>1, <2>2, <2>3, <2>4, <2>5 DEF AwInv
<1>4. CASE IrqReport
  <2>1. AwTypes'
    BY <1>4, SMTT(30) DEF AwInv, AwTypes, IrqReport, cfgVars, userVars, chipVars, threadVars
  <2>2. IrqenInStep'
    BY <1>4 DEF AwInv, AwTypes, IrqenInStep, IrqReport, cfgVars, userVars, chipVars, threadVars
  <2>3. ScanInStep'
    BY <1>4 DEF AwInv, AwTypes, ScanInStep, Configuring, IrqReport, cfgVars, userVars, chipVars, threadVars
  <2>4. StatusInStep'
    BY <1>4 DEF AwInv, AwTypes, StatusInStep, IrqReport, cfgVars, userVars, chipVars, threadVars
  <2>5. ChangesReported'
    <3> SUFFICES ASSUME ~irqsrc, NEW c \in awFresh, \A d \in 0 .. c : d \in Channels => awStatus[d] # "odd"
                 PROVE  oldStatus'[c] = awStatus[c]
      BY <1>4 DEF IrqReport, ChangesReported, chipVars
    <3>1. statRead = awStatus /\ c \in Channels /\ c \in chUsed
      BY <1>4 DEF IrqReport, AwInv, AwTypes, StatusInStep
    <3>2. \A d \in chUsed : d <= c => d \in 0 .. c
      BY <3>1, AwAssumption DEF AwInv, AwTypes
    <3>3. Reached(c)
      BY <3>1, <3>2, AwAssumption DEF Reached, AwInv, AwTypes
    <3> QED BY <1>4, <3>1, <3>3 DEF IrqReport, Report
  <2> QED BY <2>1, <2>2, <2>3, <2>4, <2>5 DEF AwInv
<1> QED BY <1>1, <1>2, <1>3, <1>4

\* Every step of the sensor keeps the invariant.
LEMMA AwNextInv == AwInv /\ [AwNext]_awVars => AwInv'
<1> SUFFICES ASSUME AwInv, [AwNext]_awVars PROVE AwInv'
  OBVIOUS
<1>1. CASE UNCHANGED awVars
  <2>1. AwTypes'
    BY <1>1, SMTT(30) DEF AwInv, AwTypes, awVars, cfgVars, userVars, chipVars, threadVars
  <2>2. IrqenInStep'
    BY <1>1 DEF AwInv, AwTypes, IrqenInStep, awVars, cfgVars, userVars, chipVars, threadVars
  <2>3. ScanInStep'
    BY <1>1 DEF AwInv, AwTypes, ScanInStep, Configuring, awVars, cfgVars, userVars, chipVars, threadVars
  <2>4. StatusInStep'
    BY <1>1 DEF AwInv, AwTypes, StatusInStep, awVars, cfgVars, userVars, chipVars, threadVars
  <2>5. ChangesReported'
    BY <1>1, AwStatusKept DEF awVars, cfgVars, userVars, chipVars, threadVars
  <2> QED BY <2>1, <2>2, <2>3, <2>4, <2>5 DEF AwInv
<1> QED BY <1>1, AwProbeInv, AwConfigInv, AwUserInv, AwChipInv DEF AwNext

\* The invariant implies what the sensor promises.
LEMMA AwInvSafe == AwInv => AwSafe
BY DEF AwInv, AwTypes, IrqenInStep, ScanInStep, AwSafe, AwTypeOK, InterruptEnabled, UsedIsScanned

\* The proximity sensor (aw96103.c), for every set of channels: once configured it
\* interrupts, it reports the channels the chip scans, and with no source pending the last
\* event of a channel is what the chip sees, whatever order the probe, the firmware
\* callback, a user and the interrupt thread come in.
THEOREM AwIsSafe == AwSpec => []AwSafe
BY AwInitInv, AwNextInv, AwInvSafe, PTL DEF AwSpec

-----------------------------------------------------------------------------
(* All devices together                                                    *)

\* What the devices have in common: a step of one part leaves the others as they are.
DevicesInv == OutInv /\ BiasInv /\ AdcInv /\ AwInv

\* The devices of MCCodec (wcd938x.c, aw96103.c) keep what their handlers promise, whichever
\* of them runs, for every set of boards, ADCs and channels.
THEOREM DevicesAreSafe == Spec => []DevicesSafe
<1>1. Init => DevicesInv
  BY OutInitInv, BiasInitInv, AdcInitInv, AwInitInv DEF Init, DevicesInv
<1>2. DevicesInv /\ [Next]_codecVars => DevicesInv'
  <2> SUFFICES ASSUME DevicesInv, [Next]_codecVars PROVE DevicesInv'
    OBVIOUS
  <2>1. /\ [OutNext]_outVars /\ [BiasNext]_biasVars
        /\ [AdcNext]_adcVars /\ [AwNext]_awVars
    BY DEF Next, codecVars
  <2> QED BY <2>1, OutNextInv, BiasNextInv, AdcNextInv, AwNextInv DEF DevicesInv
<1>3. DevicesInv => DevicesSafe
  BY OutInvSafe, BiasInvSafe, AdcInvSafe, AwInvSafe DEF DevicesInv, DevicesSafe
<1> QED BY <1>1, <1>2, <1>3, PTL DEF Spec
=============================================================================
