----------------------------- MODULE WcdOutputs -----------------------------
(***************************************************************************)
(* The output paths of the WCD938x codec (wcd938x.c): earpiece, auxiliary   *)
(* output and the two headphone channels.  Each is a DAC and an amplifier   *)
(* whose event handlers share watchdogs, interrupts, the class-H controller,*)
(* the flyback current detector, the LDOH regulator and the delay bit.      *)
(* DAPM (external) runs the handlers group by group, down before up, under  *)
(* its mutex; the mixer controls LDOH and HPH mode are written without it   *)
(* at any time, also while a handler of the other channel sleeps.           *)
(***************************************************************************)
EXTENDS Naturals, Sequences, FiniteSets

CONSTANT Outputs   \* bound: the sets of paths a board may have wired

Paths == {"ear", "aux", "hphl", "hphr"}

ASSUME OutputsAssumption == Outputs \subseteq SUBSET Paths

Hph == {"hphl", "hphr"}
Feeds == {"hphl", "hphr", "aux"}   \* RX0, RX1, RX2: data path, watchdog and its interrupt

VARIABLES
    wired,     \* paths that end in an output of the board
    powered,   \* paths DAPM has powered
    goal,      \* paths it is moving to
    walk,      \* DAPM's place in DapmWalk, 0 at rest, and the paths that go and that come
    codecRegs, \* the codec: registers, interrupt depths and the driver's counters
    earMux,    \* the RX path the earpiece is routed from: "hphl" or "aux"
    ldoh,      \* the control "LDOH Enable Switch"
    lowPower,  \* the control "RX HPH Mode" is one of LP, LOHIFI, ULP
    moved,     \* ghost: controls changed while a headphone channel was in use
    shared     \* ghost: feeds the earpiece has used together with another path

outVars == <<wired, powered, goal, walk, codecRegs, earMux, ldoh, lowPower, moved, shared>>

\* What a path's amplifier is watched by; the earpiece uses what ear_rx_path says.
Feed(h, p) == IF p = "ear" THEN h.earPath ELSE p

\* enable_irq() of an interrupt that is enabled warns and changes nothing.
EnableWdIrq(h, f) == [h EXCEPT !.depth[f] = IF @ = 0 THEN 0 ELSE @ - 1]
DisableWdIrq(h, f) == [h EXCEPT !.depth[f] = @ + 1]

\* The flyback current detector is off while a counted user is there.
FlybackGet(h) == [h EXCEPT !.flyback = @ + 1, !.curDet = IF h.flyback = 0 THEN FALSE ELSE @]
\* Mutant: the count is tested before it is lowered.
FlybackPutStale(h) == [h EXCEPT !.flyback = @ - 1, !.curDet = IF h.flyback = 0 THEN TRUE ELSE @]
FlybackPut(h) == [h EXCEPT !.flyback = @ - 1, !.curDet = IF h.flyback = 1 THEN TRUE ELSE @]

\* SND_SOC_DAPM_PRE_PMU of the DACs. The earpiece reads its source here ...
\* (Their other events, and the compander and gain writes of all handlers, only set values.)
HphDacUp(h, p) == [h EXCEPT !.fed = @ \cup {p}]
AuxDacUp(h) == FlybackGet([h EXCEPT !.fed = @ \cup {"aux"}, !.clsh = @ \cup {"aux"}])
EarDacUp(h) ==
    FlybackGet([h EXCEPT !.earPath = earMux, !.fed = @ \cup {earMux}, !.clsh = @ \cup {"ear"}])

DacPreUp(h, p) ==
    CASE p \in Hph -> HphDacUp(h, p) [] p = "aux" -> AuxDacUp(h) [] OTHER -> EarDacUp(h)

\* SND_SOC_DAPM_POST_PMD of the DACs: only the earpiece takes its feed away.
DacPostDown(h, p) == IF p = "ear" THEN [h EXCEPT !.fed = @ \ {h.earPath}] ELSE h

\* SND_SOC_DAPM_PRE_PMU of the amplifiers.
HphPaPreUp(h, p) ==
    [h EXCEPT !.ldohEn = @ \/ ldoh, !.clsh = @ \cup {p}, !.bypass = @ \/ lowPower,
              !.delay = TRUE, !.wd = @ \cup {p}]
AuxPaPreUp(h) == [h EXCEPT !.wd = @ \cup {"aux"}]
\* Mutant: the earpiece always arms the watchdog of the left channel.
EarPaPreUpLeft(h) == [h EXCEPT !.earPath = earMux, !.wd = @ \cup {"hphl"}]
\* ... and here once more.
EarPaPreUp(h) == [h EXCEPT !.earPath = earMux, !.wd = @ \cup {earMux}]

PaPreUp(h, p) ==
    CASE p \in Hph -> HphPaPreUp(h, p) [] p = "aux" -> AuxPaPreUp(h) [] OTHER -> EarPaPreUp(h)

\* Mutant: the bit that tells the channels apart is forgotten on the way up.
HphPaPostUpKeepsDelay(h, p) == EnableWdIrq([h EXCEPT !.bypass = @ /\ ~(h.delay /\ lowPower)], p)
\* SND_SOC_DAPM_POST_PMU: the first of two channels waits for both.
HphPaPostUp(h, p) ==
    EnableWdIrq([h EXCEPT !.delay = FALSE, !.bypass = @ /\ ~(h.delay /\ lowPower)], p)

PaPostUp(h, p) == IF p \in Hph THEN HphPaPostUp(h, p) ELSE EnableWdIrq(h, Feed(h, p))

\* SND_SOC_DAPM_PRE_PMD of the amplifiers.
PaPreDown(h, p) ==
    LET g == DisableWdIrq(h, Feed(h, p)) IN IF p \in Hph THEN [g EXCEPT !.delay = TRUE] ELSE g

\* Mutant: LDOH is left to the other channel.
HphPaPostDownKeepsLdoh(h, p) ==
    [h EXCEPT !.delay = FALSE, !.wd = @ \ {p}, !.clsh = @ \ {p}]
\* SND_SOC_DAPM_POST_PMD of the amplifiers.
HphPaPostDown(h, p) ==
    [h EXCEPT !.delay = FALSE, !.wd = @ \ {p}, !.clsh = @ \ {p}, !.ldohEn = @ /\ ~ldoh]

EarPaPostDown(h) == FlybackPut([h EXCEPT !.wd = @ \ {h.earPath}, !.clsh = @ \ {"ear"}])
AuxPaPostDown(h) == FlybackPut([h EXCEPT !.wd = @ \ {"aux"}, !.clsh = @ \ {"aux"}])

PaPostDown(h, p) ==
    CASE p \in Hph -> HphPaPostDown(h, p)
      [] p = "aux" -> AuxPaPostDown(h)
      [] OTHER -> EarPaPostDown(h)

\* wcd938x_codec_enable_rxclk(): the supply of all paths.
EnableRxclk(h, on) == [h EXCEPT !.rxclk = on]

\* DAPM (external): what goes is handled before what comes. Both headphone amplifiers are
\* one group (they share a register), the others one each; the DACs are one group; supplies
\* go first up and last down. A group without a path to handle is passed by.
DapmWalk ==
    LET Step(ev, of) == [ev |-> ev, of |-> of] IN
    <<Step("paPreDown", Hph), Step("paPostDown", Hph), Step("paPreDown", {"ear"}),
      Step("paPostDown", {"ear"}), Step("paPreDown", {"aux"}), Step("paPostDown", {"aux"}),
      Step("dacPostDown", Paths), Step("rxclkOff", Paths), Step("update", Paths),
      Step("rxclkOn", Paths), Step("dacPreUp", Paths), Step("paPreUp", Hph), Step("paPostUp", Hph),
      Step("paPreUp", {"ear"}), Step("paPostUp", {"ear"}), Step("paPreUp", {"aux"}),
      Step("paPostUp", {"aux"})>>

AtRest == [at |-> 0, down |-> {}, up |-> {}]
WalkOn == IF walk.at = Len(DapmWalk) THEN AtRest ELSE [walk EXCEPT !.at = @ + 1]

\* The handler of one path for an event of its DAC or its amplifier.
HandleEvent(h, ev, p) ==
    CASE ev = "paPreDown" -> PaPreDown(h, p)
      [] ev = "paPostDown" -> PaPostDown(h, p)
      [] ev = "dacPostDown" -> DacPostDown(h, p)
      [] ev = "dacPreUp" -> DacPreUp(h, p)
      [] ev = "paPreUp" -> PaPreUp(h, p)
      [] ev = "paPostUp" -> PaPostUp(h, p)

\* The handlers of the paths in ps, left before right.
HandleEvents(h, ev, ps) ==
    LET One(g, p) == IF p \in ps THEN HandleEvent(g, ev, p) ELSE g
    IN  One(One(One(One(h, "hphl"), "hphr"), "ear"), "aux")

OutInit ==
    /\ wired \in Outputs /\ powered = {} /\ goal = {} /\ walk = AtRest
    /\ codecRegs = [earPath |-> "hphl", fed |-> {}, wd |-> {}, depth |-> [f \in Feeds |-> 1],
                    clsh |-> {}, flyback |-> 0, curDet |-> TRUE, ldohEn |-> FALSE, bypass |-> FALSE,
                    delay |-> FALSE, rxclk |-> FALSE]
    /\ earMux \in {"hphl", "aux"} /\ ldoh = FALSE /\ lowPower = FALSE
    /\ moved = {} /\ shared = {}

\* A stream or a switch changes which paths are complete.
DapmStart ==
    /\ walk = AtRest
    /\ \E new \in (SUBSET wired) \ {powered} :
         /\ goal' = new
         /\ walk' = [at |-> 1, down |-> powered \ new, up |-> new \ powered]
         /\ shared' = shared \cup IF "ear" \in new THEN {earMux, codecRegs.earPath} \cap new ELSE {}
    /\ UNCHANGED <<wired, powered, codecRegs, earMux, ldoh, lowPower, moved>>

\* The register of the control that caused the run is written between down and up.
DapmUpdate ==
    /\ walk.at # 0 /\ DapmWalk[walk.at].ev = "update"
    /\ earMux' \in {"hphl", "aux"}
    /\ shared' = shared \cup IF "ear" \in goal THEN {earMux', codecRegs.earPath} \cap goal ELSE {}
    /\ powered' = goal
    /\ walk' = WalkOn
    /\ UNCHANGED <<wired, goal, codecRegs, ldoh, lowPower, moved>>

DapmSupply ==
    /\ walk.at # 0 /\ DapmWalk[walk.at].ev \in {"rxclkOff", "rxclkOn"}
    /\ codecRegs' = IF DapmWalk[walk.at].ev = "rxclkOff" /\ goal = {} THEN EnableRxclk(codecRegs, FALSE)
                    ELSE IF DapmWalk[walk.at].ev = "rxclkOn" /\ walk.down = {} /\ walk.up = goal
                         THEN EnableRxclk(codecRegs, TRUE)   \* nothing was powered before
                         ELSE codecRegs
    /\ walk' = WalkOn
    /\ UNCHANGED <<wired, powered, goal, earMux, ldoh, lowPower, moved, shared>>

DapmEvent ==
    /\ walk.at # 0 /\ DapmWalk[walk.at].ev \notin {"update", "rxclkOff", "rxclkOn"}
    /\ LET step == DapmWalk[walk.at]
           going == step.ev \in {"paPreDown", "paPostDown", "dacPostDown"}
       IN  codecRegs' = HandleEvents(codecRegs, step.ev, step.of \cap IF going THEN walk.down ELSE walk.up)
    /\ walk' = WalkOn
    /\ UNCHANGED <<wired, powered, goal, earMux, ldoh, lowPower, moved, shared>>

HphInUse == (powered \cup goal) \cap Hph # {}

\* wcd938x_ldoh_put()
LdohPut ==
    /\ ldoh' = ~ldoh
    /\ moved' = IF HphInUse THEN moved \cup {"ldoh"} ELSE moved
    /\ UNCHANGED <<wired, powered, goal, walk, codecRegs, earMux, lowPower, shared>>

\* wcd938x_rx_hph_mode_put()
HphModePut ==
    /\ lowPower' = ~lowPower
    /\ moved' = IF HphInUse THEN moved \cup {"mode"} ELSE moved
    /\ UNCHANGED <<wired, powered, goal, walk, codecRegs, earMux, ldoh, shared>>

OutNext == DapmStart \/ DapmUpdate \/ DapmSupply \/ DapmEvent \/ LdohPut \/ HphModePut
OutSpec == OutInit /\ [][OutNext]_outVars

DapmSettled == walk = AtRest

OutTypeOK ==
    /\ powered \subseteq Paths /\ goal \subseteq Paths
    /\ codecRegs.fed \subseteq Feeds /\ codecRegs.wd \subseteq Feeds /\ codecRegs.clsh \subseteq Paths
    /\ codecRegs.flyback \in Nat /\ \A f \in Feeds : codecRegs.depth[f] \in Nat

\* The current detector is off exactly while an earpiece or auxiliary path uses the
\* flyback converter: the count that DAC and amplifier handlers share is balanced.
FlybackBalanced ==
    /\ codecRegs.curDet <=> codecRegs.flyback = 0
    /\ DapmSettled => codecRegs.flyback = Cardinality(powered \ Hph)

\* The class-H controller knows the paths that play, and nothing plays unclocked.
ClassHTracks == DapmSettled => codecRegs.clsh = powered /\ (codecRegs.rxclk <=> powered # {})

\* A path that plays is fed and watched, its interrupt on, and one that does not is
\* not watched, as long as the earpiece did not share the path's feed.
WatchedWhilePlaying ==
    DapmSettled => \A f \in Feeds \ shared :
      LET uses == f \in powered \/ ("ear" \in powered /\ codecRegs.earPath = f) IN
      /\ uses <=> f \in codecRegs.wd
      /\ uses <=> codecRegs.depth[f] = 0
      /\ uses => f \in codecRegs.fed

\* The headphones play with the reference filter in, and silent headphones do not keep
\* LDOH on, unless the control was changed in between.
HphSettled ==
    DapmSettled =>
      /\ ~codecRegs.delay
      /\ codecRegs.bypass => "mode" \in moved
      /\ codecRegs.ldohEn /\ powered \cap Hph = {} => "ldoh" \in moved

OutputsSafe == OutTypeOK /\ FlybackBalanced /\ ClassHTracks /\ WatchedWhilePlaying /\ HphSettled
=============================================================================
