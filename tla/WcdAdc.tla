------------------------------- MODULE WcdAdc -------------------------------
(***************************************************************************)
(* The ADC paths of the WCD938x codec (wcd938x.c).  DAPM (external) powers  *)
(* sets of ADCs up and down, one event after the other; the handlers share  *)
(* the analogue clocks, which nobody counts, and the SoundWire clock, which *)
(* is chosen from the modes of the ADCs in status_mask.  The mode controls  *)
(* may be written between the events.                                       *)
(***************************************************************************)
EXTENDS FiniteSets

CONSTANT Adcs   \* bound: the ADCs in use

ASSUME AdcsAssumption == IsFiniteSet(Adcs)

Modes == {"hifi", "ulp2"}      \* the fastest and the slowest of the six

VARIABLES
    adcOn,             \* ADC bits of status_mask
    adcStep,           \* DAPM's place in the events of a set of ADCs
    txMode, txdMode,   \* the controls "TXn MODE" and what the ADC is set up with
    txClk, txDiv2, txdClk,  \* analogue, divided and per-ADC clocks
    swrRate,           \* SoundWire clock: the slowest mode it is good for
    newest,            \* ghost: the ADCs powered last
    cut                \* ghost: ADCs that ran while others were taken down, or changed mode

adcVars == <<adcOn, adcStep, txMode, txdMode, txClk, txDiv2, txdClk, swrRate, newest, cut>>

NoStep == [at |-> "none", set |-> {}]

AdcInit ==
    /\ adcOn = {} /\ adcStep = NoStep
    /\ txMode = [a \in Adcs |-> "hifi"] /\ txdMode = [a \in Adcs |-> "off"]
    /\ txClk = FALSE /\ txDiv2 = FALSE /\ txdClk = {} /\ swrRate = "hifi"
    /\ newest = {} /\ cut = {}

\* wcd938x_micbias_control(): the first user of a bias turns the clocks on, nobody off.
BiasClocks ==
    /\ txdClk' = Adcs /\ txDiv2' = TRUE
    /\ UNCHANGED <<adcOn, adcStep, txMode, txdMode, txClk, swrRate, newest, cut>>

\* wcd938x_tx_mode_put()
TxModePut(a) ==
    /\ \E m \in Modes \ {txMode[a]} : txMode' = [txMode EXCEPT ![a] = m]
    /\ cut' = IF a \in adcOn \cup adcStep.set THEN cut \cup {a} ELSE cut
    /\ UNCHANGED <<adcOn, adcStep, txdMode, txClk, txDiv2, txdClk, swrRate, newest>>

\* DAPM (external) powers a set of ADCs: their request and output mixers, then the ADCs.
AdcStart ==
    /\ adcStep = NoStep
    /\ \E s \in (SUBSET Adcs) \ {{}} :
         \/ s \cap adcOn = {} /\ adcStep' = [at |-> "reqUp", set |-> s]
         \/ s \subseteq adcOn /\ adcStep' = [at |-> "adcDown", set |-> s]
    /\ UNCHANGED <<adcOn, txMode, txdMode, txClk, txDiv2, txdClk, swrRate, newest, cut>>

\* wcd938x_adc_enable_req(), SND_SOC_DAPM_PRE_PMU
AdcReqUp ==
    /\ adcStep.at = "reqUp"
    /\ txdMode' = [a \in Adcs |-> IF a \in adcStep.set THEN txMode[a] ELSE txdMode[a]]
    /\ txdClk' = txdClk \cup adcStep.set
    /\ cut' = cut \ adcStep.set
    /\ newest' = adcStep.set
    /\ adcStep' = [adcStep EXCEPT !.at = "swrUp"]
    /\ UNCHANGED <<adcOn, txMode, txClk, txDiv2, swrRate>>

\* Mutant: the slowest mode wins.
SwrRateForSlowest(s) == IF \E a \in s : txMode[a] = "ulp2" THEN "ulp2" ELSE "hifi"

\* The rate of the fastest mode among the ADCs that run; 9.6 MHz when none does.
SwrRateFor(s) == IF s # {} /\ \A a \in s : txMode[a] = "ulp2" THEN "ulp2" ELSE "hifi"

\* wcd938x_tx_swr_ctrl(), SND_SOC_DAPM_PRE_PMU: before the new ADCs are in status_mask.
TxSwrUp ==
    /\ adcStep.at = "swrUp"
    /\ swrRate' = SwrRateFor(adcOn)
    /\ adcStep' = [adcStep EXCEPT !.at = "adcUp"]
    /\ UNCHANGED <<adcOn, txMode, txdMode, txClk, txDiv2, txdClk, newest, cut>>

\* Mutant: the divided clock is left to the microphone bias.
EnableAdcOneClock ==
    /\ adcStep.at = "adcUp"
    /\ txClk' = TRUE
    /\ adcOn' = adcOn \cup adcStep.set
    /\ adcStep' = NoStep
    /\ UNCHANGED <<txMode, txdMode, txDiv2, txdClk, swrRate, newest, cut>>

\* wcd938x_codec_enable_adc(), SND_SOC_DAPM_PRE_PMU
EnableAdc ==
    /\ adcStep.at = "adcUp"
    /\ txClk' = TRUE /\ txDiv2' = TRUE
    /\ adcOn' = adcOn \cup adcStep.set
    /\ adcStep' = NoStep
    /\ UNCHANGED <<txMode, txdMode, txdClk, swrRate, newest, cut>>

\* SND_SOC_DAPM_POST_PMD of the same three, the ADCs first.
DisableAdc ==
    /\ adcStep.at = "adcDown"
    /\ txClk' = FALSE
    /\ adcOn' = adcOn \ adcStep.set
    /\ cut' = adcOn' /\ newest' = newest \cap adcOn'
    /\ adcStep' = [adcStep EXCEPT !.at = "reqDown"]
    /\ UNCHANGED <<txMode, txdMode, txDiv2, txdClk, swrRate>>

AdcReqDown ==
    /\ adcStep.at = "reqDown"
    /\ txdMode' = [a \in Adcs |-> IF a \in adcStep.set THEN "off" ELSE txdMode[a]]
    /\ txdClk' = txdClk \ adcStep.set
    /\ txDiv2' = FALSE
    /\ adcStep' = [adcStep EXCEPT !.at = "swrDown"]
    /\ UNCHANGED <<adcOn, txMode, txClk, swrRate, newest, cut>>

TxSwrDown ==
    /\ adcStep.at = "swrDown"
    /\ swrRate' = "hifi"
    /\ adcStep' = NoStep
    /\ UNCHANGED <<adcOn, txMode, txdMode, txClk, txDiv2, txdClk, newest, cut>>

AdcNext ==
    \/ BiasClocks \/ \E a \in Adcs : TxModePut(a)
    \/ AdcStart \/ AdcReqUp \/ TxSwrUp \/ EnableAdc \/ DisableAdc \/ AdcReqDown \/ TxSwrDown

AdcSpec == AdcInit /\ [][AdcNext]_adcVars

AdcTypeOK == adcOn \subseteq Adcs /\ txdClk \subseteq Adcs /\ swrRate \in Modes

\* An ADC has all its clocks, unless it outlived another's power-down, which takes the
\* shared ones away.
CaptureClocked == \A a \in adcOn \ cut : txClk /\ txDiv2 /\ a \in txdClk

\* The SoundWire clock is fast enough for every ADC that ran when the last ones came:
\* only those are not yet in status_mask when it is chosen.
RateSuffices ==
    adcStep = NoStep => \A a \in adcOn \ (cut \cup newest) : txdMode[a] = "hifi" => swrRate = "hifi"

AdcSafe == AdcTypeOK /\ CaptureClocked /\ RateSuffices
=============================================================================
