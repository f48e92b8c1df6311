------------------------------ MODULE MCCodec ------------------------------
(***************************************************************************)
(* Devices behind the audio stack on small instances: the rails that feed  *)
(* it, the codec's outputs, microphone bias and ADCs, and the proximity    *)
(* sensor.  They share no state, so a behaviour runs one of them, `part`,  *)
(* and leaves the others at their start.                                   *)
(***************************************************************************)
EXTENDS PowerHold, WcdOutputs, WcdMicbias, WcdAdc, Aw96103

\* The boards looked at: an earpiece and headphones, or an earpiece and a second output.
WiredOutputs == {{"ear", "hphl", "hphr"}, {"ear", "aux"}}

VARIABLE part

codecVars == <<part, pwVars, outVars, biasVars, adcVars, awVars>>

Init ==
    /\ part \in {"rails", "out", "bias", "adc", "aw"}
    /\ PwInit /\ OutInit /\ BiasInit /\ AdcInit /\ AwInit
    /\ part # "out" => "aux" \in wired /\ earMux = "aux"
    /\ part # "bias" => mv2 = "low" /\ mv3 = "low"

Next ==
    \/ part = "rails" /\ PwNext /\ UNCHANGED <<part, outVars, biasVars, adcVars, awVars>>
    \/ part = "out" /\ OutNext /\ UNCHANGED <<part, pwVars, biasVars, adcVars, awVars>>
    \/ part = "bias" /\ BiasNext /\ UNCHANGED <<part, pwVars, outVars, adcVars, awVars>>
    \/ part = "adc" /\ AdcNext /\ UNCHANGED <<part, pwVars, outVars, biasVars, awVars>>
    \/ part = "aw" /\ AwNext /\ UNCHANGED <<part, pwVars, outVars, biasVars, adcVars>>

\* Rails at their start ask for no step, so their fairness holds in every part.
Spec == Init /\ [][Next]_codecVars /\ WF_pwVars(PwStep)

\* The codec's analogue paths and the proximity sensor keep what their handlers promise,
\* whatever order streams, controls, headset detection and the configuration file come
\* in: outputs that play are fed and watched, bias and clocks are there for those that
\* hold them, and the sensor reports what it sees.
DevicesSafe == OutputsSafe /\ MicbiasSafe /\ AdcSafe /\ AwSafe
=============================================================================
