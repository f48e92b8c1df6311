------------------------------- MODULE MCAudio ------------------------------
(***************************************************************************)
(* The audio modules, the codec's aggregate, a PCM and a compressed stream *)
(* on small instances.                                                     *)
(* They share no state, so a behaviour runs one of them, `part`, and       *)
(* leaves the others at their start.                                       *)
(***************************************************************************)
EXTENDS AudioModules, Q6asmPcm, Q6asmCompr, WcdBind

VARIABLE part

audioVars == <<part, moduleVars, pcmVars, comprVars, bindVars>>

Init ==
    /\ part \in {"modules", "bind", "pcm", "compr"}
    /\ ModulesInit /\ PcmInit /\ ComprInit /\ BindInit
    /\ part # "modules" => mode /\ "wcd" \in chosen
    /\ part # "pcm" => dir = "playback" /\ ~badFormat

Next ==
    \/ part = "modules" /\ ModulesNext /\ UNCHANGED <<part, pcmVars, comprVars, bindVars>>
    \/ part = "pcm" /\ PcmNext /\ UNCHANGED <<part, moduleVars, comprVars, bindVars>>
    \/ part = "compr" /\ ComprNext /\ UNCHANGED <<part, moduleVars, pcmVars, bindVars>>
    \/ part = "bind" /\ BindNext /\ UNCHANGED <<part, moduleVars, pcmVars, comprVars>>

\* What is at its start asks for no step, so its fairness holds in every part.
Spec == Init /\ [][Next]_audioVars /\ PcmFair /\ ComprFair /\ BindFair
=============================================================================
