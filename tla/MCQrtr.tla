------------------------------- MODULE MCQrtr -------------------------------
(***************************************************************************)
(* The four QRTR components on small instances.  They meet only through    *)
(* packets, which each of them takes from its surroundings, so a behaviour *)
(* runs one of them, `part`, and leaves the others at their start.         *)
(***************************************************************************)
EXTENDS QrtrFlow, QrtrNode, QrtrPorts, QrtrNs

VARIABLE part

qrtrVars == <<part, flowVars, nodeVars, portVars, nsVars>>

Init ==
    /\ part \in {"flow", "node", "ports", "ns"}
    /\ FlowInit /\ NodeInit /\ PortInit /\ NsInit
    /\ part # "flow" => ~lossy
    /\ part # "node" => ~noMemory

Next ==
    \/ part = "flow" /\ FlowNext /\ UNCHANGED <<part, nodeVars, portVars, nsVars>>
    \/ part = "node" /\ NodeNext /\ UNCHANGED <<part, flowVars, portVars, nsVars>>
    \/ part = "ports" /\ PortNext /\ UNCHANGED <<part, flowVars, nodeVars, nsVars>>
    \/ part = "ns" /\ NsNext /\ UNCHANGED <<part, flowVars, nodeVars, portVars>>

\* A flow at its start asks for no step, so its fairness holds in every part.
Spec == Init /\ [][Next]_qrtrVars /\ FlowFair
=============================================================================
