----------------------------- MODULE WcdMicbias -----------------------------
(***************************************************************************)
(* Microphone bias 2 of the WCD938x codec (wcd938x.c).  DAPM, under its     *)
(* mutex, and the headset detection (MBHC), from its own threads, count its *)
(* users without a common lock: micb_lock guards only the change of the     *)
(* voltage, which takes the bias through its pull-up.                       *)
(***************************************************************************)
EXTENDS Naturals, FiniteSets

Callers == {"dapm", "mbhc"}

VARIABLES
    micbRef, pullRef,  \* micb_ref and pullup_ref of the bias
    micb,              \* its register field: "off", "pull" or "on"
    vout,              \* its voltage: "low" or "high"
    mv2, mv3,          \* the configured voltages of bias 2 and bias 3
    call,              \* per caller, the call under way
    holds,             \* per caller, what it has asked for and not given back
    detecting,         \* MBHC has asked for the threshold voltage
    biasRaced          \* ghost: calls that overlapped

biasVars == <<micbRef, pullRef, micb, vout, mv2, mv3, call, holds, detecting, biasRaced>>

NoCall == [op |-> "none", at |-> "none", r |-> 0, w |-> "none"]

BiasInit ==
    /\ micbRef = 0 /\ pullRef = 0 /\ micb = "off"
    /\ mv2 \in {"low", "high"} /\ mv3 \in {"low", "high"} /\ vout = mv2
    /\ call = [c \in Callers |-> NoCall] /\ holds = [c \in Callers |-> {}]
    /\ detecting = FALSE /\ biasRaced = {}

Busy(c) == call[c] # NoCall

Begins(c, c1) ==
    /\ ~Busy(c)
    /\ call' = [call EXCEPT ![c] = c1]
    /\ biasRaced' = biasRaced \cup { IF "adjust" \in {c1.op, call[d].op} THEN "voltage" ELSE "refs"
                             : d \in { d \in Callers \ {c} : Busy(d) } }

\* wcd938x_codec_enable_micbias(), wcd938x_codec_enable_micbias_pullup() and
\* wcd938x_mbhc_request_micbias(): a caller gives back what it asked for.
Ops == [on |-> "bias", off |-> "bias", pullOn |-> "pull", pullOff |-> "pull"]

RequestMicbias(c, op) ==
    /\ "refs" \notin biasRaced   \* bound: nothing is asked once counting calls have overlapped
    /\ (op \in {"on", "pullOn"}) <=> (Ops[op] \notin holds[c])
    /\ Begins(c, [op |-> op, at |-> "load", r |-> 0, w |-> "none"])
    /\ holds' = [holds EXCEPT ![c] = IF op \in {"on", "pullOn"} THEN @ \cup {Ops[op]} ELSE @ \ {Ops[op]}]
    /\ UNCHANGED <<micbRef, pullRef, micb, vout, mv2, mv3, detecting>>

\* wcd938x_micbias_control(): a counter is read ...
LoadRef(c) ==
    /\ call[c].at = "load"
    /\ call' = [call EXCEPT ![c].at = "store",
                            ![c].r = IF call[c].op \in {"on", "off"} THEN micbRef ELSE pullRef]
    /\ UNCHANGED <<micbRef, pullRef, micb, vout, mv2, mv3, holds, detecting, biasRaced>>

\* ... and written, not below zero ...
StoreRef(c) ==
    LET n == IF call[c].op \in {"on", "pullOn"} THEN call[c].r + 1
             ELSE IF call[c].r > 0 THEN call[c].r - 1 ELSE 0
    IN  /\ call[c].at = "store"
        /\ IF call[c].op \in {"on", "off"}
           THEN micbRef' = n /\ UNCHANGED pullRef
           ELSE pullRef' = n /\ UNCHANGED micbRef
        /\ call' = [call EXCEPT ![c].at = "test", ![c].r = 0]
        /\ UNCHANGED <<micb, vout, mv2, mv3, holds, detecting, biasRaced>>

\* Mutant: the last user turns the bias off, whoever pulls it up.
NewFieldIgnoresPull(op) ==
    CASE op = "on" -> IF micbRef = 1 THEN "on" ELSE "none"
      [] op = "off" -> IF micbRef = 0 THEN "off" ELSE "none"
      [] op = "pullOn" -> IF pullRef = 1 /\ micbRef = 0 THEN "pull" ELSE "none"
      [] op = "pullOff" -> IF pullRef = 0 /\ micbRef = 0 THEN "off" ELSE "none"
      [] OTHER -> "none"

\* ... both counters decide ...
NewField(op) ==
    CASE op = "on" -> IF micbRef = 1 THEN "on" ELSE "none"
      [] op = "off" -> IF micbRef # 0 THEN "none" ELSE IF pullRef > 0 THEN "pull" ELSE "off"
      [] op = "pullOn" -> IF pullRef = 1 /\ micbRef = 0 THEN "pull" ELSE "none"
      [] op = "pullOff" -> IF pullRef = 0 /\ micbRef = 0 THEN "off" ELSE "none"
      [] OTHER -> "none"

TestRefs(c) ==
    /\ call[c].at = "test"
    /\ call' = [call EXCEPT ![c] = IF NewField(call[c].op) = "none" THEN NoCall
                                   ELSE [@ EXCEPT !.at = "write", !.w = NewField(call[c].op)]]
    /\ UNCHANGED <<micbRef, pullRef, micb, vout, mv2, mv3, holds, detecting, biasRaced>>

\* ... and the field is written.
WriteMicb(c) ==
    /\ call[c].at = "write"
    /\ micb' = call[c].w
    /\ call' = [call EXCEPT ![c] = NoCall]
    /\ UNCHANGED <<micbRef, pullRef, vout, mv2, mv3, holds, detecting, biasRaced>>

\* wcd938x_mbhc_micb_ctrl_threshold_mic(): the level it goes by is that of bias 3.
ThresholdMic ==
    /\ ~Busy("mbhc")
    /\ detecting' = ~detecting
    /\ IF mv3 = "high"
       THEN UNCHANGED <<call, biasRaced>>
       ELSE Begins("mbhc", [op |-> "adjust", at |-> "read", r |-> 0,
                            w |-> IF ~detecting THEN "high" ELSE mv3])
    /\ UNCHANGED <<micbRef, pullRef, micb, vout, mv2, mv3, holds>>

\* wcd938x_mbhc_micb_adjust_voltage(): with the bias on, by way of the pull-up.
AdjustRead ==
    /\ call["mbhc"].at = "read"
    /\ call' = [call EXCEPT !["mbhc"] = IF vout = @.w THEN NoCall
                                        ELSE [@ EXCEPT !.at = "pull", !.r = IF micb = "on" THEN 1 ELSE 0]]
    /\ UNCHANGED <<micbRef, pullRef, micb, vout, mv2, mv3, holds, detecting, biasRaced>>

AdjustPull ==
    /\ call["mbhc"].at = "pull"
    /\ micb' = IF call["mbhc"].r = 1 THEN "pull" ELSE micb
    /\ call' = [call EXCEPT !["mbhc"].at = "vout"]
    /\ UNCHANGED <<micbRef, pullRef, vout, mv2, mv3, holds, detecting, biasRaced>>

AdjustVout ==
    /\ call["mbhc"].at = "vout"
    /\ vout' = call["mbhc"].w
    /\ call' = [call EXCEPT !["mbhc"].at = "again"]
    /\ UNCHANGED <<micbRef, pullRef, micb, mv2, mv3, holds, detecting, biasRaced>>

\* Mutant: the bias stays pulled up after the change.
AdjustAgainPulled ==
    /\ call["mbhc"].at = "again"
    /\ call' = [call EXCEPT !["mbhc"] = NoCall]
    /\ UNCHANGED <<micbRef, pullRef, micb, vout, mv2, mv3, holds, detecting, biasRaced>>

AdjustAgain ==
    /\ call["mbhc"].at = "again"
    /\ micb' = IF call["mbhc"].r = 1 THEN "on" ELSE micb
    /\ call' = [call EXCEPT !["mbhc"] = NoCall]
    /\ UNCHANGED <<micbRef, pullRef, vout, mv2, mv3, holds, detecting, biasRaced>>

BiasNext ==
    \/ \E c \in Callers :
         \/ \E op \in DOMAIN Ops : RequestMicbias(c, op)
         \/ LoadRef(c) \/ StoreRef(c) \/ TestRefs(c) \/ WriteMicb(c)
    \/ ThresholdMic \/ AdjustRead \/ AdjustPull \/ AdjustVout \/ AdjustAgain

BiasSpec == BiasInit /\ [][BiasNext]_biasVars

NoCalls == \A c \in Callers : ~Busy(c)
Holders(x) == { c \in Callers : x \in holds[c] }

BiasTypeOK ==
    /\ micbRef \in Nat /\ pullRef \in Nat /\ micb \in {"off", "pull", "on"}
    /\ biasRaced \subseteq {"refs", "voltage"}

\* The counters of the bias are the callers that hold it, unless two calls that count
\* overlapped: a change of the voltage does not disturb them.
RefsExact ==
    NoCalls /\ "refs" \notin biasRaced =>
      micbRef = Cardinality(Holders("bias")) /\ pullRef = Cardinality(Holders("pull"))

\* A bias somebody holds is on, also when its voltage was changed meanwhile.
HeldBiasOn == NoCalls /\ "refs" \notin biasRaced /\ Holders("bias") # {} => micb = "on"

\* A bias nobody holds is pulled up or off, unless its voltage was changed while it was
\* released.
ReleasedBiasOff ==
    NoCalls /\ biasRaced = {} /\ Holders("bias") = {} =>
      micb = IF Holders("pull") # {} THEN "pull" ELSE "off"

\* The bias is back at its configured voltage when the detection is over, unless bias 3
\* has another one.
VoltageRestored == NoCalls /\ ~detecting /\ mv2 = mv3 => vout = mv2

MicbiasSafe == BiasTypeOK /\ RefsExact /\ HeldBiasOn /\ ReleasedBiasOff /\ VoltageRestored
=============================================================================
