---------------------------- MODULE QrtrProofs -----------------------------
(***************************************************************************)
(* Proofs about the QRTR network: flow control, the reference counts of    *)
(* nodes and of sockets, each for any number of senders, holders, sockets  *)
(* and ports.                                                              *)
(***************************************************************************)
EXTENDS QrtrFlow, QrtrNode, QrtrPorts, FiniteSetTheorems, TLAPS

-----------------------------------------------------------------------------
(* Flow control (QrtrFlow). *)

(* A set that gains or loses one sender grows or shrinks by one. *)
LEMMA SendingCount ==
    ASSUME FlowTypeOK
    PROVE  /\ IsFiniteSet(Senders) /\ Cardinality(Senders) \in Nat
           /\ IsFiniteSet(Sending) /\ Cardinality(Sending) \in Nat
           /\ Cardinality(Sending) <= Cardinality(Senders)
           /\ \A s \in Senders : Cardinality(Sending \cup {s}) =
                 IF s \in Sending THEN Cardinality(Sending) ELSE Cardinality(Sending) + 1
           /\ \A s \in Senders : Cardinality(Sending \ {s}) =
                 IF s \in Sending THEN Cardinality(Sending) - 1 ELSE Cardinality(Sending)
           /\ \A s \in Senders : Cardinality(Sending \ {s}) <= Cardinality(Senders) - 1
           /\ Len(pipe) \in Nat /\ pending \in Nat /\ \A i \in DOMAIN pipe : i \in Nat
<1>1. IsFiniteSet(Senders) /\ Cardinality(Senders) \in Nat
  BY FlowAssumption, FS_CardinalityType
<1>2. Sending \in SUBSET Senders
  BY DEF Sending
<1>3. IsFiniteSet(Sending) /\ Cardinality(Sending) <= Cardinality(Senders)
  BY <1>1, <1>2, FS_Subset
<1>4. Cardinality(Sending) \in Nat
  BY <1>3, FS_CardinalityType
<1>5. ASSUME NEW s \in Senders
      PROVE  Cardinality(Sending \cup {s}) =
               IF s \in Sending THEN Cardinality(Sending) ELSE Cardinality(Sending) + 1
  BY <1>3, FS_AddElement
<1>6. ASSUME NEW s \in Senders
      PROVE  Cardinality(Sending \ {s}) =
               IF s \in Sending THEN Cardinality(Sending) - 1 ELSE Cardinality(Sending)
  BY <1>3, FS_RemoveElement
<1>7. ASSUME NEW s \in Senders
      PROVE  Cardinality(Sending \ {s}) <= Cardinality(Senders) - 1
  <2>1. Sending \ {s} \in SUBSET (Senders \ {s})
    BY <1>2
  <2>2. IsFiniteSet(Senders \ {s}) /\ Cardinality(Senders \ {s}) = Cardinality(Senders) - 1
    BY <1>1, FS_RemoveElement
  <2> QED BY <2>1, <2>2, FS_Subset
<1>8. Len(pipe) \in Nat /\ pending \in Nat /\ \A i \in DOMAIN pipe : i \in Nat
  BY FlowAssumption DEF FlowTypeOK
<1> QED BY <1>1, <1>3, <1>4, <1>5, <1>6, <1>7, <1>8

(* A flow starts with nothing sent, asked for or owed. *)
LEMMA FlowInitInv == FlowInit => FlowInv
<1> SUFFICES ASSUME FlowInit PROVE FlowInv
  OBVIOUS
<1>1. /\ pc \in [Senders -> {"idle", "wait", "asleep", "xmit", "failed"}]
      /\ confirm \in [Senders -> BOOLEAN]
  BY DEF FlowInit
<1>2. woken \subseteq Senders /\ pending \in 0 .. High /\ resumes \in Nat
  BY FlowAssumption DEF FlowInit
<1>3. txFailed \in BOOLEAN /\ ep \in BOOLEAN
  BY DEF FlowInit
<1>4. pipe \in Seq(BOOLEAN)
  BY DEF FlowInit
<1>41. FlowTypeOK
  BY <1>1, <1>2, <1>3, <1>4 DEF FlowInit, FlowTypeOK
<1>5. Sending = {}
  BY DEF FlowInit, Sending
<1>6. Cardinality(Sending) = 0 /\ Cardinality(Senders) \in Nat \ {0}
  BY <1>5, FS_EmptySet, FlowAssumption, FS_CardinalityType
<1>7. WindowKept
  BY <1>6, FlowAssumption DEF FlowInit, WindowKept
<1>8. ConfirmationOwed /\ OneConfirmation
  BY FlowAssumption DEF FlowInit, ConfirmationOwed, OneConfirmation, Carrying, Asked
<1> QED BY <1>41, <1>7, <1>8 DEF FlowInit, FlowInv, NoSleepAfterUnregister

(* A call that begins, sleeps, is woken or ends without sending. *)
LEMMA FlowWaitInv ==
    ASSUME FlowInv, NEW s \in Senders, Begin(s) \/ Sleep(s) \/ Wake(s) \/ Interrupt(s) \/ Broken(s)
    PROVE  FlowInv'
<1> USE DEF Begin, Sleep, Wake, Interrupt, Broken
<1>1. FlowTypeOK'
  BY DEF FlowInv, FlowTypeOK
<1>2. Sending' = Sending /\ \A t \in Senders : pc[t] \in {"xmit", "failed"} <=> pc'[t] \in {"xmit", "failed"}
  BY DEF FlowInv, FlowTypeOK, Sending
<1>3. ConfirmationOwed' /\ OneConfirmation'
  BY <1>2 DEF FlowInv, FlowTypeOK, ConfirmationOwed, OneConfirmation, Carrying, Asked
<1>4. WindowKept'
  BY <1>2 DEF FlowInv, WindowKept
<1>5. NoSleepAfterUnregister'
  BY DEF FlowInv, FlowTypeOK, NoSleepAfterUnregister, Asleep, MayPass
<1> QED BY <1>1, <1>3, <1>4, <1>5 DEF FlowInv

(* A sender that passes is counted, and asks when it reaches the low watermark. *)
LEMMA FlowPassInv ==
    ASSUME FlowInv, NEW s \in Senders, Pass(s) PROVE FlowInv'
<1> USE DEF Pass, MayPass
<1> USE FlowAssumption
<1>1. FlowTypeOK'
  BY DEF FlowInv, FlowTypeOK
<1>2. Sending' = Sending \cup {s} /\ s \notin Sending
  BY DEF FlowInv, FlowTypeOK, Sending
<1>3. ConfirmationOwed'
  <2>1. CASE pending + 1 = Low
    <3>1. confirm'[s] /\ pc'[s] = "xmit"
      BY <2>1 DEF FlowInv, FlowTypeOK
    <3> QED BY <3>1 DEF ConfirmationOwed, Carrying
  <2>2. CASE pending >= Low
    BY <2>2 DEF FlowInv, FlowTypeOK, ConfirmationOwed, Carrying, Asked
  <2>3. CASE pending + 1 < Low
    BY <2>3 DEF FlowInv, FlowTypeOK, ConfirmationOwed
  <2> QED BY <2>1, <2>2, <2>3 DEF FlowInv, FlowTypeOK
<1>4. OneConfirmation'
  BY DEF FlowInv, FlowTypeOK, ConfirmationOwed, OneConfirmation, Carrying, Asked
<1>5. WindowKept'
  <2>1. FlowTypeOK /\ WindowKept
    BY DEF FlowInv
  <2>2. Cardinality(Sending') = Cardinality(Sending) + 1
    BY <1>2, <2>1, SendingCount
  <2>3. Len(pipe) \in Nat /\ pending \in Nat /\ Cardinality(Sending) \in Nat
        /\ Cardinality(Senders) \in Nat /\ \A i \in DOMAIN pipe : i \in Nat
    BY <2>1, SendingCount
  <2>4. UNCHANGED <<pipe, resumes, txFailed>> /\ pending' = pending + 1
    OBVIOUS
  <2> HIDE DEF Pass, MayPass
  <2>5. ASSUME NEW i \in DOMAIN pipe, pipe[i]
        PROVE  Len(pipe) + Cardinality(Sending') - i <= Cardinality(Senders) - 1 + pending' - Low
    <3>1. Len(pipe) + Cardinality(Sending) - i <= Cardinality(Senders) - 1 + pending - Low
      BY <2>1, <2>5 DEF WindowKept
    <3> QED BY <2>2, <2>3, <2>4, <3>1, SMTT(30)
  <2>6. resumes > 0 => Len(pipe) + Cardinality(Sending') <= Cardinality(Senders) - 1 + pending' - Low
    BY <2>1, <2>2, <2>3, <2>4 DEF WindowKept, FlowTypeOK
  <2>7. Len(pipe) + Cardinality(Sending') + (IF txFailed THEN 1 ELSE 0)
          <= Cardinality(Senders) - 1 + High - Low + pending'
    BY <2>1, <2>2, <2>3, <2>4 DEF WindowKept
  <2> QED BY <2>4, <2>5, <2>6, <2>7 DEF WindowKept
<1>6. NoSleepAfterUnregister'
  BY DEF FlowInv, FlowTypeOK, NoSleepAfterUnregister, Asleep
<1> QED BY <1>1, <1>3, <1>4, <1>5, <1>6 DEF FlowInv

(* A sender that passes after a failure takes the confirmation over. *)
LEMMA FlowPassFailedInv ==
    ASSUME FlowInv, NEW s \in Senders, PassFailed(s) PROVE FlowInv'
<1> USE DEF PassFailed
<1> USE FlowAssumption
<1>1. FlowTypeOK'
  BY DEF FlowInv, FlowTypeOK
<1>2. Sending' = Sending \cup {s} /\ s \notin Sending
  BY DEF FlowInv, FlowTypeOK, Sending
<1>3. ConfirmationOwed'
  <2>1. confirm'[s] /\ pc'[s] = "xmit"
    BY DEF FlowInv, FlowTypeOK
  <2> QED BY <2>1 DEF ConfirmationOwed, Carrying
<1>4. OneConfirmation'
  BY DEF FlowInv, FlowTypeOK, ConfirmationOwed, OneConfirmation, Carrying, Asked
<1>5. WindowKept'
  <2>1. FlowTypeOK /\ WindowKept /\ OneConfirmation
    BY DEF FlowInv
  <2>2. Cardinality(Sending') = Cardinality(Sending) + 1
    BY <1>2, <2>1, SendingCount
  <2> QED BY <2>1, <2>2, SendingCount DEF WindowKept, OneConfirmation, Asked
<1>6. NoSleepAfterUnregister'
  BY DEF FlowInv, FlowTypeOK, NoSleepAfterUnregister, Asleep
<1> QED BY <1>1, <1>3, <1>4, <1>5, <1>6 DEF FlowInv

(* A message that is handed over is behind all those before it. *)
LEMMA FlowXmitInv ==
    ASSUME FlowInv, NEW s \in Senders, Xmit(s) PROVE FlowInv'
<1> USE DEF Xmit
<1> USE FlowAssumption
<1>1. FlowTypeOK'
  BY DEF FlowInv, FlowTypeOK
<1>2. Sending' = Sending \ {s} /\ s \in Sending
  BY DEF FlowInv, FlowTypeOK, Sending
<1>3. Len(pipe') = Len(pipe) + 1 /\ DOMAIN pipe' = 1 .. Len(pipe')
  /\ (\A i \in DOMAIN pipe : pipe'[i] = pipe[i]) /\ pipe'[Len(pipe) + 1] = confirm[s]
  BY DEF FlowInv, FlowTypeOK
<1>4. ConfirmationOwed'
  BY <1>3 DEF FlowInv, FlowTypeOK, ConfirmationOwed, Carrying, Asked
<1>5. OneConfirmation'
  BY <1>3 DEF FlowInv, FlowTypeOK, ConfirmationOwed, OneConfirmation, Carrying, Asked
<1>6. WindowKept'
  <2>1. FlowTypeOK /\ WindowKept /\ OneConfirmation
    BY DEF FlowInv
  <2>2. Cardinality(Sending') = Cardinality(Sending) - 1 /\ Cardinality(Sending') <= Cardinality(Senders) - 1
    BY <1>2, <2>1, SendingCount
  <2>3. UNCHANGED <<resumes, txFailed, pending>> /\ pc[s] = "xmit"
    OBVIOUS
  <2> HIDE DEF Xmit
  <2>4. Len(pipe') + Cardinality(Sending') = Len(pipe) + Cardinality(Sending)
    BY <1>3, <2>1, <2>2, SendingCount
  <2>5. ASSUME NEW i \in DOMAIN pipe', pipe'[i]
        PROVE  Len(pipe') + Cardinality(Sending') - i <= Cardinality(Senders) - 1 + pending - Low
    <3>1. CASE i \in DOMAIN pipe
      <4>1. pipe[i]
        BY <1>3, <2>5, <3>1
      <4>2. Len(pipe) + Cardinality(Sending) - i <= Cardinality(Senders) - 1 + pending - Low
        BY <2>1, <3>1, <4>1 DEF WindowKept
      <4> QED BY <1>3, <2>1, <2>2, <3>1, <4>2, SendingCount, SMTT(30)
    <3>2. CASE i \notin DOMAIN pipe
      <4>1. i = Len(pipe') /\ confirm[s]
        BY <1>3, <2>1, <2>5, <3>2, SendingCount DEF FlowTypeOK
      <4>2. pending >= Low
        <5>1. Carrying
          BY <2>3, <4>1 DEF Carrying
        <5> QED BY <2>1, <5>1, SendingCount DEF OneConfirmation
      <4> QED BY <1>3, <2>1, <2>2, <4>1, <4>2, SendingCount
    <3> QED BY <3>1, <3>2
  <2>6. resumes > 0 => Len(pipe') + Cardinality(Sending') <= Cardinality(Senders) - 1 + pending - Low
    BY <2>1, <2>4 DEF WindowKept
  <2>7. Len(pipe') + Cardinality(Sending') + (IF txFailed THEN 1 ELSE 0)
          <= Cardinality(Senders) - 1 + High - Low + pending
    BY <2>1, <2>4 DEF WindowKept
  <2> QED BY <2>3, <2>5, <2>6, <2>7 DEF WindowKept
<1>7. NoSleepAfterUnregister'
  BY DEF FlowInv, FlowTypeOK, NoSleepAfterUnregister, Asleep
<1> QED BY <1>1, <1>4, <1>5, <1>6, <1>7 DEF FlowInv

(* A lost message leaves its confirmation to qrtr_tx_flow_failed(). *)
LEMMA FlowLostInv ==
    ASSUME FlowInv, NEW s \in Senders, XmitLost(s) PROVE FlowInv'
<1> USE DEF XmitLost
<1> USE FlowAssumption
<1>1. FlowTypeOK'
  BY DEF FlowInv, FlowTypeOK
<1>2. Sending' = IF confirm[s] THEN Sending ELSE Sending \ {s}
  BY DEF FlowInv, FlowTypeOK, Sending
<1>3. ConfirmationOwed'
  BY DEF FlowInv, FlowTypeOK, ConfirmationOwed, Carrying, Asked
<1>4. OneConfirmation'
  BY DEF FlowInv, FlowTypeOK, ConfirmationOwed, OneConfirmation, Carrying, Asked
<1>5. WindowKept'
  <2>1. FlowTypeOK /\ WindowKept
    BY DEF FlowInv
  <2>2. Cardinality(Sending') \in {Cardinality(Sending), Cardinality(Sending) - 1}
    BY <1>2, <2>1, SendingCount
  <2>3. Len(pipe) \in Nat /\ pending \in Nat /\ Cardinality(Sending) \in Nat
        /\ Cardinality(Senders) \in Nat /\ \A i \in DOMAIN pipe : i \in Nat
    BY <2>1, SendingCount
  <2>4. UNCHANGED <<pipe, resumes, txFailed, pending>>
    OBVIOUS
  <2> HIDE DEF XmitLost
  <2>5. CASE Cardinality(Sending') = Cardinality(Sending)
    BY <2>1, <2>4, <2>5 DEF WindowKept
  <2>6. CASE Cardinality(Sending') = Cardinality(Sending) - 1
    <3>1. ASSUME NEW i \in DOMAIN pipe, pipe[i]
          PROVE  Len(pipe) + Cardinality(Sending') - i <= Cardinality(Senders) - 1 + pending - Low
      <4>1. Len(pipe) + Cardinality(Sending) - i <= Cardinality(Senders) - 1 + pending - Low
        BY <2>1, <3>1 DEF WindowKept
      <4> QED BY <2>3, <2>6, <4>1
    <3>2. resumes > 0 => Len(pipe) + Cardinality(Sending') <= Cardinality(Senders) - 1 + pending - Low
      BY <2>1, <2>3, <2>6 DEF WindowKept
    <3>3. Len(pipe) + Cardinality(Sending') + (IF txFailed THEN 1 ELSE 0)
            <= Cardinality(Senders) - 1 + High - Low + pending
      BY <2>1, <2>3, <2>6 DEF WindowKept
    <3> QED BY <2>4, <3>1, <3>2, <3>3 DEF WindowKept
  <2> QED BY <2>2, <2>5, <2>6
<1>6. NoSleepAfterUnregister'
  BY DEF FlowInv, FlowTypeOK, NoSleepAfterUnregister, Asleep
<1> QED BY <1>1, <1>3, <1>4, <1>5, <1>6 DEF FlowInv

(* The failed transmission is marked for the next sender. *)
LEMMA FlowFailedInv ==
    ASSUME FlowInv, NEW s \in Senders, FlowFailed(s) PROVE FlowInv'
<1> USE DEF FlowFailed
<1> USE FlowAssumption
<1>1. FlowTypeOK'
  BY DEF FlowInv, FlowTypeOK
<1>2. Sending' = Sending \ {s} /\ s \in Sending
  BY DEF FlowInv, FlowTypeOK, Sending
<1>3. ConfirmationOwed'
  BY DEF FlowInv, FlowTypeOK, ConfirmationOwed, Carrying, Asked
<1>4. OneConfirmation'
  BY DEF FlowInv, FlowTypeOK, ConfirmationOwed, OneConfirmation, Carrying, Asked
<1>5. WindowKept'
  <2>1. FlowTypeOK /\ WindowKept /\ OneConfirmation
    BY DEF FlowInv
  <2>2. Cardinality(Sending') = Cardinality(Sending) - 1
    BY <1>2, <2>1, SendingCount
  <2> QED BY <2>1, <2>2, SendingCount DEF WindowKept, OneConfirmation, Carrying, Asked
<1>6. NoSleepAfterUnregister'
  BY DEF FlowInv, FlowTypeOK, NoSleepAfterUnregister, Asleep
<1> QED BY <1>1, <1>3, <1>4, <1>5, <1>6 DEF FlowInv

(* The remote reads the oldest message and answers one that asks. *)
LEMMA FlowReadsInv == ASSUME FlowInv, RemoteReads PROVE FlowInv'
<1> USE FlowAssumption
<1>1. FlowTypeOK /\ WindowKept /\ OneConfirmation /\ ConfirmationOwed /\ NoSleepAfterUnregister
      /\ (ep <=> gone = "no")
  BY DEF FlowInv
<1>2. pipe \in Seq(BOOLEAN) /\ pipe # <<>> /\ pipe' = Tail(pipe)
  BY DEF FlowInv, FlowTypeOK, RemoteReads
<1>3. /\ Len(pipe) \in Nat \ {0} /\ DOMAIN pipe = 1 .. Len(pipe) /\ Head(pipe) = pipe[1]
      /\ pipe' \in Seq(BOOLEAN) /\ Len(pipe') = Len(pipe) - 1 /\ DOMAIN pipe' = 1 .. Len(pipe')
      /\ \A i \in 1 .. Len(pipe') : pipe'[i] = pipe[i + 1]
  BY <1>2
<1>4. \A i \in DOMAIN pipe : i # 1 => i - 1 \in DOMAIN pipe' /\ pipe'[i - 1] = pipe[i]
  BY <1>3
<1>5. UNCHANGED <<lossy, pc, confirm, woken, pending, txFailed, ep, gone>>
  BY DEF RemoteReads
<1>6. Sending' = Sending /\ NoSleepAfterUnregister'
  BY <1>1, <1>5 DEF Sending, NoSleepAfterUnregister, Asleep
<1>61. \A i \in DOMAIN pipe : pipe[i] =>
         Len(pipe) + Cardinality(Sending) - i <= Cardinality(Senders) - 1 + pending - Low
  BY <1>1 DEF WindowKept
<1>62. resumes > 0 => Len(pipe) + Cardinality(Sending) <= Cardinality(Senders) - 1 + pending - Low
  BY <1>1 DEF WindowKept
<1>63. Len(pipe) + Cardinality(Sending) + (IF txFailed THEN 1 ELSE 0)
         <= Cardinality(Senders) - 1 + High - Low + pending
  BY <1>1 DEF WindowKept
<1>7. CASE pipe[1]
  <2>1. resumes' = 1 /\ resumes = 0
    <3>1. Asked
      BY <1>3, <1>7 DEF Asked
    <3>2. resumes = 0
      BY <1>1, <3>1 DEF OneConfirmation
    <3>3. resumes' = resumes + 1
      BY <1>3, <1>7 DEF RemoteReads
    <3> QED BY <3>2, <3>3
  <2>2. \A i \in DOMAIN pipe' : ~pipe'[i]
    BY <1>1, <1>3, <1>7 DEF OneConfirmation
  <2>3. FlowTypeOK'
    BY <1>1, <1>3, <1>5, <2>1 DEF FlowTypeOK
  <2>4. ConfirmationOwed' /\ OneConfirmation'
    BY <1>1, <1>3, <1>5, <1>7, <2>1, <2>2 DEF FlowTypeOK, ConfirmationOwed, OneConfirmation, Carrying, Asked
  <2>5. WindowKept'
    <3>1. Len(pipe) + Cardinality(Sending) - 1 <= Cardinality(Senders) - 1 + pending - Low
      <4>1. 1 \in DOMAIN pipe
        BY <1>3
      <4> QED BY <1>61, <1>7, <4>1
    <3>2. pending <= High
      BY <1>1 DEF FlowTypeOK
    <3> QED BY <1>1, <1>3, <1>5, <1>6, <2>1, <2>2, <3>1, <3>2, SendingCount, SMTT(30) DEF WindowKept
  <2> QED BY <1>1, <1>5, <1>6, <2>3, <2>4, <2>5 DEF FlowInv
<1>8. CASE ~pipe[1]
  <2>1. resumes' = resumes
    BY <1>3, <1>8 DEF RemoteReads
  <2>2. Asked' <=> Asked
    <3>1. ASSUME NEW i \in DOMAIN pipe, pipe[i] PROVE Asked'
      BY <1>4, <1>8, <3>1 DEF Asked
    <3>2. ASSUME NEW i \in DOMAIN pipe', pipe'[i] PROVE Asked
      <4>1. i + 1 \in DOMAIN pipe /\ pipe[i + 1] = pipe'[i]
        BY <1>3
      <4> QED BY <3>2, <4>1 DEF Asked
    <3> QED BY <3>1, <3>2 DEF Asked
  <2>3. FlowTypeOK'
    BY <1>1, <1>3, <1>5, <2>1 DEF FlowTypeOK
  <2>4. ConfirmationOwed'
    BY <1>1, <1>5, <2>1, <2>2 DEF ConfirmationOwed, Carrying
  <2>5. \A i, j \in DOMAIN pipe' : pipe'[i] /\ pipe'[j] => i = j
    <3> SUFFICES ASSUME NEW i \in DOMAIN pipe', NEW j \in DOMAIN pipe', pipe'[i], pipe'[j] PROVE i = j
      OBVIOUS
    <3>1. i + 1 \in DOMAIN pipe /\ pipe[i + 1] /\ j + 1 \in DOMAIN pipe /\ pipe[j + 1]
      BY <1>3
    <3>2. i + 1 = j + 1
      BY <1>1, <3>1 DEF OneConfirmation
    <3> QED BY <1>3, <3>2
  <2>6. OneConfirmation'
    BY <1>1, <1>5, <2>1, <2>2, <2>5 DEF OneConfirmation, Carrying
  <2>7. WindowKept'
    <3>1. ASSUME NEW i \in DOMAIN pipe', pipe'[i]
          PROVE  Len(pipe') + Cardinality(Sending) - i <= Cardinality(Senders) - 1 + pending - Low
      <4>1. i + 1 \in DOMAIN pipe /\ pipe[i + 1]
        BY <1>3, <3>1
      <4>2. Len(pipe) + Cardinality(Sending) - (i + 1) <= Cardinality(Senders) - 1 + pending - Low
        BY <1>61, <4>1
      <4> QED BY <1>1, <1>3, <4>2, SendingCount
    <3>2. resumes > 0 => Len(pipe') + Cardinality(Sending) <= Cardinality(Senders) - 1 + pending - Low
      BY <1>1, <1>3, <1>62, SendingCount
    <3>3. Len(pipe') + Cardinality(Sending) + (IF txFailed THEN 1 ELSE 0)
            <= Cardinality(Senders) - 1 + High - Low + pending
      BY <1>1, <1>3, <1>63, SendingCount
    <3> QED BY <1>5, <1>6, <2>1, <3>1, <3>2, <3>3 DEF WindowKept
  <2> QED BY <1>1, <1>5, <1>6, <2>3, <2>4, <2>6, <2>7 DEF FlowInv
<1> QED BY <1>7, <1>8

(* A confirmation arrives, the endpoint goes away, or its waiters are woken. *)
LEMMA FlowEndpointInv == ASSUME FlowInv, Resume \/ EpUnregister \/ WakeAll PROVE FlowInv'
<1> USE FlowAssumption
<1>1. FlowTypeOK /\ WindowKept /\ OneConfirmation /\ ConfirmationOwed /\ NoSleepAfterUnregister
      /\ (ep <=> gone = "no")
  BY DEF FlowInv
<1>2. CASE Resume
  <2>1. FlowTypeOK'
    BY <1>1, <1>2 DEF Resume, Wakes, Asleep, FlowTypeOK
  <2>2. resumes = 1 /\ resumes' = 0 /\ pending' = 0 /\ ~txFailed /\ ~Carrying /\ ~Asked
    BY <1>1, <1>2 DEF Resume, FlowTypeOK, OneConfirmation
  <2>3. ConfirmationOwed' /\ OneConfirmation'
    BY <1>1, <1>2, <2>2 DEF Resume, ConfirmationOwed, OneConfirmation, Carrying, Asked
  <2>4. Sending' = Sending
    BY <1>2 DEF Resume, Sending
  <2>5. WindowKept'
    BY <1>1, <1>2, <2>2, <2>4, SendingCount DEF Resume, FlowTypeOK, WindowKept, Asked
  <2>6. NoSleepAfterUnregister'
    BY <1>1, <1>2 DEF Resume, NoSleepAfterUnregister, Asleep
  <2> QED BY <1>1, <1>2, <2>1, <2>3, <2>5, <2>6 DEF FlowInv, Resume
<1>3. CASE EpUnregister \/ WakeAll
  <2> USE DEF EpUnregister, WakeAll
  <2>1. FlowTypeOK'
    BY <1>1, <1>3 DEF FlowTypeOK, Asleep
  <2>2. ConfirmationOwed' /\ OneConfirmation'
    BY <1>1, <1>3 DEF ConfirmationOwed, OneConfirmation, Carrying, Asked
  <2>4. Sending' = Sending
    BY <1>3 DEF Sending
  <2>5. WindowKept'
    BY <1>1, <1>3, <2>4 DEF WindowKept
  <2>3. NoSleepAfterUnregister' /\ (ep' <=> gone' = "no")
    BY <1>1, <1>3 DEF NoSleepAfterUnregister, Asleep
  <2> QED BY <2>1, <2>2, <2>3, <2>5 DEF FlowInv
<1> QED BY <1>2, <1>3

(* Every step of the flow keeps its invariant. *)
LEMMA FlowNextInv == FlowInv /\ [FlowNext]_flowVars => FlowInv'
<1> SUFFICES ASSUME FlowInv, [FlowNext]_flowVars PROVE FlowInv'
  OBVIOUS
<1>1. CASE \E s \in Senders : SenderStep(s)
  BY <1>1, FlowWaitInv, FlowPassInv, FlowPassFailedInv, FlowXmitInv, FlowLostInv, FlowFailedInv
     DEF SenderStep
<1>2. CASE RemoteReads
  BY <1>2, FlowReadsInv
<1>3. CASE Resume \/ EpUnregister \/ WakeAll
  BY <1>3, FlowEndpointInv
<1>4. CASE UNCHANGED flowVars
  BY <1>4 DEF flowVars, FlowInv, FlowTypeOK, ConfirmationOwed, OneConfirmation, WindowKept, Sending,
              Carrying, Asked, NoSleepAfterUnregister, Asleep
<1> QED BY <1>1, <1>2, <1>3, <1>4 DEF FlowNext

(* The flow control of qrtr_node_enqueue() and qrtr_tx_resume(), for any number of  *)
(* senders and any watermarks.                                                      *)
THEOREM FlowIsSafe == FlowSpec => []FlowSafe
<1>1. FlowInit => FlowInv
  BY FlowInitInv
<1>2. FlowInv /\ [FlowNext]_flowVars => FlowInv'
  BY FlowNextInv
<1>3. FlowInv => FlowSafe
  <2> SUFFICES ASSUME FlowInv PROVE WindowBounded
    BY DEF FlowSafe
  <2> QED BY FlowAssumption, SendingCount DEF FlowInv, FlowTypeOK, WindowKept, WindowBounded
<1> QED BY <1>1, <1>2, <1>3, PTL DEF FlowSpec

-----------------------------------------------------------------------------
(* Nodes and endpoints (QrtrNode). *)

(* The users that hold a node, before and after one of them takes or drops it. *)
LEMMA HeldCount ==
    ASSUME NEW n
    PROVE  /\ IsFiniteSet(HeldBy(n)) /\ Cardinality(HeldBy(n)) \in Nat
           /\ \A u \in Holders : Cardinality(HeldBy(n) \cup {u}) =
                 IF u \in HeldBy(n) THEN Cardinality(HeldBy(n)) ELSE Cardinality(HeldBy(n)) + 1
           /\ \A u \in Holders : Cardinality(HeldBy(n) \ {u}) =
                 IF u \in HeldBy(n) THEN Cardinality(HeldBy(n)) - 1 ELSE Cardinality(HeldBy(n))
           /\ Cardinality(HeldBy(n)) = 0 <=> HeldBy(n) = {}
<1>1. HeldBy(n) \in SUBSET Holders
  BY DEF HeldBy
<1>2. IsFiniteSet(HeldBy(n))
  BY <1>1, NodeAssumption, FS_Subset
<1> QED BY <1>2, FS_CardinalityType, FS_AddElement, FS_RemoveElement, FS_EmptySet

(* No node has an endpoint, an id, a holder or a reference at the start. *)
LEMMA NodeInitInv == NodeInit => NodeInv
<1> SUFFICES ASSUME NodeInit PROVE NodeInv
  OBVIOUS
<1>1. NodeTypeOK
  BY DEF NodeInit, NodeTypeOK
<1>2. \A n \in Nodes : Owed(n) = 0
  <2> SUFFICES ASSUME NEW n \in Nodes PROVE Owed(n) = 0
    OBVIOUS
  <2>1. HeldBy(n) = {}
    BY NodeAssumption DEF NodeInit, HeldBy
  <2> QED BY <2>1, FS_EmptySet DEF Owed, NodeInit
<1> QED BY <1>1, <1>2 DEF NodeInit, NodeInv, NoFreedNode, RefsAccounted, LiveRouteKnown

(* A new endpoint holds the first reference of its node. *)
LEMMA NodeRegisterInv == ASSUME NodeInv, NEW n \in Nodes, NodeRegister(n) PROVE NodeInv'
<1> USE DEF NodeRegister
<1>1. NodeTypeOK'
  BY DEF NodeInv, NodeTypeOK
<1>2. \A m : HeldBy(m)' = HeldBy(m)
  BY DEF HeldBy
<1>3. Owed(n) = 0 /\ Owed(n)' = 1 /\ \A m \in Nodes : m # n => Owed(m)' = Owed(m)
  BY <1>2, HeldCount DEF NodeInv, NodeTypeOK, Owed
<1>4. \A i \in NodeIds : table[i] # n
  BY NodeAssumption DEF NodeInv, NodeTypeOK
<1>5. RefsAccounted'
  BY <1>3 DEF NodeInv, NodeTypeOK, RefsAccounted
<1>6. \A m \in Nodes : m \in freed' \/ refs'[m] >= Owed(m)'
  BY <1>3 DEF NodeInv, NodeTypeOK
<1>7. \A i \in NodeIds : table'[i] # NoNode => refs'[table'[i]] > 0
  BY DEF NodeInv, NodeTypeOK
<1>8. NoFreedNode' /\ LiveRouteKnown' /\ up' \cap freed' = {}
  BY <1>4 DEF NodeInv, NoFreedNode, LiveRouteKnown
<1> QED BY <1>1, <1>5, <1>6, <1>7, <1>8 DEF NodeInv

(* A packet gives free ids to the node it came from and makes all of them known. *)
LEMMA NodePostInv ==
    ASSUME NodeInv, NEW n \in Nodes, NEW ids \in SUBSET NodeIds, Post(n, ids) PROVE NodeInv'
<1> USE DEF Post, Assign
<1>1. NodeTypeOK'
  BY DEF NodeInv, NodeTypeOK
<1>2. \A m : Owed(m)' = Owed(m)
  BY DEF HeldBy, Owed
<1>3. refs[n] > 0 /\ n \notin freed
  BY HeldCount DEF NodeInv, NodeTypeOK, Owed
<1>4. RefsAccounted' /\ \A m \in Nodes : m \in freed' \/ refs'[m] >= Owed(m)'
  BY <1>2 DEF NodeInv, RefsAccounted
<1>5. NoFreedNode' /\ LiveRouteKnown' /\ up' \cap freed' = {}
  BY <1>3, NodeAssumption DEF NodeInv, NodeTypeOK, NoFreedNode, LiveRouteKnown
<1>6. \A i \in NodeIds : table'[i] # NoNode => refs'[table'[i]] > 0
  BY <1>3 DEF NodeInv, NodeTypeOK
<1> QED BY <1>1, <1>4, <1>5, <1>6 DEF NodeInv

(* A lookup takes a reference of a node that is in the table. *)
LEMMA NodeLookupInv ==
    ASSUME NodeInv, NEW u \in Holders, NEW i \in NodeIds, LookupNode(u, i) PROVE NodeInv'
<1> USE DEF LookupNode
<1>1. PICK n \in Nodes : table[i] = n /\ n \notin freed
  BY DEF NodeInv, NodeTypeOK, NoFreedNode
<1>2. NodeTypeOK'
  BY <1>1 DEF NodeInv, NodeTypeOK
<1>3. u \notin HeldBy(n) /\ HeldBy(n)' = HeldBy(n) \cup {u} /\ \A m \in Nodes : m # n => HeldBy(m)' = HeldBy(m)
  BY <1>1, NodeAssumption DEF NodeInv, NodeTypeOK, HeldBy
<1>4. Owed(n)' = Owed(n) + 1 /\ \A m \in Nodes : m # n => Owed(m)' = Owed(m)
  BY <1>3, HeldCount DEF Owed
<1>5. \A m \in Nodes : Owed(m) \in Nat
  BY HeldCount DEF Owed
<1>6. RefsAccounted'
  BY <1>1, <1>4, <1>5 DEF NodeInv, NodeTypeOK, RefsAccounted
<1>7. \A m \in Nodes : m \in freed' \/ refs'[m] >= Owed(m)'
  BY <1>1, <1>4, <1>5 DEF NodeInv, NodeTypeOK
<1>8. NoFreedNode' /\ LiveRouteKnown' /\ up' \cap freed' = {}
  BY <1>1 DEF NodeInv, NodeTypeOK, NoFreedNode, LiveRouteKnown
<1>9. \A j \in NodeIds : table'[j] # NoNode => refs'[table'[j]] > 0
  BY <1>1 DEF NodeInv, NodeTypeOK
<1> QED BY <1>2, <1>6, <1>7, <1>8, <1>9 DEF NodeInv

(* Dropping a reference that was owed frees the node exactly when none is left. *)
LEMMA NodePutInv ==
    ASSUME NodeInv, NEW n \in Nodes, n \notin freed, Put(n), UNCHANGED noMemory,
           up' \subseteq up, known' \subseteq NodeIds,
           held' \in [Holders -> Nodes \cup {NoNode}],
           \A u \in Holders : held'[u] # NoNode => held'[u] = held[u],
           Owed(n)' = Owed(n) - 1, Owed(n) > 0, 
           \A m \in Nodes : m # n => Owed(m)' = Owed(m),
           \A i \in NodeIds : table[i] \in up' => i \in known'
    PROVE  NodeInv'
<1>0. \A m \in Nodes : Owed(m) \in Nat /\ (Owed(m) = 0 => HeldBy(m) = {} /\ m \notin up)
  BY HeldCount DEF Owed
<1>1. refs[n] \in Nat /\ refs[n] > 0 /\ refs[n] >= Owed(n)
  BY <1>0 DEF NodeInv, NodeTypeOK
<1>2. refs' = [refs EXCEPT ![n] = @ - 1] /\ refs'[n] = refs[n] - 1 /\ refs' \in [Nodes -> Nat]
  BY <1>1 DEF NodeInv, NodeTypeOK, Put
<1>3. RefsAccounted'
  BY <1>0, <1>1, <1>2 DEF NodeInv, NodeTypeOK, RefsAccounted, Put, ReleaseNode
<1>4. \A m \in Nodes : m \in freed' \/ refs'[m] >= Owed(m)'
  BY <1>0, <1>1, <1>2 DEF NodeInv, NodeTypeOK, Put, ReleaseNode
<1>5. CASE refs[n] = 1
  <2>1. freed' = freed \cup {n} /\ table' = [i \in NodeIds |-> IF table[i] = n THEN NoNode ELSE table[i]]
    BY <1>5 DEF Put, ReleaseNode
  <2>2. HeldBy(n)' = {} /\ n \notin up'
    <3>1. Owed(n)' = 0
      BY <1>0, <1>1, <1>5
    <3>2. IsFiniteSet(HeldBy(n)') /\ Cardinality(HeldBy(n)') \in Nat
      <4>1. HeldBy(n)' \in SUBSET Holders
        BY DEF HeldBy
      <4> QED BY <4>1, NodeAssumption, FS_Subset, FS_CardinalityType
    <3>3. Cardinality(HeldBy(n)') = 0 /\ n \notin up'
      BY <3>1, <3>2 DEF Owed
    <3> QED BY <3>2, <3>3, FS_EmptySet
  <2>3. NodeTypeOK'
    BY <1>2, <2>1 DEF NodeInv, NodeTypeOK
  <2>4. NoFreedNode'
    BY <2>1, <2>2, NodeAssumption DEF NodeInv, NodeTypeOK, NoFreedNode, HeldBy
  <2>5. LiveRouteKnown' /\ up' \cap freed' = {}
    BY <2>1, <2>2, NodeAssumption DEF NodeInv, NodeTypeOK, LiveRouteKnown
  <2>6. \A i \in NodeIds : table'[i] # NoNode => refs'[table'[i]] > 0
    BY <1>2, <2>1 DEF NodeInv, NodeTypeOK
  <2> QED BY <1>3, <1>4, <2>3, <2>4, <2>5, <2>6 DEF NodeInv
<1>6. CASE refs[n] # 1
  <2>1. UNCHANGED <<freed, table>>
    BY <1>6 DEF Put
  <2>2. NodeTypeOK'
    BY <1>2, <2>1 DEF NodeInv, NodeTypeOK
  <2>3. NoFreedNode' /\ LiveRouteKnown' /\ up' \cap freed' = {}
    BY <2>1, NodeAssumption DEF NodeInv, NodeTypeOK, NoFreedNode, LiveRouteKnown
  <2>4. \A i \in NodeIds : table'[i] # NoNode => refs'[table'[i]] > 0
    BY <1>1, <1>2, <1>6, <2>1 DEF NodeInv, NodeTypeOK
  <2> QED BY <1>3, <1>4, <2>2, <2>3, <2>4 DEF NodeInv
<1> QED BY <1>5, <1>6

(* The endpoint goes: the controller forgets the ids of the node, and the endpoint's *)
(* reference is dropped.                                                             *)
LEMMA NodeUnregisterInv == ASSUME NodeInv, NEW n \in Nodes, NodeUnregister(n) PROVE NodeInv'
<1> USE DEF NodeUnregister
<1>1. \A m : HeldBy(m)' = HeldBy(m)
  BY DEF HeldBy
<1>2. Owed(n)' = Owed(n) - 1 /\ Owed(n) > 0 /\ \A m \in Nodes : m # n => Owed(m)' = Owed(m)
  BY <1>1, HeldCount DEF Owed
<1>3. \A i \in NodeIds : table[i] \in up' => i \in known'
  BY DEF NodeInv, LiveRouteKnown, ByeFor
<1>4. n \notin freed /\ known' \subseteq NodeIds
  BY DEF NodeInv, NodeTypeOK
<1> QED BY <1>2, <1>3, <1>4, NodePutInv DEF NodeInv, NodeTypeOK

(* A user is done with its node and drops its reference. *)
LEMMA NodeSendDoneInv == ASSUME NodeInv, NEW u \in Holders, SendDone(u) PROVE NodeInv'
<1> USE DEF SendDone
<1>1. PICK n \in Nodes : held[u] = n /\ n \notin freed
  BY DEF NodeInv, NodeTypeOK, NoFreedNode
<1>2. held' \in [Holders -> Nodes \cup {NoNode}] /\ \A v \in Holders : held'[v] # NoNode => held'[v] = held[v]
  BY DEF NodeInv, NodeTypeOK
<1>3. u \in HeldBy(n) /\ HeldBy(n)' = HeldBy(n) \ {u} /\ \A m \in Nodes : m # n => HeldBy(m)' = HeldBy(m)
  BY <1>1, NodeAssumption DEF NodeInv, NodeTypeOK, HeldBy
<1>4. Owed(n)' = Owed(n) - 1 /\ \A m \in Nodes : m # n => Owed(m)' = Owed(m)
  BY <1>3, HeldCount DEF Owed
<1>5. Owed(n) > 0
  <2>1. Cardinality(HeldBy(n)) # 0 /\ Cardinality(HeldBy(n)) \in Nat
    BY <1>3, HeldCount
  <2> QED BY <2>1 DEF Owed
<1>6. known' \subseteq NodeIds /\ \A i \in NodeIds : table[i] \in up' => i \in known'
  BY DEF NodeInv, NodeTypeOK, LiveRouteKnown
<1> QED BY <1>1, <1>2, <1>4, <1>5, <1>6, NodePutInv

(* Without memory the user forgets its node and keeps the reference. *)
LEMMA NodeNoMemoryInv == ASSUME NodeInv, NEW u \in Holders, ResumeNoMemory(u) PROVE NodeInv'
<1> USE DEF ResumeNoMemory
<1>1. PICK n \in Nodes : held[u] = n
  BY DEF NodeInv, NodeTypeOK
<1>2. NodeTypeOK'
  BY DEF NodeInv, NodeTypeOK
<1>3. u \in HeldBy(n) /\ HeldBy(n)' = HeldBy(n) \ {u} /\ \A m \in Nodes : m # n => HeldBy(m)' = HeldBy(m)
  BY <1>1, NodeAssumption DEF NodeInv, NodeTypeOK, HeldBy
<1>4. Owed(n)' = Owed(n) - 1 /\ \A m \in Nodes : m # n => Owed(m)' = Owed(m)
  BY <1>3, HeldCount DEF Owed
<1>5. \A m \in Nodes : Owed(m) \in Nat
  BY HeldCount DEF Owed
<1>6. \A m \in Nodes : m \in freed' \/ refs'[m] >= Owed(m)'
  BY <1>1, <1>4, <1>5 DEF NodeInv, NodeTypeOK
<1>7. RefsAccounted' /\ LiveRouteKnown' /\ up' \cap freed' = {}
      /\ \A i \in NodeIds : table'[i] # NoNode => refs'[table'[i]] > 0
  BY DEF NodeInv, RefsAccounted, LiveRouteKnown
<1>8. NoFreedNode'
  BY NodeAssumption DEF NodeInv, NodeTypeOK, NoFreedNode
<1> QED BY <1>2, <1>6, <1>7, <1>8 DEF NodeInv

(* Every step of the node table keeps its invariant. *)
LEMMA NodeNextInv == NodeInv /\ [NodeNext]_nodeVars => NodeInv'
<1> SUFFICES ASSUME NodeInv, [NodeNext]_nodeVars PROVE NodeInv'
  OBVIOUS
<1>1. CASE UNCHANGED nodeVars
  BY <1>1 DEF nodeVars, NodeInv, NodeTypeOK, NoFreedNode, RefsAccounted, LiveRouteKnown, Owed, HeldBy
<1> QED BY <1>1, NodeRegisterInv, NodePostInv, NodeLookupInv, NodeUnregisterInv, NodeSendDoneInv,
           NodeNoMemoryInv DEF NodeNext

(* References and routes of the nodes, for any number of endpoints, ids and users. *)
THEOREM NodeIsSafe == NodeSpec => []NodeSafe
<1>1. NodeInit => NodeInv
  BY NodeInitInv
<1>2. NodeInv /\ [NodeNext]_nodeVars => NodeInv'
  BY NodeNextInv
<1>3. NodeInv => NodeSafe
  <2> SUFFICES ASSUME NodeInv, ~noMemory, NEW i \in NodeIds, table[i] \notin up \cup {NoNode}
               PROVE  \E u \in Holders : held[u] = table[i]
    BY DEF NodeSafe, StaleRouteOnlyWhileHeld
  <2>1. table[i] \in Nodes /\ table[i] \notin freed /\ refs[table[i]] > 0
    BY DEF NodeInv, NodeTypeOK, NoFreedNode
  <2>2. refs[table[i]] = Owed(table[i])
    BY <2>1 DEF NodeInv, RefsAccounted
  <2>3. HeldBy(table[i]) # {}
    BY <2>1, <2>2, FS_EmptySet DEF Owed
  <2> QED BY <2>3 DEF HeldBy
<1> QED BY <1>1, <1>2, <1>3, PTL DEF NodeSpec

-----------------------------------------------------------------------------
(* Ports and sockets (QrtrPorts). *)

(* The deliverers of a socket, before and after one of them takes or drops it. *)
LEMMA DeliverCount ==
    ASSUME NEW k
    PROVE  /\ IsFiniteSet(DeliversTo(k)) /\ Cardinality(DeliversTo(k)) \in Nat
           /\ \A u \in Deliverers : Cardinality(DeliversTo(k) \cup {u}) =
                 IF u \in DeliversTo(k) THEN Cardinality(DeliversTo(k)) ELSE Cardinality(DeliversTo(k)) + 1
           /\ \A u \in Deliverers : Cardinality(DeliversTo(k) \ {u}) =
                 IF u \in DeliversTo(k) THEN Cardinality(DeliversTo(k)) - 1 ELSE Cardinality(DeliversTo(k))
           /\ DeliversTo(k) # {} => Cardinality(DeliversTo(k)) > 0
<1>1. DeliversTo(k) \in SUBSET Deliverers
  BY DEF DeliversTo
<1>2. IsFiniteSet(DeliversTo(k))
  BY <1>1, PortAssumption, FS_Subset
<1> QED BY <1>2, FS_CardinalityType, FS_AddElement, FS_RemoveElement, FS_EmptySet

(* A socket starts unbound, with its owner's reference. *)
LEMMA PortInitInv == PortInit => PortInv
<1> SUFFICES ASSUME PortInit PROVE PortInv
  OBVIOUS
<1>1. PortTypeOK
  BY DEF PortInit, PortTypeOK
<1>2. \A k \in Socks : Cardinality(DeliversTo(k)) = 0
  <2> SUFFICES ASSUME NEW k \in Socks PROVE Cardinality(DeliversTo(k)) = 0
    OBVIOUS
  <2>1. DeliversTo(k) = {}
    BY PortAssumption DEF PortInit, DeliversTo
  <2> QED BY <2>1, FS_EmptySet
<1>3. \A k \in Socks : PortsOf(k) = {} /\ OwnRefs(k) = 1
  BY PortAssumption DEF PortInit, PortsOf, OwnRefs
<1> QED BY <1>1, <1>2, <1>3, PortAssumption DEF PortInit, PortInv

(* Binding adds one port and its reference; a first bind may make the controller. *)
LEMMA PortBindInv ==
    ASSUME PortInv, NEW k \in Socks, NEW p \in SockPorts, Bind(k, p) PROVE PortInv'
<1>1. sockPc[k] = "idle" /\ bound[k] # p /\ ports[p] = Unbound /\ ports' = [ports EXCEPT ![p] = k]
      /\ srefs' = [srefs EXCEPT ![k] = @ + 1] /\ looked' = looked
  BY DEF Bind
<1>2. \A j : DeliversTo(j)' = DeliversTo(j)
  BY <1>1 DEF DeliversTo
<1>3. CASE bound[k] = Unbound
  <2>1. bound' = [bound EXCEPT ![k] = p] /\ sockPc' = sockPc /\ reset' = reset \cup ResetPorts(k, p)
    BY <1>3 DEF Bind
  <2>2. PortTypeOK'
    BY <1>1, <2>1 DEF PortInv, PortTypeOK, ResetPorts
  <2>3. PortsOf(k)' = PortsOf(k) \cup {p} /\ OwnRefs(k)' = OwnRefs(k) + 1
        /\ \A j \in Socks \ {k} : PortsOf(j)' = PortsOf(j) /\ OwnRefs(j)' = OwnRefs(j)
    BY <1>1, <1>3, <2>1, PortAssumption DEF PortInv, PortTypeOK, PortsOf, OwnRefs
  <2>4. \A j \in Socks : sockPc'[j] \in SockPorts => bound'[j] \in SockPorts \ {sockPc'[j]}
    BY <1>1, <2>1, PortAssumption DEF PortInv, PortTypeOK
  <2>5. \A j \in Socks, q \in SockPorts : ports'[q] = j <=> q \in PortsOf(j)'
    BY <1>1, <2>3, PortAssumption DEF PortInv, PortTypeOK
  <2>6. \A j \in Socks : srefs'[j] = OwnRefs(j)' + Cardinality(DeliversTo(j)')
    BY <1>1, <1>2, <2>3, DeliverCount DEF PortInv, PortTypeOK, OwnRefs
  <2> QED BY <2>2, <2>4, <2>5, <2>6 DEF PortInv
<1>4. CASE bound[k] # Unbound
  <2>1. sockPc' = [sockPc EXCEPT ![k] = p] /\ UNCHANGED <<bound, reset>>
    BY <1>4 DEF Bind
  <2>2. PortTypeOK'
    BY <1>1, <2>1 DEF PortInv, PortTypeOK
  <2>3. PortsOf(k)' = PortsOf(k) \cup {p} /\ OwnRefs(k)' = OwnRefs(k) + 1
        /\ \A j \in Socks \ {k} : PortsOf(j)' = PortsOf(j) /\ OwnRefs(j)' = OwnRefs(j)
    BY <1>1, <1>4, <2>1, PortAssumption DEF PortInv, PortTypeOK, PortsOf, OwnRefs
  <2>4. \A j \in Socks : sockPc'[j] \in SockPorts => bound'[j] \in SockPorts \ {sockPc'[j]}
    BY <1>1, <1>4, <2>1, PortAssumption DEF PortInv, PortTypeOK
  <2>5. \A j \in Socks, q \in SockPorts : ports'[q] = j <=> q \in PortsOf(j)'
    BY <1>1, <2>3, PortAssumption DEF PortInv, PortTypeOK
  <2>6. \A j \in Socks : srefs'[j] = OwnRefs(j)' + Cardinality(DeliversTo(j)')
    BY <1>1, <1>2, <2>3, DeliverCount DEF PortInv, PortTypeOK, OwnRefs
  <2> QED BY <2>2, <2>4, <2>5, <2>6 DEF PortInv
<1> QED BY <1>3, <1>4

(* The end of a rebind takes the old port out of the table. *)
LEMMA PortReboundInv == ASSUME PortInv, NEW k \in Socks, Rebound(k) PROVE PortInv'
<1> USE DEF Rebound
<1>1. \A j : DeliversTo(j)' = DeliversTo(j)
  BY DEF DeliversTo
<1>2. bound[k] \in SockPorts \ {sockPc[k]} /\ sockPc[k] \in SockPorts
  BY DEF PortInv
<1>3. PortsOf(k) = {bound[k], sockPc[k]} /\ PortsOf(k)' = {sockPc[k]} /\ OwnRefs(k) = 3 /\ OwnRefs(k)' = 2
      /\ \A j \in Socks \ {k} : PortsOf(j)' = PortsOf(j) /\ OwnRefs(j)' = OwnRefs(j)
  BY <1>2, PortAssumption DEF PortInv, PortTypeOK, PortsOf, OwnRefs
<1>4. srefs[k] \in Nat /\ srefs[k] >= 3
  BY <1>3, DeliverCount DEF PortInv, PortTypeOK
<1>5. PortTypeOK'
  BY <1>2, <1>4 DEF PortInv, PortTypeOK, ResetPorts
<1>6. \A j \in Socks : sockPc'[j] \in SockPorts => bound'[j] \in SockPorts \ {sockPc'[j]}
  BY PortAssumption DEF PortInv, PortTypeOK
<1>7. \A j \in Socks, q \in SockPorts : ports'[q] = j <=> q \in PortsOf(j)'
  BY <1>2, <1>3, PortAssumption DEF PortInv, PortTypeOK
<1>8. \A j \in Socks : srefs'[j] = OwnRefs(j)' + Cardinality(DeliversTo(j)')
  BY <1>1, <1>3, <1>4, DeliverCount DEF PortInv, PortTypeOK
<1> QED BY <1>5, <1>6, <1>7, <1>8 DEF PortInv

(* A release drops the port's reference, then the port, then the owner's reference. *)
LEMMA PortReleaseInv ==
    ASSUME PortInv, NEW k \in Socks, ReleaseBegin(k) \/ ReleaseErase(k) \/ ReleasePut(k) PROVE PortInv'
<1>0. \A j : DeliversTo(j)' = DeliversTo(j)
  BY DEF DeliversTo, ReleaseBegin, ReleaseErase, ReleasePut
<1>1. CASE ReleaseBegin(k)
  <2> USE <1>1 DEF ReleaseBegin
  <2>1. PortsOf(k)' = PortsOf(k) /\ OwnRefs(k) = (IF bound[k] = Unbound THEN 1 ELSE 2) /\ OwnRefs(k)' = 1
        /\ \A j \in Socks \ {k} : PortsOf(j)' = PortsOf(j) /\ OwnRefs(j)' = OwnRefs(j)
    BY PortAssumption DEF PortInv, PortTypeOK, PortsOf, OwnRefs
  <2>2. PortTypeOK'
    BY <2>1, DeliverCount DEF PortInv, PortTypeOK
  <2>3. \A j \in Socks : sockPc'[j] \in SockPorts => bound'[j] \in SockPorts \ {sockPc'[j]}
    BY PortAssumption DEF PortInv, PortTypeOK
  <2>4. \A j \in Socks, q \in SockPorts : ports'[q] = j <=> q \in PortsOf(j)'
    BY <2>1 DEF PortInv
  <2>5. \A j \in Socks : srefs'[j] = OwnRefs(j)' + Cardinality(DeliversTo(j)')
    BY <1>0, <2>1, DeliverCount DEF PortInv, PortTypeOK
  <2> QED BY <2>2, <2>3, <2>4, <2>5 DEF PortInv
<1>2. CASE ReleaseErase(k)
  <2> USE <1>2 DEF ReleaseErase
  <2>1. PortsOf(k)' = {} /\ OwnRefs(k)' = OwnRefs(k)
        /\ \A j \in Socks \ {k} : PortsOf(j)' = PortsOf(j) /\ OwnRefs(j)' = OwnRefs(j)
    BY PortAssumption DEF PortInv, PortTypeOK, PortsOf, OwnRefs
  <2>2. PortTypeOK'
    BY DEF PortInv, PortTypeOK
  <2>3. \A j \in Socks : sockPc'[j] \in SockPorts => bound'[j] \in SockPorts \ {sockPc'[j]}
    BY PortAssumption DEF PortInv, PortTypeOK
  <2>4. \A j \in Socks, q \in SockPorts : ports'[q] = j <=> q \in PortsOf(j)'
    BY <2>1, PortAssumption DEF PortInv, PortTypeOK
  <2>5. \A j \in Socks : srefs'[j] = OwnRefs(j)' + Cardinality(DeliversTo(j)')
    BY <1>0, <2>1 DEF PortInv
  <2> QED BY <2>2, <2>3, <2>4, <2>5 DEF PortInv
<1>3. CASE ReleasePut(k)
  <2> USE <1>3 DEF ReleasePut
  <2>1. PortsOf(k) = {} /\ PortsOf(k)' = {} /\ OwnRefs(k) = 1 /\ OwnRefs(k)' = 0
        /\ \A j \in Socks \ {k} : PortsOf(j)' = PortsOf(j) /\ OwnRefs(j)' = OwnRefs(j)
    BY PortAssumption DEF PortInv, PortTypeOK, PortsOf, OwnRefs
  <2>2. PortTypeOK'
    BY <2>1, DeliverCount DEF PortInv, PortTypeOK
  <2>3. \A j \in Socks : sockPc'[j] \in SockPorts => bound'[j] \in SockPorts \ {sockPc'[j]}
    BY PortAssumption DEF PortInv, PortTypeOK
  <2>4. \A j \in Socks, q \in SockPorts : ports'[q] = j <=> q \in PortsOf(j)'
    BY <2>1 DEF PortInv
  <2>5. \A j \in Socks : srefs'[j] = OwnRefs(j)' + Cardinality(DeliversTo(j)')
    BY <1>0, <2>1, DeliverCount DEF PortInv, PortTypeOK
  <2> QED BY <2>2, <2>3, <2>4, <2>5 DEF PortInv
<1> QED BY <1>1, <1>2, <1>3

(* A delivery holds a reference of its own. *)
LEMMA PortDeliverInv ==
    ASSUME PortInv, NEW u \in Deliverers, (\E p \in SockPorts : LookupPort(u, p)) \/ PutPort(u) PROVE PortInv'
<1>0. UNCHANGED <<ports, bound, sockPc, reset>>
  BY DEF LookupPort, PutPort
<1>1. \A j : PortsOf(j)' = PortsOf(j) /\ OwnRefs(j)' = OwnRefs(j)
  BY <1>0 DEF PortsOf, OwnRefs
<1>2. \A j \in Socks : OwnRefs(j) \in Nat
  BY DEF OwnRefs
<1>3. CASE \E p \in SockPorts : LookupPort(u, p)
  <2>1. PICK k \in Socks : looked[u] = Unbound /\ looked' = [looked EXCEPT ![u] = k]
                        /\ srefs' = [srefs EXCEPT ![k] = @ + 1]
    <3>1. PICK p \in SockPorts : LookupPort(u, p)
      BY <1>3
    <3>2. ports[p] \in Socks
      BY <3>1 DEF LookupPort, PortInv, PortTypeOK
    <3> QED BY <3>1, <3>2 DEF LookupPort
  <2>2. u \notin DeliversTo(k) /\ DeliversTo(k)' = DeliversTo(k) \cup {u}
        /\ \A j \in Socks \ {k} : DeliversTo(j)' = DeliversTo(j)
    BY <2>1, PortAssumption DEF PortInv, PortTypeOK, DeliversTo
  <2>3. PortTypeOK'
    BY <1>0, <2>1 DEF PortInv, PortTypeOK
  <2>4. \A j \in Socks : srefs'[j] = OwnRefs(j)' + Cardinality(DeliversTo(j)')
    BY <1>1, <1>2, <2>1, <2>2, DeliverCount DEF PortInv, PortTypeOK
  <2> QED BY <1>0, <1>1, <2>3, <2>4 DEF PortInv
<1>4. CASE PutPort(u)
  <2>1. PICK k \in Socks : looked[u] = k /\ looked' = [looked EXCEPT ![u] = Unbound]
                        /\ srefs' = [srefs EXCEPT ![k] = @ - 1]
    BY <1>4 DEF PutPort, PortInv, PortTypeOK
  <2>2. u \in DeliversTo(k) /\ DeliversTo(k)' = DeliversTo(k) \ {u}
        /\ \A j \in Socks \ {k} : DeliversTo(j)' = DeliversTo(j)
    BY <2>1, PortAssumption DEF PortInv, PortTypeOK, DeliversTo
  <2>3. srefs[k] > 0 /\ srefs[k] \in Nat
    BY <1>2, <2>2, DeliverCount DEF PortInv, PortTypeOK
  <2>4. PortTypeOK'
    BY <1>0, <2>1, <2>3 DEF PortInv, PortTypeOK
  <2>5. \A j \in Socks : srefs'[j] = OwnRefs(j)' + Cardinality(DeliversTo(j)')
    BY <1>1, <1>2, <2>1, <2>2, DeliverCount DEF PortInv, PortTypeOK
  <2> QED BY <1>0, <1>1, <2>4, <2>5 DEF PortInv
<1> QED BY <1>3, <1>4

(* Every step of the port table keeps its invariant. *)
LEMMA PortNextInv == PortInv /\ [PortNext]_portVars => PortInv'
<1> SUFFICES ASSUME PortInv, [PortNext]_portVars PROVE PortInv'
  OBVIOUS
<1>1. CASE UNCHANGED portVars \/ \E k \in Socks : ReadError(k)
  BY <1>1 DEF portVars, ReadError, PortInv, PortTypeOK, PortsOf, OwnRefs, DeliversTo
<1> QED BY <1>1, PortBindInv, PortReboundInv, PortReleaseInv, PortDeliverInv DEF PortNext

(* The ports lead to live sockets, for any number of sockets, ports and deliverers. *)
THEOREM PortIsSafe == PortSpec => []PortSafe
<1>1. PortInit => PortInv
  BY PortInitInv
<1>2. PortInv /\ [PortNext]_portVars => PortInv'
  BY PortNextInv
<1>3. PortInv => PortSafe
  <2> SUFFICES ASSUME PortInv PROVE NoFreedSocket
    BY DEF PortSafe
  <2>1. ASSUME NEW u \in Deliverers, looked[u] # Unbound PROVE srefs[looked[u]] > 0
    <3>1. looked[u] \in Socks /\ DeliversTo(looked[u]) # {}
      BY <2>1 DEF PortInv, PortTypeOK, DeliversTo
    <3>2. OwnRefs(looked[u]) \in Nat
      BY DEF OwnRefs
    <3> QED BY <3>1, <3>2, DeliverCount DEF PortInv
  <2>2. ASSUME NEW p \in SockPorts, ports[p] # Unbound PROVE srefs[ports[p]] > 0
    <3>1. ports[p] \in Socks /\ p \in PortsOf(ports[p])
      BY <2>2 DEF PortInv, PortTypeOK
    <3>2. OwnRefs(ports[p]) \in Nat \ {0}
      BY <3>1, PortAssumption DEF OwnRefs, PortsOf
    <3> QED BY <3>1, <3>2, DeliverCount DEF PortInv
  <2> QED BY <2>1, <2>2 DEF NoFreedSocket
<1> QED BY <1>1, <1>2, <1>3, PTL DEF PortSpec

(* A socket that becomes the controller has marked every other bound socket. *)
THEOREM PortAnnounces == PortSpec => ControllerAnnounced
<1> DEFINE Told == \A k \in Socks : (ports'[Ctrl] = k /\ bound'[k] = Ctrl /\ bound[k] # Ctrl)
                      => \A j \in Socks \ {k} : (\E p \in SockPorts \ {Ctrl} : ports[p] = j) => j \in reset'
<1>1. PortInv /\ [PortNext]_portVars => [Told]_portVars
  <2> SUFFICES ASSUME PortInv, PortNext, NEW k \in Socks, bound'[k] = Ctrl, bound[k] # Ctrl,
                      NEW j \in Socks \ {k}, NEW p \in SockPorts \ {Ctrl}, ports[p] = j
               PROVE  j \in reset'
    OBVIOUS
  <2>1. CASE \E q \in SockPorts : Bind(k, q)
    BY <2>1, PortAssumption DEF Bind, ResetPorts, PortInv, PortTypeOK
  <2>2. CASE Rebound(k)
    BY <2>2, PortAssumption DEF Rebound, ResetPorts, PortInv, PortTypeOK
  <2>3. ASSUME ~Rebound(k), ~\E q \in SockPorts : Bind(k, q) PROVE bound'[k] = bound[k] \/ bound'[k] = Unbound
    BY <2>3 DEF PortNext, Bind, ReadError, Rebound, ReleaseBegin, ReleaseErase, ReleasePut, LookupPort, PutPort,
                PortInv, PortTypeOK
  <2> QED BY <2>1, <2>2, <2>3, PortAssumption
<1>2. PortSpec => []PortInv
  BY PortInitInv, PortNextInv, PTL DEF PortSpec
<1> QED BY <1>1, <1>2, PTL DEF PortSpec, ControllerAnnounced
=============================================================================
