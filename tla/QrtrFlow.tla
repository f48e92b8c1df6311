------------------------------ MODULE QrtrFlow -----------------------------
(***************************************************************************)
(* The transmit flow control of tcl-af-qrtr.c towards one remote port:     *)
(* senders that count unconfirmed messages and ask for a confirmation at   *)
(* the low watermark, the wait at the high one, the RESUME_TX that resets  *)
(* the count, lost messages, and the endpoint going away.                  *)
(***************************************************************************)
EXTENDS Naturals, Sequences, FiniteSets

CONSTANTS
    Senders,      \* threads in qrtr_node_enqueue()
    High, Low,    \* QRTR_TX_FLOW_HIGH, QRTR_TX_FLOW_LOW
    ResumeMax     \* bound: RESUME_TX packets under way when the remote reads

ASSUME FlowAssumption ==
    /\ Low \in Nat \ {0} /\ High \in Nat /\ Low <= High
    /\ ResumeMax \in Nat \ {0}
    /\ IsFiniteSet(Senders) /\ Senders # {}

VARIABLES
    lossy,     \* may the endpoint driver refuse a message; chosen once
    pc,        \* where each sender is
    confirm,   \* the confirm_rx each sender carries
    woken,     \* senders a wake-up has reached
    pending,   \* flow->pending
    txFailed,  \* flow->tx_failed
    ep,        \* node->ep is set
    gone,      \* unregistering: "no", "cleared", "woken"
    pipe,      \* data messages on their way, TRUE for those with confirm_rx
    resumes    \* RESUME_TX packets on their way back

flowVars == <<lossy, pc, confirm, woken, pending, txFailed, ep, gone, pipe, resumes>>

FlowInit ==
    /\ lossy \in BOOLEAN
    /\ pc = [s \in Senders |-> "idle"] /\ confirm = [s \in Senders |-> FALSE]
    /\ woken = {} /\ pending = 0 /\ txFailed = FALSE
    /\ ep = TRUE /\ gone = "no" /\ pipe = <<>> /\ resumes = 0

Asleep == {s \in Senders : pc[s] = "asleep"}

-----------------------------------------------------------------------------
\* qrtr_node_enqueue(): a DATA message finds its flow.
Begin(s) ==
    /\ pc[s] = "idle"
    /\ pc' = [pc EXCEPT ![s] = "wait"]
    /\ UNCHANGED <<lossy, confirm, woken, pending, txFailed, ep, gone, pipe, resumes>>

\* Mutant: off by one at the high watermark.
MayPassOne == pending <= High \/ txFailed \/ ~ep

\* The condition of wait_event_interruptible_locked_irq().
MayPass == pending < High \/ txFailed \/ ~ep

Sleep(s) ==
    /\ pc[s] = "wait" /\ ~MayPass
    /\ pc' = [pc EXCEPT ![s] = "asleep"]
    /\ UNCHANGED <<lossy, confirm, woken, pending, txFailed, ep, gone, pipe, resumes>>

\* A wake-up, or a signal, which ends the call.
Wake(s) ==
    /\ pc[s] = "asleep" /\ s \in woken
    /\ pc' = [pc EXCEPT ![s] = "wait"] /\ woken' = woken \ {s}
    /\ UNCHANGED <<lossy, confirm, pending, txFailed, ep, gone, pipe, resumes>>

Interrupt(s) ==
    /\ pc[s] = "asleep"
    /\ pc' = [pc EXCEPT ![s] = "idle"] /\ woken' = woken \ {s}
    /\ UNCHANGED <<lossy, confirm, pending, txFailed, ep, gone, pipe, resumes>>

\* qrtr_tx_wait(): the result of the wait.
Broken(s) ==
    /\ pc[s] = "wait" /\ ~ep
    /\ pc' = [pc EXCEPT ![s] = "idle"]
    /\ UNCHANGED <<lossy, confirm, woken, pending, txFailed, ep, gone, pipe, resumes>>

PassFailed(s) ==
    /\ pc[s] = "wait" /\ ep /\ txFailed
    /\ txFailed' = FALSE
    /\ confirm' = [confirm EXCEPT ![s] = TRUE]
    /\ pc' = [pc EXCEPT ![s] = "xmit"]
    /\ UNCHANGED <<lossy, woken, pending, ep, gone, pipe, resumes>>

\* Mutant: the message that reaches the high watermark is not counted.
PassUncounted(s) ==
    /\ pc[s] = "wait" /\ MayPass /\ ep /\ ~txFailed
    /\ pending' = IF pending + 1 = High THEN pending ELSE pending + 1
    /\ confirm' = [confirm EXCEPT ![s] = pending + 1 = Low]
    /\ pc' = [pc EXCEPT ![s] = "xmit"]
    /\ UNCHANGED <<lossy, woken, txFailed, ep, gone, pipe, resumes>>

Pass(s) ==
    /\ pc[s] = "wait" /\ MayPass /\ ep /\ ~txFailed
    /\ pending' = pending + 1
    /\ confirm' = [confirm EXCEPT ![s] = pending + 1 = Low]
    /\ pc' = [pc EXCEPT ![s] = "xmit"]
    /\ UNCHANGED <<lossy, woken, txFailed, ep, gone, pipe, resumes>>

\* The message goes to the endpoint under ep_lock, or is lost: refused by the
\* driver, or with no endpoint left. A lost confirm_rx is noted afterwards.
Xmit(s) ==
    /\ pc[s] = "xmit" /\ ep
    /\ pipe' = Append(pipe, confirm[s])
    /\ pc' = [pc EXCEPT ![s] = "idle"] /\ confirm' = [confirm EXCEPT ![s] = FALSE]
    /\ UNCHANGED <<lossy, woken, pending, txFailed, ep, gone, resumes>>

XmitLost(s) ==
    /\ pc[s] = "xmit" /\ (lossy \/ ~ep)
    /\ pc' = [pc EXCEPT ![s] = IF confirm[s] THEN "failed" ELSE "idle"]
    /\ UNCHANGED <<lossy, confirm, woken, pending, txFailed, ep, gone, pipe, resumes>>

\* Mutant: the lost confirm_rx is forgotten.
FlowForgotten(s) ==
    /\ pc[s] = "failed"
    /\ pc' = [pc EXCEPT ![s] = "idle"] /\ confirm' = [confirm EXCEPT ![s] = FALSE]
    /\ UNCHANGED <<lossy, woken, pending, txFailed, ep, gone, pipe, resumes>>

\* qrtr_tx_flow_failed().
FlowFailed(s) ==
    /\ pc[s] = "failed"
    /\ txFailed' = TRUE
    /\ pc' = [pc EXCEPT ![s] = "idle"] /\ confirm' = [confirm EXCEPT ![s] = FALSE]
    /\ UNCHANGED <<lossy, woken, pending, ep, gone, pipe, resumes>>

-----------------------------------------------------------------------------
\* The remote socket is read: qrtr_recvmsg() and qrtr_send_resume_tx() there.
RemoteReads ==
    /\ pipe # <<>> /\ (Head(pipe) => resumes < ResumeMax)
    /\ pipe' = Tail(pipe)
    /\ resumes' = IF Head(pipe) THEN resumes + 1 ELSE resumes
    /\ UNCHANGED <<lossy, pc, confirm, woken, pending, txFailed, ep, gone>>

\* Mutant: a resume wakes nobody.
WakesNone == {}

\* Whom a resume wakes.
Wakes == Asleep

\* qrtr_tx_resume(), called by qrtr_endpoint_post().
Resume ==
    /\ resumes > 0 /\ ep
    /\ resumes' = resumes - 1
    /\ pending' = 0
    /\ woken' = woken \cup Wakes
    /\ UNCHANGED <<lossy, pc, confirm, txFailed, ep, gone, pipe>>

\* Mutant: nobody is woken when the endpoint has gone.
WakeNobody ==
    /\ gone = "cleared" /\ gone' = "woken"
    /\ UNCHANGED <<lossy, pc, confirm, woken, pending, txFailed, ep, pipe, resumes>>

\* qrtr_endpoint_unregister(): the endpoint is cleared, then waiters are woken.
EpUnregister ==
    /\ gone = "no"
    /\ ep' = FALSE /\ gone' = "cleared"
    /\ UNCHANGED <<lossy, pc, confirm, woken, pending, txFailed, pipe, resumes>>

WakeAll ==
    /\ gone = "cleared" /\ gone' = "woken"
    /\ woken' = woken \cup Asleep
    /\ UNCHANGED <<lossy, pc, confirm, pending, txFailed, ep, pipe, resumes>>

SenderStep(s) ==
    \/ Begin(s) \/ Sleep(s) \/ Wake(s) \/ Interrupt(s) \/ Broken(s)
    \/ PassFailed(s) \/ Pass(s) \/ Xmit(s) \/ XmitLost(s) \/ FlowFailed(s)

FlowNext == (\E s \in Senders : SenderStep(s)) \/ RemoteReads \/ Resume \/ EpUnregister \/ WakeAll

\* A call that has begun goes on when it can, the endpoint does not refuse a sender
\* for ever, the remote reads its socket, its confirmations arrive, and an
\* unregistration completes.
Proceeds(s) == Sleep(s) \/ Wake(s) \/ Broken(s) \/ PassFailed(s) \/ Pass(s) \/ Xmit(s) \/ FlowFailed(s)

FlowSpec == FlowInit /\ [][FlowNext]_flowVars

FlowFair == /\ \A s \in Senders : WF_flowVars(Proceeds(s)) /\ SF_flowVars(Xmit(s))
            /\ WF_flowVars(RemoteReads) /\ WF_flowVars(Resume) /\ WF_flowVars(WakeAll)

FlowLiveSpec == FlowSpec /\ FlowFair

-----------------------------------------------------------------------------
FlowTypeOK ==
    /\ pc \in [Senders -> {"idle", "wait", "asleep", "xmit", "failed"}]
    /\ confirm \in [Senders -> BOOLEAN]
    /\ woken \subseteq Senders /\ pending \in 0 .. High /\ txFailed \in BOOLEAN
    /\ ep \in BOOLEAN /\ gone \in {"no", "cleared", "woken"}
    /\ pipe \in Seq(BOOLEAN) /\ resumes \in Nat

Carrying == \E s \in Senders : confirm[s] /\ pc[s] \in {"xmit", "failed"}
Asked == \E i \in DOMAIN pipe : pipe[i]

\* Past the low watermark a confirmation is always somewhere: asked for by a message
\* under way, on its way back, carried by a sender, or owed by the next one.
ConfirmationOwed ==
    pending >= Low => Carrying \/ Asked \/ resumes > 0 \/ txFailed

\* The messages the remote has not read stay within a window, although a resume
\* resets the count for messages that are still under way and senders may be late.
WindowBounded == Len(pipe) <= 2 * High - Low + Cardinality(Senders) - 1

\* A sender is never asleep without a wake-up once the endpoint has gone.
NoSleepAfterUnregister ==
    gone = "woken" => \A s \in Asleep : s \in woken

\* While the endpoint takes every message, a sender held back at the high watermark
\* is let go in the end. With a lossy one it may not be: qrtr_tx_flow_failed() says
\* "Work around this by marking the flow as having a failed transmission", but wakes
\* nobody who is asleep already.
SendersReleased ==
    \A s \in Senders : pc[s] = "asleep" /\ ~lossy ~> pc[s] # "asleep"

\* At most one confirmation is under way at a time, in one of four places, and none
\* below the low watermark: a lost one is handed on, never doubled.
OneConfirmation ==
    /\ \A s \in Senders : confirm[s] => pc[s] \in {"xmit", "failed"}
    /\ \A s \in Senders : pc[s] = "failed" => confirm[s]
    /\ \A s, t \in Senders : confirm[s] /\ confirm[t] => s = t
    /\ \A i, j \in DOMAIN pipe : pipe[i] /\ pipe[j] => i = j
    /\ resumes <= 1
    /\ Carrying => ~Asked /\ resumes = 0 /\ ~txFailed
    /\ Asked => resumes = 0 /\ ~txFailed
    /\ resumes > 0 => ~txFailed
    /\ pending < Low => ~Carrying /\ ~Asked /\ resumes = 0 /\ ~txFailed

\* Senders between qrtr_tx_wait() and the end of the call.
Sending == {s \in Senders : pc[s] \in {"xmit", "failed"}}

\* What may still come behind a confirmation, and what may be under way in all.
WindowKept ==
    /\ \A i \in DOMAIN pipe : pipe[i] =>
          Len(pipe) + Cardinality(Sending) - i <= Cardinality(Senders) - 1 + pending - Low
    /\ resumes > 0 => Len(pipe) + Cardinality(Sending) <= Cardinality(Senders) - 1 + pending - Low
    /\ Len(pipe) + Cardinality(Sending) + (IF txFailed THEN 1 ELSE 0)
          <= Cardinality(Senders) - 1 + High - Low + pending

\* The inductive invariant of the flow.
FlowInv ==
    /\ FlowTypeOK /\ ConfirmationOwed /\ OneConfirmation /\ WindowKept
    /\ ep <=> gone = "no"
    /\ NoSleepAfterUnregister

\* The flow control as a whole: a confirmation, and only one, is owed past the low
\* watermark, the remote is never sent more than a window, and no sender sleeps
\* through the end of the endpoint.
FlowSafe ==
    /\ FlowInv /\ WindowBounded
=============================================================================
