-------------------------- MODULE RemoteprocProofs ---------------------------
(****************************************************************************)
(* Removal of a remote processor, for any number of users, any number of    *)
(* references and any number of crash reports.                              *)
(****************************************************************************)
EXTENDS Remoteproc, TLAPS

(* The invariant that removal's properties follow from. *)
FullInv == RprocInv /\ RemovalInv

(* The worker is a thread, and nobody is not. *)
LEMMA ThreadFacts == Worker \in Threads /\ NoThread \notin Threads /\ Users \subseteq Threads
  BY UsersAssumption DEF Threads, Worker, NoThread

(* The processor starts off, unlocked, with no crash work and no removal. *)
LEMMA RprocInitInv == RprocInit => FullInv
<1> SUFFICES ASSUME RprocInit PROVE FullInv
  OBVIOUS
<1> USE ThreadFacts DEF RprocInit
<1>1. CountsOK
  BY MaxPowerAssumption, MaxReportsAssumption DEF CountsOK
<1>2. ProcTypeOK /\ ThreadTypeOK
  BY DEF ProcTypeOK, ThreadTypeOK
<1>3. CrashTypeOK /\ DelTypeOK
  BY DEF CrashTypeOK, DelTypeOK
<1>4. LockInv /\ ProcInv
  BY DEF LockInv, ProcInv, Stoppable
<1>5. RemovalInv
  BY DEF RemovalInv
<1> QED BY <1>1, <1>2, <1>3, <1>4, <1>5 DEF FullInv, RprocInv, RprocTypeOK

(* A crash report, and the work item that handles it. *)
LEMMA CrashInv ==
  ASSUME FullInv,
         ReportCrash \/ WorkStarts \/ CrashHandler \/ CrashHandlerRelax
  PROVE  FullInv'
<1> USE ThreadFacts DEF Move
<1>0. CountsOK /\ ProcTypeOK /\ ThreadTypeOK /\ CrashTypeOK /\ DelTypeOK /\ LockInv /\ ProcInv /\ RemovalInv
  BY DEF FullInv, RprocInv, RprocTypeOK
<1> USE <1>0
<1>1. CASE ReportCrash
  <2> USE <1>1 DEF ReportCrash, procVars, delVars
  <2>1. CountsOK'
    BY MaxReportsAssumption DEF CountsOK
  <2>2. ProcTypeOK'
    BY DEF ProcTypeOK
  <2>3. ThreadTypeOK'
    BY DEF ThreadTypeOK
  <2>4. CrashTypeOK'
    BY DEF CrashTypeOK
  <2>5. DelTypeOK'
    BY DEF DelTypeOK
  <2>6. LockInv'
    BY DEF LockInv, ThreadTypeOK
  <2>7. ProcInv'
    BY DEF ProcInv, LockInv, Stoppable
  <2>8. RemovalInv'
    BY DEF RemovalInv, LockInv, ProcInv, ThreadTypeOK
  <2> QED BY <2>1, <2>2, <2>3, <2>4, <2>5, <2>6, <2>7, <2>8 DEF FullInv, RprocInv, RprocTypeOK
<1>2. CASE WorkStarts
  <2> USE <1>2 DEF WorkStarts, procVars, delVars
  <2>1. CountsOK'
    BY DEF CountsOK
  <2>2. ProcTypeOK'
    BY DEF ProcTypeOK
  <2>3. ThreadTypeOK'
    BY DEF ThreadTypeOK
  <2>4. CrashTypeOK'
    BY DEF CrashTypeOK
  <2>5. DelTypeOK'
    BY DEF DelTypeOK
  <2>6. LockInv'
    BY DEF LockInv, ThreadTypeOK
  <2>7. ProcInv'
    BY DEF ProcInv, LockInv, Stoppable
  <2>8. RemovalInv'
    BY DEF RemovalInv, LockInv, ProcInv, ThreadTypeOK
  <2> QED BY <2>1, <2>2, <2>3, <2>4, <2>5, <2>6, <2>7, <2>8 DEF FullInv, RprocInv, RprocTypeOK
<1>3. CASE CrashHandler
  <2> USE <1>3 DEF CrashHandler, delVars
  <2>1. CountsOK'
    BY DEF CountsOK
  <2>2. ProcTypeOK'
    BY DEF ProcTypeOK
  <2>3. ThreadTypeOK'
    BY DEF ThreadTypeOK
  <2>4. CrashTypeOK'
    BY DEF CrashTypeOK
  <2>5. DelTypeOK'
    BY DEF DelTypeOK
  <2>6. LockInv'
    BY DEF LockInv, ThreadTypeOK
  <2>7. ProcInv'
    BY DEF ProcInv, ProcTypeOK, RemovalInv, Stoppable
  <2>8. RemovalInv'
    BY DEF RemovalInv, LockInv, ProcInv, ThreadTypeOK
  <2> QED BY <2>1, <2>2, <2>3, <2>4, <2>5, <2>6, <2>7, <2>8 DEF FullInv, RprocInv, RprocTypeOK
<1>4. CASE CrashHandlerRelax
  <2> USE <1>4 DEF CrashHandlerRelax, procVars, delVars
  <2>1. CountsOK'
    BY DEF CountsOK
  <2>2. ProcTypeOK'
    BY DEF ProcTypeOK
  <2>3. ThreadTypeOK'
    BY DEF ThreadTypeOK
  <2>4. CrashTypeOK'
    BY DEF CrashTypeOK
  <2>5. DelTypeOK'
    BY DEF DelTypeOK
  <2>6. LockInv'
    BY DEF LockInv, ThreadTypeOK
  <2>7. ProcInv'
    BY DEF ProcInv, LockInv, Stoppable
  <2>8. RemovalInv'
    BY DEF RemovalInv, LockInv, ProcInv, ThreadTypeOK
  <2> QED BY <2>1, <2>2, <2>3, <2>4, <2>5, <2>6, <2>7, <2>8 DEF FullInv, RprocInv, RprocTypeOK
<1> QED BY <1>1, <1>2, <1>3, <1>4

(* Recovery, by the worker or by a user. *)
LEMMA RecoveryInv ==
  ASSUME NEW t \in Threads, FullInv,
         TriggerRecovery(t) \/ RecoveryStop(t) \/ RecoveryStart(t)
  PROVE  FullInv'
<1> USE ThreadFacts DEF Move
<1>0. CountsOK /\ ProcTypeOK /\ ThreadTypeOK /\ CrashTypeOK /\ DelTypeOK /\ LockInv /\ ProcInv /\ RemovalInv
  BY DEF FullInv, RprocInv, RprocTypeOK
<1> USE <1>0
<1>1. CASE TriggerRecovery(t)
  <2> USE <1>1 DEF TriggerRecovery, Return, procVars, crashVars, delVars
  <2>1. CountsOK'
    BY DEF CountsOK
  <2>2. ProcTypeOK'
    BY DEF ProcTypeOK
  <2>3. ThreadTypeOK'
    BY DEF ThreadTypeOK
  <2>4. CrashTypeOK'
    BY DEF CrashTypeOK
  <2>5. DelTypeOK'
    BY DEF DelTypeOK
  <2>6. LockInv'
    BY DEF LockInv, ThreadTypeOK
  <2>7. ProcInv'
    BY DEF ProcInv, LockInv, Stoppable
  <2>8. RemovalInv'
    BY DEF RemovalInv, LockInv, ProcInv, ThreadTypeOK
  <2> QED BY <2>1, <2>2, <2>3, <2>4, <2>5, <2>6, <2>7, <2>8 DEF FullInv, RprocInv, RprocTypeOK
<1>2. CASE RecoveryStop(t)
  <2> USE <1>2 DEF RecoveryStop, Return, RprocStop, StopSubdevices, crashVars, delVars
  <2>1. CountsOK'
    BY DEF CountsOK
  <2>2. ProcTypeOK'
    BY DEF ProcTypeOK
  <2>3. ThreadTypeOK'
    BY DEF ThreadTypeOK
  <2>4. CrashTypeOK'
    BY DEF CrashTypeOK
  <2>5. DelTypeOK'
    BY DEF DelTypeOK
  <2>6. LockInv'
    BY DEF LockInv, ThreadTypeOK, ProcInv, Stoppable
  <2>7. ProcInv'
    BY DEF ProcInv, LockInv, Stoppable
  <2>8. RemovalInv'
    BY DEF RemovalInv, LockInv, ProcInv, ThreadTypeOK
  <2> QED BY <2>1, <2>2, <2>3, <2>4, <2>5, <2>6, <2>7, <2>8 DEF FullInv, RprocInv, RprocTypeOK
<1>3. CASE RecoveryStart(t)
  <2> USE <1>3 DEF RecoveryStart, Return, RprocStart, crashVars, delVars
  <2>1. CountsOK'
    BY DEF CountsOK
  <2>2. ProcTypeOK'
    BY DEF ProcTypeOK
  <2>3. ThreadTypeOK'
    BY DEF ThreadTypeOK
  <2>4. CrashTypeOK'
    BY DEF CrashTypeOK
  <2>5. DelTypeOK'
    BY DEF DelTypeOK
  <2>6. LockInv'
    BY DEF LockInv, ThreadTypeOK
  <2>7. ProcInv'
    BY DEF ProcInv, LockInv, Stoppable
  <2>8. RemovalInv'
    BY DEF RemovalInv, LockInv, ProcInv, ThreadTypeOK
  <2> QED BY <2>1, <2>2, <2>3, <2>4, <2>5, <2>6, <2>7, <2>8 DEF FullInv, RprocInv, RprocTypeOK
<1> QED BY <1>1, <1>2, <1>3

(* What a user calls. *)
LEMMA UserInv ==
  ASSUME NEW u \in Users, FullInv,
         DebugfsRecover(u) \/ Boot(u) \/ BootEnds(u) \/ Shutdown(u)
  PROVE  FullInv'
<1> USE ThreadFacts DEF Move
<1>0. CountsOK /\ ProcTypeOK /\ ThreadTypeOK /\ CrashTypeOK /\ DelTypeOK /\ LockInv /\ ProcInv /\ RemovalInv
  BY DEF FullInv, RprocInv, RprocTypeOK
<1> USE <1>0
<1>w. u # Worker
  BY UsersAssumption
<1> USE <1>w
<1>1. CASE DebugfsRecover(u)
  <2> USE <1>1 DEF DebugfsRecover, procVars, crashVars, delVars
  <2>1. CountsOK'
    BY DEF CountsOK
  <2>2. ProcTypeOK'
    BY DEF ProcTypeOK
  <2>3. ThreadTypeOK'
    BY DEF ThreadTypeOK
  <2>4. CrashTypeOK'
    BY DEF CrashTypeOK
  <2>5. DelTypeOK'
    BY DEF DelTypeOK
  <2>6. LockInv'
    BY DEF LockInv, ThreadTypeOK
  <2>7. ProcInv'
    BY DEF ProcInv, LockInv, Stoppable
  <2>8. RemovalInv'
    BY DEF RemovalInv, LockInv, ProcInv, ThreadTypeOK
  <2> QED BY <2>1, <2>2, <2>3, <2>4, <2>5, <2>6, <2>7, <2>8 DEF FullInv, RprocInv, RprocTypeOK
<1>2. CASE Boot(u)
  <2> USE <1>2 DEF Boot, crashVars, delVars
  <2>p. power' # 0
    BY DEF CountsOK
  <2>1. CountsOK'
    BY MaxPowerAssumption DEF CountsOK
  <2>2. ProcTypeOK'
    BY DEF ProcTypeOK
  <2>3. ThreadTypeOK'
    BY DEF ThreadTypeOK
  <2>4. CrashTypeOK'
    BY DEF CrashTypeOK
  <2>5. DelTypeOK'
    BY DEF DelTypeOK
  <2>6. LockInv'
    BY <2>p DEF LockInv, ThreadTypeOK, ProcInv, ProcTypeOK, Stoppable
  <2>7. ProcInv'
    BY <2>p DEF ProcInv
  <2>8. RemovalInv'
    BY DEF RemovalInv, LockInv, ProcInv, ThreadTypeOK
  <2> QED BY <2>1, <2>2, <2>3, <2>4, <2>5, <2>6, <2>7, <2>8 DEF FullInv, RprocInv, RprocTypeOK
<1>3. CASE BootEnds(u)
  <2> USE <1>3 DEF BootEnds, RprocStart, procVars, crashVars, delVars
  <2>1. CountsOK'
    BY MaxPowerAssumption DEF CountsOK, LockInv
  <2>2. ProcTypeOK'
    BY DEF ProcTypeOK
  <2>3. ThreadTypeOK'
    BY DEF ThreadTypeOK
  <2>4. CrashTypeOK'
    BY DEF CrashTypeOK
  <2>5. DelTypeOK'
    BY DEF DelTypeOK
  <2>6. LockInv'
    BY DEF LockInv, ThreadTypeOK
  <2>7. ProcInv'
    BY DEF ProcInv, LockInv, Stoppable
  <2>8. RemovalInv'
    BY DEF RemovalInv, LockInv, ProcInv, ThreadTypeOK
  <2> QED BY <2>1, <2>2, <2>3, <2>4, <2>5, <2>6, <2>7, <2>8 DEF FullInv, RprocInv, RprocTypeOK
<1>4. CASE Shutdown(u)
  <2> USE <1>4 DEF Shutdown, ShutdownStop, RprocStop, StopSubdevices, crashVars, delVars
  <2>0. power \in Nat /\ power # 0 => power - 1 \in Nat /\ (power # 1 => power - 1 # 0)
    OBVIOUS
  <2>p. power \in Nat
    BY DEF CountsOK
  <2>1. CountsOK'
    <3>1. state \in Stoppable => power # 0
      BY DEF ProcInv
    <3>2. reports' = reports /\ (power' = power \/ (power' = power - 1 /\ power # 0))
      BY <3>1
    <3> QED BY <3>2, MaxPowerAssumption DEF CountsOK
  <2>2. ProcTypeOK'
    BY DEF ProcTypeOK
  <2>3. ThreadTypeOK'
    BY DEF ThreadTypeOK
  <2>4. CrashTypeOK'
    BY DEF CrashTypeOK
  <2>5. DelTypeOK'
    BY DEF DelTypeOK
  <2>6. LockInv'
    BY DEF LockInv, ThreadTypeOK
  <2>7. ProcInv'
    BY <2>0, <2>p DEF ProcInv, ProcTypeOK, Stoppable
  <2>8. RemovalInv'
    BY DEF RemovalInv, LockInv, ProcInv, ProcTypeOK, ThreadTypeOK, Stoppable
  <2> QED BY <2>1, <2>2, <2>3, <2>4, <2>5, <2>6, <2>7, <2>8 DEF FullInv, RprocInv, RprocTypeOK
<1> QED BY <1>1, <1>2, <1>3, <1>4

(* rproc_del() *)
LEMMA DelInv ==
  ASSUME FullInv,
         DelFlag \/ DelCancel \/ DelFlush \/ DelShutdown \/ DelMark
  PROVE  FullInv'
<1> USE ThreadFacts DEF Move
<1>0. CountsOK /\ ProcTypeOK /\ ThreadTypeOK /\ CrashTypeOK /\ DelTypeOK /\ LockInv /\ ProcInv /\ RemovalInv
  BY DEF FullInv, RprocInv, RprocTypeOK
<1> USE <1>0
<1>1. CASE DelFlag
  <2> USE <1>1 DEF DelFlag, procVars, crashVars
  <2>1. CountsOK'
    BY DEF CountsOK
  <2>2. ProcTypeOK'
    BY DEF ProcTypeOK
  <2>3. ThreadTypeOK'
    BY DEF ThreadTypeOK
  <2>4. CrashTypeOK'
    BY DEF CrashTypeOK
  <2>5. DelTypeOK'
    BY DEF DelTypeOK
  <2>6. LockInv'
    BY DEF LockInv, ThreadTypeOK
  <2>7. ProcInv'
    BY DEF ProcInv, LockInv, Stoppable
  <2>8. RemovalInv'
    BY DEF RemovalInv, LockInv, ProcInv, ThreadTypeOK
  <2> QED BY <2>1, <2>2, <2>3, <2>4, <2>5, <2>6, <2>7, <2>8 DEF FullInv, RprocInv, RprocTypeOK
<1>2. CASE DelCancel
  <2> USE <1>2 DEF DelCancel, procVars
  <2>1. CountsOK'
    BY DEF CountsOK
  <2>2. ProcTypeOK'
    BY DEF ProcTypeOK
  <2>3. ThreadTypeOK'
    BY DEF ThreadTypeOK
  <2>4. CrashTypeOK'
    BY DEF CrashTypeOK
  <2>5. DelTypeOK'
    BY DEF DelTypeOK, CrashTypeOK
  <2>6. LockInv'
    BY DEF LockInv, ThreadTypeOK
  <2>7. ProcInv'
    BY DEF ProcInv, LockInv, Stoppable
  <2>8. RemovalInv'
    BY DEF RemovalInv, LockInv, ProcInv, ThreadTypeOK
  <2> QED BY <2>1, <2>2, <2>3, <2>4, <2>5, <2>6, <2>7, <2>8 DEF FullInv, RprocInv, RprocTypeOK
<1>3. CASE DelFlush
  <2> USE <1>3 DEF DelFlush, procVars
  <2>1. CountsOK'
    BY DEF CountsOK
  <2>2. ProcTypeOK'
    BY DEF ProcTypeOK
  <2>3. ThreadTypeOK'
    BY DEF ThreadTypeOK
  <2>4. CrashTypeOK'
    BY DEF CrashTypeOK
  <2>5. DelTypeOK'
    BY DEF DelTypeOK
  <2>6. LockInv'
    BY DEF LockInv, ThreadTypeOK
  <2>7. ProcInv'
    BY DEF ProcInv, LockInv, Stoppable
  <2>8. RemovalInv'
    BY DEF RemovalInv, LockInv, ProcInv, ThreadTypeOK
  <2> QED BY <2>1, <2>2, <2>3, <2>4, <2>5, <2>6, <2>7, <2>8 DEF FullInv, RprocInv, RprocTypeOK
<1>4. CASE DelShutdown
  <2> USE <1>4 DEF DelShutdown, ShutdownStop, RprocStop, StopSubdevices, procVars, crashVars
  <2>0. power \in Nat /\ power # 0 => power - 1 \in Nat /\ (power # 1 => power - 1 # 0)
    OBVIOUS
  <2>p. power \in Nat
    BY DEF CountsOK
  <2>1. CountsOK'
    <3>1. state \in Stoppable => power # 0
      BY DEF ProcInv
    <3>2. reports' = reports /\ (power' = power \/ (power' = power - 1 /\ power # 0))
      BY <3>1
    <3> QED BY <3>2, MaxPowerAssumption DEF CountsOK
  <2>2. ProcTypeOK'
    BY DEF ProcTypeOK
  <2>3. ThreadTypeOK'
    BY DEF ThreadTypeOK
  <2>4. CrashTypeOK'
    BY DEF CrashTypeOK
  <2>5. DelTypeOK'
    BY DEF DelTypeOK
  <2>6. LockInv'
    BY DEF LockInv, ThreadTypeOK
  <2>7. ProcInv'
    <3>1. CASE lock = NoThread /\ state \in Stoppable
      BY <3>1, <2>0, <2>p DEF ProcInv, Stoppable
    <3>2. CASE UNCHANGED procVars
      BY <3>2 DEF ProcInv
    <3> QED BY <3>1, <3>2
  <2>8. RemovalInv'
    <3>1. CASE lock = NoThread /\ state \in Stoppable
      BY <3>1 DEF RemovalInv, ProcInv, Stoppable
    <3>2. CASE lock = NoThread /\ state \notin Stoppable
      <4>1. state = "OFFLINE"
        BY <3>2 DEF RemovalInv, ProcTypeOK, Stoppable
      <4>2. ~cpu /\ UNCHANGED procVars
        BY <3>2, <4>1 DEF ProcInv
      <4> QED BY <3>2, <4>1, <4>2 DEF RemovalInv
    <3>3. CASE lock # NoThread
      BY <3>3 DEF RemovalInv
    <3> QED BY <3>1, <3>2, <3>3
  <2> QED BY <2>1, <2>2, <2>3, <2>4, <2>5, <2>6, <2>7, <2>8 DEF FullInv, RprocInv, RprocTypeOK
<1>5. CASE DelMark
  <2> USE <1>5 DEF DelMark, crashVars
  <2>1. CountsOK'
    BY DEF CountsOK
  <2>2. ProcTypeOK'
    BY DEF ProcTypeOK
  <2>3. ThreadTypeOK'
    BY DEF ThreadTypeOK
  <2>4. CrashTypeOK'
    BY DEF CrashTypeOK
  <2>5. DelTypeOK'
    BY DEF DelTypeOK
  <2>6. LockInv'
    BY DEF LockInv, ThreadTypeOK
  <2>7. ProcInv'
    BY DEF ProcInv, LockInv, Stoppable
  <2>8. RemovalInv'
    BY DEF RemovalInv, LockInv, ProcInv, ThreadTypeOK
  <2> QED BY <2>1, <2>2, <2>3, <2>4, <2>5, <2>6, <2>7, <2>8 DEF FullInv, RprocInv, RprocTypeOK
<1> QED BY <1>1, <1>2, <1>3, <1>4, <1>5

(* Every step of every thread keeps the invariant. *)
LEMMA RprocNextInv == FullInv /\ [RprocNext]_vars => FullInv'
<1> SUFFICES ASSUME FullInv, [RprocNext]_vars PROVE FullInv'
  OBVIOUS
<1>1. CASE ReportCrash \/ WorkStarts \/ CrashHandler \/ CrashHandlerRelax
  BY <1>1, CrashInv
<1>2. ASSUME NEW t \in Threads, TriggerRecovery(t) \/ RecoveryStop(t) \/ RecoveryStart(t)
      PROVE  FullInv'
  BY <1>2, RecoveryInv
<1>3. ASSUME NEW u \in Users, UserCall(u) \/ BootEnds(u)
      PROVE  FullInv'
  BY <1>3, UserInv DEF UserCall
<1>4. CASE DelFlag \/ DelStep
  BY <1>4, DelInv DEF DelStep
<1>5. CASE UNCHANGED vars
  <2> USE <1>5 DEF vars, procVars, crashVars, delVars
  <2>1. CountsOK' = CountsOK /\ ProcTypeOK' = ProcTypeOK /\ ThreadTypeOK' = ThreadTypeOK
    BY DEF CountsOK, ProcTypeOK, ThreadTypeOK
  <2>2. CrashTypeOK' = CrashTypeOK /\ DelTypeOK' = DelTypeOK
    BY DEF CrashTypeOK, DelTypeOK
  <2>3. LockInv' = LockInv /\ ProcInv' = ProcInv /\ RemovalInv' = RemovalInv
    BY DEF LockInv, ProcInv, RemovalInv
  <2> QED BY <2>1, <2>2, <2>3 DEF FullInv, RprocInv, RprocTypeOK
<1> QED
  BY <1>1, <1>2, <1>3, <1>4, <1>5, ThreadFacts DEF RprocNext, WorkerStep, UserStep

(* Removal, crash recovery and the users keep the lock, the subdevices and   *)
(* the reference count in order, whatever fails and in whatever order they   *)
(* come: the invariant the run checks, for any number of users, references   *)
(* and reports.                                                              *)
THEOREM RprocSafe == RprocSpec => []RprocInv /\ []RemovalInv
<1>1. RprocSpec => []FullInv
  BY RprocInitInv, RprocNextInv, PTL DEF RprocSpec
<1>2. FullInv => RprocInv /\ RemovalInv
  BY DEF FullInv
<1> QED BY <1>1, <1>2, PTL

(* How far removal has come and what it has switched off so far: with the    *)
(* flag set nobody takes the lock to start anything, after the cancellation  *)
(* no crash work is pending, after the shutdown the lock stays free unless   *)
(* the wait for it was interrupted.                                          *)
THEOREM RprocRemovalSafe == RprocSpec => []RemovalInv
BY RprocSafe, PTL

(* No crash work is pending or running once rproc_del() has drained it. *)
THEOREM RprocDrained == RprocSpec => []CrashWorkDrained
<1>1. RemovalInv => CrashWorkDrained
  BY DEF RemovalInv, CrashWorkDrained
<1> QED BY <1>1, RprocSafe, PTL

(* No subdevice is stopped or unprepared out of turn. *)
THEOREM RprocBalanced == RprocSpec => []SubdevicesBalanced
<1>1. RprocInv => SubdevicesBalanced
  BY DEF RprocInv, ProcInv, SubdevicesBalanced
<1> QED BY <1>1, RprocSafe, PTL

(* A removed processor is off unless removal itself was told otherwise. *)
THEOREM RprocRemovalStops == RprocSpec => []RemovalStops
<1>1. RprocInv /\ RemovalInv => RemovalStops
  BY DEF RprocInv, ProcInv, RemovalInv, RemovalStops
<1> QED BY <1>1, RprocSafe, PTL

(* Removal leaves no wakeup source behind but that of a dropped duplicate. *)
THEOREM RprocWakeup == RprocSpec => []WakeupReleased
<1>1. RemovalInv => WakeupReleased
  BY DEF RemovalInv, WakeupReleased
<1> QED BY <1>1, RprocSafe, PTL

(* Nothing starts, stops or recovers a deleted processor: after removal no   *)
(* thread owns the lock and none that waits for it gets past the checks.     *)
THEOREM RprocDeletedStays == RprocSpec => NothingTouchesDeleted
<1>1. ASSUME FullInv, [RprocNext]_vars, state = "DELETED"
      PROVE  UNCHANGED procVars
  <2>1. deleting /\ dl = "gone" /\ lock = NoThread /\ pc[Worker] = "idle"
    BY <1>1 DEF FullInv, RemovalInv
  <2>2. \A t \in Threads : pc[t] \notin {"stop", "start", "boot", "unlock"}
    BY <1>1, <2>1, ThreadFacts DEF FullInv, RprocInv, LockInv
  <2>3. CASE ReportCrash
    BY <2>3 DEF ReportCrash
  <2>4. CASE WorkerStep
    BY <2>1, <2>2, <2>4, ThreadFacts DEF WorkerStep, WorkStarts, CrashHandler,
       CrashHandlerRelax, TriggerRecovery, RecoveryStop, RecoveryStart
  <2>5. ASSUME NEW u \in Users, UserStep(u) PROVE UNCHANGED procVars
    BY <2>1, <2>2, <2>5, ThreadFacts DEF UserStep, TriggerRecovery, RecoveryStop,
       RecoveryStart, BootEnds
  <2>6. ASSUME NEW u \in Users, UserCall(u) PROVE UNCHANGED procVars
    BY <1>1, <2>1, <2>6 DEF UserCall, DebugfsRecover, Boot, Shutdown, Stoppable
  <2>7. CASE DelFlag \/ DelStep
    BY <2>1, <2>7 DEF DelFlag, DelStep, DelCancel, DelFlush, DelShutdown, DelMark
  <2> QED BY <1>1, <2>3, <2>4, <2>5, <2>6, <2>7 DEF RprocNext, vars
<1>2. FullInv /\ [RprocNext]_vars => [state = "DELETED" => UNCHANGED procVars]_vars
  BY <1>1
<1>3. RprocInv /\ RemovalInv => FullInv
  BY DEF FullInv
<1> QED BY <1>2, <1>3, RprocSafe, PTL DEF RprocSpec, NothingTouchesDeleted

(* Removal drains the crash work, keeps the subdevices balanced, stops the   *)
(* processor and releases the wakeup source, but for the failures it reports.*)
THEOREM RprocRemovedClean == RprocSpec => []RemovedClean
<1>1. CrashWorkDrained /\ SubdevicesBalanced /\ RemovalStops /\ WakeupReleased => RemovedClean
  BY DEF RemovedClean
<1> QED BY <1>1, RprocDrained, RprocBalanced, RprocRemovalStops, RprocWakeup, PTL
==============================================================================
