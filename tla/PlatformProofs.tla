--------------------------- MODULE PlatformProofs ---------------------------
(***************************************************************************)
(* The safety of the platform's parts below the audio stack, for every     *)
(* value of their constants.  A part's Inv is its inductive invariant; it  *)
(* has one lemma per action, or per group of actions that move the same    *)
(* state, and under it one step per conjunct.  The theorem of a part       *)
(* combines them, and shows that the invariant implies what the part       *)
(* promises.                                                               *)
(***************************************************************************)
EXTENDS SwrMaster, DeferredProbe, Q6v5Pas, LmhThrottle, SpmiOwner, UsbGlue,
        Ath10kQmi, GpioLine, TlmmIrq, Rmtfs, FiniteSetTheorems, TLAPS

-----------------------------------------------------------------------------
(* The SoundWire master                                                    *)

\* SlavePower keeps the master's invariant.
LEMMA SwrSlavePowerInv == ASSUME SwrInv, SlavePower PROVE SwrInv'
<1>0. /\ SwrTypeOK /\ PmInStep /\ HclkBalanced /\ LinkInStep /\ CachesAgree
      /\ raced \cap {"sampled", "merged"} = {} => CacheInStep /\ CoreInStep
  BY DEF SwrInv
<1> USE SwrAssumption, <1>0 DEF SlavePower, hwVars, irqVars, pmVars
<1>1. SwrTypeOK'
  BY DEF SwrTypeOK
<1>2. PmInStep'
  BY DEF SwrTypeOK, PmInStep
<1>3. HclkBalanced'
  BY DEF SwrTypeOK, PmInStep, HclkBalanced
<1>4. LinkInStep'
  BY DEF SwrTypeOK, PmInStep, LinkInStep, Overlapped
<1>5. CachesAgree'
  BY DEF SwrTypeOK, PmInStep, CachesAgree
<1>6. ASSUME raced' \cap {"sampled", "merged"} = {} PROVE CacheInStep'
  BY <1>6 DEF SwrTypeOK, PmInStep, CachesAgree, CacheInStep, CoreInStep
<1>7. ASSUME raced' \cap {"sampled", "merged"} = {} PROVE CoreInStep'
  BY <1>6, <1>7 DEF SwrTypeOK, PmInStep, CachesAgree, CacheInStep, CoreInStep
<1> QED BY <1>1, <1>2, <1>3, <1>4, <1>5, <1>6, <1>7 DEF SwrInv

\* Ping keeps the master's invariant.
LEMMA SwrPingInv == ASSUME SwrInv, Ping PROVE SwrInv'
<1>0. /\ SwrTypeOK /\ PmInStep /\ HclkBalanced /\ LinkInStep /\ CachesAgree
      /\ raced \cap {"sampled", "merged"} = {} => CacheInStep /\ CoreInStep
  BY DEF SwrInv
<1> USE SwrAssumption, <1>0 DEF Ping, hwVars, irqVars, pmVars
<1>1. SwrTypeOK'
  BY DEF SwrTypeOK
<1>2. PmInStep'
  BY DEF SwrTypeOK, PmInStep
<1>3. HclkBalanced'
  BY DEF SwrTypeOK, PmInStep, HclkBalanced
<1>4. LinkInStep'
  BY DEF SwrTypeOK, PmInStep, LinkInStep, Overlapped
<1>5. CachesAgree'
  BY DEF SwrTypeOK, PmInStep, CachesAgree
<1>6. ASSUME raced' \cap {"sampled", "merged"} = {} PROVE CacheInStep'
  BY <1>6 DEF SwrTypeOK, PmInStep, CachesAgree, CacheInStep, CoreInStep
<1>7. ASSUME raced' \cap {"sampled", "merged"} = {} PROVE CoreInStep'
  BY <1>6, <1>7 DEF SwrTypeOK, PmInStep, CachesAgree, CacheInStep, CoreInStep
<1> QED BY <1>1, <1>2, <1>3, <1>4, <1>5, <1>6, <1>7 DEF SwrInv

\* ProbeFails keeps the master's invariant.
LEMMA SwrProbeFailsInv == ASSUME SwrInv, ProbeFails PROVE SwrInv'
<1>0. /\ SwrTypeOK /\ PmInStep /\ HclkBalanced /\ LinkInStep /\ CachesAgree
      /\ raced \cap {"sampled", "merged"} = {} => CacheInStep /\ CoreInStep
  BY DEF SwrInv
<1> USE SwrAssumption, <1>0 DEF ProbeFails, hwVars, irqVars, pmVars
<1>1. SwrTypeOK'
  BY DEF SwrTypeOK
<1>2. PmInStep'
  BY DEF SwrTypeOK, PmInStep
<1>3. HclkBalanced'
  BY DEF SwrTypeOK, PmInStep, HclkBalanced
<1>4. LinkInStep'
  BY DEF SwrTypeOK, PmInStep, LinkInStep, Overlapped
<1>5. CachesAgree'
  BY DEF SwrTypeOK, PmInStep, CachesAgree
<1>6. ASSUME raced' \cap {"sampled", "merged"} = {} PROVE CacheInStep'
  BY <1>6 DEF SwrTypeOK, PmInStep, CachesAgree, CacheInStep, CoreInStep
<1>7. ASSUME raced' \cap {"sampled", "merged"} = {} PROVE CoreInStep'
  BY <1>6, <1>7 DEF SwrTypeOK, PmInStep, CachesAgree, CacheInStep, CoreInStep
<1> QED BY <1>1, <1>2, <1>3, <1>4, <1>5, <1>6, <1>7 DEF SwrInv

\* SwrProbe keeps the master's invariant.
LEMMA SwrSwrProbeInv == ASSUME SwrInv, SwrProbe PROVE SwrInv'
<1>0. /\ SwrTypeOK /\ PmInStep /\ HclkBalanced /\ LinkInStep /\ CachesAgree
      /\ raced \cap {"sampled", "merged"} = {} => CacheInStep /\ CoreInStep
  BY DEF SwrInv
<1> USE SwrAssumption, <1>0 DEF SwrProbe, hwVars, irqVars, pmVars
<1>1. SwrTypeOK'
  BY DEF SwrTypeOK
<1>2. PmInStep'
  BY DEF SwrTypeOK, PmInStep
<1>3. HclkBalanced'
  BY DEF SwrTypeOK, PmInStep, HclkBalanced
<1>4. LinkInStep'
  BY DEF SwrTypeOK, PmInStep, LinkInStep, Overlapped
<1>5. CachesAgree'
  BY DEF SwrTypeOK, PmInStep, CachesAgree
<1>6. ASSUME raced' \cap {"sampled", "merged"} = {} PROVE CacheInStep'
  BY <1>6 DEF SwrTypeOK, PmInStep, CachesAgree, CacheInStep, CoreInStep
<1>7. ASSUME raced' \cap {"sampled", "merged"} = {} PROVE CoreInStep'
  BY <1>6, <1>7 DEF SwrTypeOK, PmInStep, CachesAgree, CacheInStep, CoreInStep
<1> QED BY <1>1, <1>2, <1>3, <1>4, <1>5, <1>6, <1>7 DEF SwrInv

\* SwrRemove keeps the master's invariant.
LEMMA SwrSwrRemoveInv == ASSUME SwrInv, SwrRemove PROVE SwrInv'
<1>0. /\ SwrTypeOK /\ PmInStep /\ HclkBalanced /\ LinkInStep /\ CachesAgree
      /\ raced \cap {"sampled", "merged"} = {} => CacheInStep /\ CoreInStep
  BY DEF SwrInv
<1> USE SwrAssumption, <1>0 DEF SwrRemove, hwVars, irqVars, pmVars
<1>1. SwrTypeOK'
  BY DEF SwrTypeOK
<1>2. PmInStep'
  BY DEF SwrTypeOK, PmInStep
<1>3. HclkBalanced'
  BY DEF SwrTypeOK, PmInStep, HclkBalanced
<1>4. LinkInStep'
  BY DEF SwrTypeOK, PmInStep, LinkInStep, Overlapped
<1>5. CachesAgree'
  BY DEF SwrTypeOK, PmInStep, CachesAgree
<1>6. ASSUME raced' \cap {"sampled", "merged"} = {} PROVE CacheInStep'
  BY <1>6 DEF SwrTypeOK, PmInStep, CachesAgree, CacheInStep, CoreInStep
<1>7. ASSUME raced' \cap {"sampled", "merged"} = {} PROVE CoreInStep'
  BY <1>6, <1>7 DEF SwrTypeOK, PmInStep, CachesAgree, CacheInStep, CoreInStep
<1> QED BY <1>1, <1>2, <1>3, <1>4, <1>5, <1>6, <1>7 DEF SwrInv

\* IrqEnter keeps the master's invariant.
LEMMA SwrIrqEnterInv == ASSUME SwrInv, IrqEnter PROVE SwrInv'
<1>0. /\ SwrTypeOK /\ PmInStep /\ HclkBalanced /\ LinkInStep /\ CachesAgree
      /\ raced \cap {"sampled", "merged"} = {} => CacheInStep /\ CoreInStep
  BY DEF SwrInv
<1> USE SwrAssumption, <1>0 DEF IrqEnter, hwVars, irqVars, pmVars
<1>1. SwrTypeOK'
  BY DEF SwrTypeOK
<1>2. PmInStep'
  BY DEF SwrTypeOK, PmInStep
<1>3. HclkBalanced'
  BY DEF SwrTypeOK, PmInStep, HclkBalanced
<1>4. LinkInStep'
  BY DEF SwrTypeOK, PmInStep, LinkInStep, Overlapped
<1>5. CachesAgree'
  BY DEF SwrTypeOK, PmInStep, CachesAgree
<1>6. ASSUME raced' \cap {"sampled", "merged"} = {} PROVE CacheInStep'
  BY <1>6 DEF SwrTypeOK, PmInStep, CachesAgree, CacheInStep, CoreInStep
<1>7. ASSUME raced' \cap {"sampled", "merged"} = {} PROVE CoreInStep'
  BY <1>6, <1>7 DEF SwrTypeOK, PmInStep, CachesAgree, CacheInStep, CoreInStep
<1> QED BY <1>1, <1>2, <1>3, <1>4, <1>5, <1>6, <1>7 DEF SwrInv

\* IrqCompare keeps the master's invariant.
LEMMA SwrIrqCompareInv == ASSUME SwrInv, IrqCompare PROVE SwrInv'
<1>0. /\ SwrTypeOK /\ PmInStep /\ HclkBalanced /\ LinkInStep /\ CachesAgree
      /\ raced \cap {"sampled", "merged"} = {} => CacheInStep /\ CoreInStep
  BY DEF SwrInv
<1> USE SwrAssumption, <1>0 DEF IrqCompare, hwVars, irqVars, pmVars
<1>1. SwrTypeOK'
  BY DEF SwrTypeOK
<1>2. PmInStep'
  BY DEF SwrTypeOK, PmInStep
<1>3. HclkBalanced'
  BY DEF SwrTypeOK, PmInStep, HclkBalanced
<1>4. LinkInStep'
  BY DEF SwrTypeOK, PmInStep, LinkInStep, Overlapped
<1>5. CachesAgree'
  BY DEF SwrTypeOK, PmInStep, CachesAgree
<1>6. ASSUME raced' \cap {"sampled", "merged"} = {} PROVE CacheInStep'
  BY <1>6 DEF SwrTypeOK, PmInStep, CachesAgree, CacheInStep, CoreInStep
<1>7. ASSUME raced' \cap {"sampled", "merged"} = {} PROVE CoreInStep'
  BY <1>6, <1>7 DEF SwrTypeOK, PmInStep, CachesAgree, CacheInStep, CoreInStep
<1> QED BY <1>1, <1>2, <1>3, <1>4, <1>5, <1>6, <1>7 DEF SwrInv

\* IrqEnumerate keeps the master's invariant.
LEMMA SwrIrqEnumerateInv == ASSUME SwrInv, IrqEnumerate PROVE SwrInv'
<1>0. /\ SwrTypeOK /\ PmInStep /\ HclkBalanced /\ LinkInStep /\ CachesAgree
      /\ raced \cap {"sampled", "merged"} = {} => CacheInStep /\ CoreInStep
  BY DEF SwrInv
<1> USE SwrAssumption, <1>0 DEF IrqEnumerate, hwVars, irqVars, pmVars
<1>1. SwrTypeOK'
  BY DEF SwrTypeOK
<1>2. PmInStep'
  BY DEF SwrTypeOK, PmInStep
<1>3. HclkBalanced'
  BY DEF SwrTypeOK, PmInStep, HclkBalanced
<1>4. LinkInStep'
  BY DEF SwrTypeOK, PmInStep, LinkInStep, Overlapped
<1>5. CachesAgree'
  BY DEF SwrTypeOK, PmInStep, CachesAgree
<1>6. ASSUME raced' \cap {"sampled", "merged"} = {} PROVE CacheInStep'
  BY <1>6 DEF SwrTypeOK, PmInStep, CachesAgree, CacheInStep, CoreInStep
<1>7. ASSUME raced' \cap {"sampled", "merged"} = {} PROVE CoreInStep'
  BY <1>6, <1>7 DEF SwrTypeOK, PmInStep, CachesAgree, CacheInStep, CoreInStep
<1> QED BY <1>1, <1>2, <1>3, <1>4, <1>5, <1>6, <1>7 DEF SwrInv

\* IrqFound keeps the master's invariant.
LEMMA SwrIrqFoundInv == ASSUME SwrInv, IrqFound PROVE SwrInv'
<1>0. /\ SwrTypeOK /\ PmInStep /\ HclkBalanced /\ LinkInStep /\ CachesAgree
      /\ raced \cap {"sampled", "merged"} = {} => CacheInStep /\ CoreInStep
  BY DEF SwrInv
<1> USE SwrAssumption, <1>0 DEF IrqFound, hwVars, irqVars, pmVars
<1>1. SwrTypeOK'
  BY ZenonT(40) DEF SwrTypeOK
<1>2. PmInStep'
  BY DEF SwrTypeOK, PmInStep
<1>3. HclkBalanced'
  BY DEF SwrTypeOK, PmInStep, HclkBalanced
<1>4. LinkInStep'
  BY DEF SwrTypeOK, PmInStep, LinkInStep, Overlapped
<1>5. CachesAgree'
  BY DEF SwrTypeOK, PmInStep, CachesAgree
<1>6. ASSUME raced' \cap {"sampled", "merged"} = {} PROVE CacheInStep'
  BY <1>6 DEF SwrTypeOK, PmInStep, CachesAgree, CacheInStep, CoreInStep
<1>7. ASSUME raced' \cap {"sampled", "merged"} = {} PROVE CoreInStep'
  BY <1>6, <1>7 DEF SwrTypeOK, PmInStep, CachesAgree, CacheInStep, CoreInStep
<1> QED BY <1>1, <1>2, <1>3, <1>4, <1>5, <1>6, <1>7 DEF SwrInv

\* IrqHandle keeps the master's invariant.
LEMMA SwrIrqHandleInv == ASSUME SwrInv, IrqHandle PROVE SwrInv'
<1>0. /\ SwrTypeOK /\ PmInStep /\ HclkBalanced /\ LinkInStep /\ CachesAgree
      /\ raced \cap {"sampled", "merged"} = {} => CacheInStep /\ CoreInStep
  BY DEF SwrInv
<1> USE SwrAssumption, <1>0 DEF IrqHandle, hwVars, irqVars, pmVars
<1>1. SwrTypeOK'
  BY DEF SwrTypeOK
<1>2. PmInStep'
  BY DEF SwrTypeOK, PmInStep
<1>3. HclkBalanced'
  BY DEF SwrTypeOK, PmInStep, HclkBalanced
<1>4. LinkInStep'
  BY DEF SwrTypeOK, PmInStep, LinkInStep, Overlapped
<1>5. CachesAgree'
  BY DEF SwrTypeOK, PmInStep, CachesAgree
<1>6. ASSUME raced' \cap {"sampled", "merged"} = {} PROVE CacheInStep'
  BY <1>6 DEF SwrTypeOK, PmInStep, CachesAgree, CacheInStep, CoreInStep
<1>7. ASSUME raced' \cap {"sampled", "merged"} = {} PROVE CoreInStep'
  BY <1>6, <1>7 DEF SwrTypeOK, PmInStep, CachesAgree, CacheInStep, CoreInStep
<1> QED BY <1>1, <1>2, <1>3, <1>4, <1>5, <1>6, <1>7 DEF SwrInv

\* IrqClear keeps the master's invariant.
LEMMA SwrIrqClearInv == ASSUME SwrInv, IrqClear PROVE SwrInv'
<1>0. /\ SwrTypeOK /\ PmInStep /\ HclkBalanced /\ LinkInStep /\ CachesAgree
      /\ raced \cap {"sampled", "merged"} = {} => CacheInStep /\ CoreInStep
  BY DEF SwrInv
<1> USE SwrAssumption, <1>0 DEF IrqClear, MadeGood, hwVars, irqVars, pmVars
<1>1. SwrTypeOK'
  BY DEF SwrTypeOK
<1>2. PmInStep'
  BY DEF SwrTypeOK, PmInStep
<1>3. HclkBalanced'
  BY DEF SwrTypeOK, PmInStep, HclkBalanced
<1>4. LinkInStep'
  BY DEF SwrTypeOK, PmInStep, LinkInStep, Overlapped
<1>5. CachesAgree'
  BY DEF SwrTypeOK, PmInStep, CachesAgree
<1>6. ASSUME raced' \cap {"sampled", "merged"} = {} PROVE CacheInStep'
  BY <1>6 DEF SwrTypeOK, PmInStep, CachesAgree, CacheInStep, CoreInStep
<1>7. ASSUME raced' \cap {"sampled", "merged"} = {} PROVE CoreInStep'
  BY <1>6, <1>7 DEF SwrTypeOK, PmInStep, CachesAgree, CacheInStep, CoreInStep
<1> QED BY <1>1, <1>2, <1>3, <1>4, <1>5, <1>6, <1>7 DEF SwrInv

\* IrqAlert keeps the master's invariant.
LEMMA SwrIrqAlertInv == ASSUME SwrInv, IrqAlert PROVE SwrInv'
<1>0. /\ SwrTypeOK /\ PmInStep /\ HclkBalanced /\ LinkInStep /\ CachesAgree
      /\ raced \cap {"sampled", "merged"} = {} => CacheInStep /\ CoreInStep
  BY DEF SwrInv
<1> USE SwrAssumption, <1>0 DEF IrqAlert, hwVars, irqVars, pmVars
<1>1. SwrTypeOK'
  BY DEF SwrTypeOK
<1>2. PmInStep'
  BY DEF SwrTypeOK, PmInStep
<1>3. HclkBalanced'
  BY DEF SwrTypeOK, PmInStep, HclkBalanced
<1>4. LinkInStep'
  BY DEF SwrTypeOK, PmInStep, LinkInStep, Overlapped
<1>5. CachesAgree'
  BY DEF SwrTypeOK, PmInStep, CachesAgree
<1>6. ASSUME raced' \cap {"sampled", "merged"} = {} PROVE CacheInStep'
  BY <1>6 DEF SwrTypeOK, PmInStep, CachesAgree, CacheInStep, CoreInStep
<1>7. ASSUME raced' \cap {"sampled", "merged"} = {} PROVE CoreInStep'
  BY <1>6, <1>7 DEF SwrTypeOK, PmInStep, CachesAgree, CacheInStep, CoreInStep
<1> QED BY <1>1, <1>2, <1>3, <1>4, <1>5, <1>6, <1>7 DEF SwrInv

\* Startup keeps the master's invariant.
LEMMA SwrStartupInv == ASSUME SwrInv, Startup PROVE SwrInv'
<1>0. /\ SwrTypeOK /\ PmInStep /\ HclkBalanced /\ LinkInStep /\ CachesAgree
      /\ raced \cap {"sampled", "merged"} = {} => CacheInStep /\ CoreInStep
  BY DEF SwrInv
<1> USE SwrAssumption, <1>0 DEF Startup, hwVars, irqVars, pmVars
<1>1. SwrTypeOK'
  BY DEF SwrTypeOK
<1>2. PmInStep'
  BY DEF SwrTypeOK, PmInStep
<1>3. HclkBalanced'
  BY DEF SwrTypeOK, PmInStep, HclkBalanced
<1>4. LinkInStep'
  BY DEF SwrTypeOK, PmInStep, LinkInStep, Overlapped
<1>5. CachesAgree'
  BY DEF SwrTypeOK, PmInStep, CachesAgree
<1>6. ASSUME raced' \cap {"sampled", "merged"} = {} PROVE CacheInStep'
  BY <1>6 DEF SwrTypeOK, PmInStep, CachesAgree, CacheInStep, CoreInStep
<1>7. ASSUME raced' \cap {"sampled", "merged"} = {} PROVE CoreInStep'
  BY <1>6, <1>7 DEF SwrTypeOK, PmInStep, CachesAgree, CacheInStep, CoreInStep
<1> QED BY <1>1, <1>2, <1>3, <1>4, <1>5, <1>6, <1>7 DEF SwrInv

\* StreamShutdown keeps the master's invariant.
LEMMA SwrStreamShutdownInv == ASSUME SwrInv, StreamShutdown PROVE SwrInv'
<1>0. /\ SwrTypeOK /\ PmInStep /\ HclkBalanced /\ LinkInStep /\ CachesAgree
      /\ raced \cap {"sampled", "merged"} = {} => CacheInStep /\ CoreInStep
  BY DEF SwrInv
<1> USE SwrAssumption, <1>0 DEF StreamShutdown, hwVars, irqVars, pmVars
<1>1. SwrTypeOK'
  BY DEF SwrTypeOK
<1>2. PmInStep'
  BY DEF SwrTypeOK, PmInStep
<1>3. HclkBalanced'
  BY DEF SwrTypeOK, PmInStep, HclkBalanced
<1>4. LinkInStep'
  BY DEF SwrTypeOK, PmInStep, LinkInStep, Overlapped
<1>5. CachesAgree'
  BY DEF SwrTypeOK, PmInStep, CachesAgree
<1>6. ASSUME raced' \cap {"sampled", "merged"} = {} PROVE CacheInStep'
  BY <1>6 DEF SwrTypeOK, PmInStep, CachesAgree, CacheInStep, CoreInStep
<1>7. ASSUME raced' \cap {"sampled", "merged"} = {} PROVE CoreInStep'
  BY <1>6, <1>7 DEF SwrTypeOK, PmInStep, CachesAgree, CacheInStep, CoreInStep
<1> QED BY <1>1, <1>2, <1>3, <1>4, <1>5, <1>6, <1>7 DEF SwrInv

\* Suspend keeps the master's invariant.
LEMMA SwrSuspendInv == ASSUME SwrInv, Suspend PROVE SwrInv'
<1>0. /\ SwrTypeOK /\ PmInStep /\ HclkBalanced /\ LinkInStep /\ CachesAgree
      /\ raced \cap {"sampled", "merged"} = {} => CacheInStep /\ CoreInStep
  BY DEF SwrInv
<1> USE SwrAssumption, <1>0 DEF Suspend, hwVars, irqVars, pmVars
<1>1. SwrTypeOK'
  BY DEF SwrTypeOK
<1>2. PmInStep'
  BY DEF SwrTypeOK, PmInStep
<1>3. HclkBalanced'
  BY DEF SwrTypeOK, PmInStep, HclkBalanced
<1>4. LinkInStep'
  BY DEF SwrTypeOK, PmInStep, LinkInStep, Overlapped
<1>5. CachesAgree'
  BY DEF SwrTypeOK, PmInStep, CachesAgree
<1>6. ASSUME raced' \cap {"sampled", "merged"} = {} PROVE CacheInStep'
  BY <1>6 DEF SwrTypeOK, PmInStep, CachesAgree, CacheInStep, CoreInStep
<1>7. ASSUME raced' \cap {"sampled", "merged"} = {} PROVE CoreInStep'
  BY <1>6, <1>7 DEF SwrTypeOK, PmInStep, CachesAgree, CacheInStep, CoreInStep
<1> QED BY <1>1, <1>2, <1>3, <1>4, <1>5, <1>6, <1>7 DEF SwrInv

\* SuspendRefused keeps the master's invariant.
LEMMA SwrSuspendRefusedInv == ASSUME SwrInv, SuspendRefused PROVE SwrInv'
<1>0. /\ SwrTypeOK /\ PmInStep /\ HclkBalanced /\ LinkInStep /\ CachesAgree
      /\ raced \cap {"sampled", "merged"} = {} => CacheInStep /\ CoreInStep
  BY DEF SwrInv
<1> USE SwrAssumption, <1>0 DEF SuspendRefused, hwVars, irqVars, pmVars
<1>1. SwrTypeOK'
  BY DEF SwrTypeOK
<1>2. PmInStep'
  BY DEF SwrTypeOK, PmInStep
<1>3. HclkBalanced'
  BY DEF SwrTypeOK, PmInStep, HclkBalanced
<1>4. LinkInStep'
  BY DEF SwrTypeOK, PmInStep, LinkInStep, Overlapped
<1>5. CachesAgree'
  BY DEF SwrTypeOK, PmInStep, CachesAgree
<1>6. ASSUME raced' \cap {"sampled", "merged"} = {} PROVE CacheInStep'
  BY <1>6 DEF SwrTypeOK, PmInStep, CachesAgree, CacheInStep, CoreInStep
<1>7. ASSUME raced' \cap {"sampled", "merged"} = {} PROVE CoreInStep'
  BY <1>6, <1>7 DEF SwrTypeOK, PmInStep, CachesAgree, CacheInStep, CoreInStep
<1> QED BY <1>1, <1>2, <1>3, <1>4, <1>5, <1>6, <1>7 DEF SwrInv

\* ClockStop keeps the master's invariant.
LEMMA SwrClockStopInv == ASSUME SwrInv, ClockStop PROVE SwrInv'
<1>0. /\ SwrTypeOK /\ PmInStep /\ HclkBalanced /\ LinkInStep /\ CachesAgree
      /\ raced \cap {"sampled", "merged"} = {} => CacheInStep /\ CoreInStep
  BY DEF SwrInv
<1> USE SwrAssumption, <1>0 DEF ClockStop, hwVars, irqVars, pmVars
<1>1. SwrTypeOK'
  BY ZenonT(40) DEF SwrTypeOK
<1>2. PmInStep'
  BY DEF SwrTypeOK, PmInStep
<1>3. HclkBalanced'
  BY DEF SwrTypeOK, PmInStep, HclkBalanced
<1>4. LinkInStep'
  BY DEF SwrTypeOK, PmInStep, LinkInStep, Overlapped
<1>5. CachesAgree'
  BY DEF SwrTypeOK, PmInStep, CachesAgree
<1>6. ASSUME raced' \cap {"sampled", "merged"} = {} PROVE CacheInStep'
  BY <1>6 DEF SwrTypeOK, PmInStep, CachesAgree, CacheInStep, CoreInStep
<1>7. ASSUME raced' \cap {"sampled", "merged"} = {} PROVE CoreInStep'
  BY <1>6, <1>7 DEF SwrTypeOK, PmInStep, CachesAgree, CacheInStep, CoreInStep
<1> QED BY <1>1, <1>2, <1>3, <1>4, <1>5, <1>6, <1>7 DEF SwrInv

\* SuspendSample keeps the master's invariant.
LEMMA SwrSuspendSampleInv == ASSUME SwrInv, SuspendSample PROVE SwrInv'
<1>0. /\ SwrTypeOK /\ PmInStep /\ HclkBalanced /\ LinkInStep /\ CachesAgree
      /\ raced \cap {"sampled", "merged"} = {} => CacheInStep /\ CoreInStep
  BY DEF SwrInv
<1> USE SwrAssumption, <1>0 DEF SuspendSample, hwVars, irqVars, pmVars
<1>1. SwrTypeOK'
  BY DEF SwrTypeOK
<1>2. PmInStep'
  BY DEF SwrTypeOK, PmInStep
<1>3. HclkBalanced'
  BY DEF SwrTypeOK, PmInStep, HclkBalanced
<1>4. LinkInStep'
  BY DEF SwrTypeOK, PmInStep, LinkInStep, Overlapped
<1>5. CachesAgree'
  BY DEF SwrTypeOK, PmInStep, CachesAgree
<1>6. ASSUME raced' \cap {"sampled", "merged"} = {} PROVE CacheInStep'
  BY <1>6 DEF SwrTypeOK, PmInStep, CachesAgree, CacheInStep, CoreInStep
<1>7. ASSUME raced' \cap {"sampled", "merged"} = {} PROVE CoreInStep'
  BY <1>6, <1>7 DEF SwrTypeOK, PmInStep, CachesAgree, CacheInStep, CoreInStep
<1> QED BY <1>1, <1>2, <1>3, <1>4, <1>5, <1>6, <1>7 DEF SwrInv

\* SuspendOff keeps the master's invariant.
LEMMA SwrSuspendOffInv == ASSUME SwrInv, SuspendOff PROVE SwrInv'
<1>0. /\ SwrTypeOK /\ PmInStep /\ HclkBalanced /\ LinkInStep /\ CachesAgree
      /\ raced \cap {"sampled", "merged"} = {} => CacheInStep /\ CoreInStep
  BY DEF SwrInv
<1> USE SwrAssumption, <1>0 DEF SuspendOff, hwVars, irqVars, pmVars
<1>1. SwrTypeOK'
  BY DEF SwrTypeOK
<1>2. PmInStep'
  BY DEF SwrTypeOK, PmInStep
<1>3. HclkBalanced'
  BY DEF SwrTypeOK, PmInStep, HclkBalanced
<1>4. LinkInStep'
  BY DEF SwrTypeOK, PmInStep, LinkInStep, Overlapped
<1>5. CachesAgree'
  BY DEF SwrTypeOK, PmInStep, CachesAgree
<1>6. ASSUME raced' \cap {"sampled", "merged"} = {} PROVE CacheInStep'
  BY <1>6 DEF SwrTypeOK, PmInStep, CachesAgree, CacheInStep, CoreInStep
<1>7. ASSUME raced' \cap {"sampled", "merged"} = {} PROVE CoreInStep'
  BY <1>6, <1>7 DEF SwrTypeOK, PmInStep, CachesAgree, CacheInStep, CoreInStep
<1> QED BY <1>1, <1>2, <1>3, <1>4, <1>5, <1>6, <1>7 DEF SwrInv

\* Resume keeps the master's invariant.
LEMMA SwrResumeInv == ASSUME SwrInv, Resume PROVE SwrInv'
<1>0. /\ SwrTypeOK /\ PmInStep /\ HclkBalanced /\ LinkInStep /\ CachesAgree
      /\ raced \cap {"sampled", "merged"} = {} => CacheInStep /\ CoreInStep
  BY DEF SwrInv
<1> USE SwrAssumption, <1>0 DEF Resume, hwVars, irqVars, pmVars
<1>1. SwrTypeOK'
  <2>1. streams' \in Nat
    BY DEF SwrTypeOK
  <2>2. wakeOn' \in BOOLEAN
    OBVIOUS
  <2> QED BY <2>1, <2>2 DEF SwrTypeOK
<1>2. PmInStep'
  BY DEF SwrTypeOK, PmInStep
<1>3. HclkBalanced'
  BY DEF SwrTypeOK, PmInStep, HclkBalanced
<1>4. LinkInStep'
  BY DEF SwrTypeOK, PmInStep, LinkInStep, Overlapped
<1>5. CachesAgree'
  BY DEF SwrTypeOK, PmInStep, CachesAgree
<1>6. ASSUME raced' \cap {"sampled", "merged"} = {} PROVE CacheInStep'
  BY <1>6 DEF SwrTypeOK, PmInStep, CachesAgree, CacheInStep, CoreInStep
<1>7. ASSUME raced' \cap {"sampled", "merged"} = {} PROVE CoreInStep'
  BY <1>6, <1>7 DEF SwrTypeOK, PmInStep, CachesAgree, CacheInStep, CoreInStep
<1> QED BY <1>1, <1>2, <1>3, <1>4, <1>5, <1>6, <1>7 DEF SwrInv

\* WakeWhileActive keeps the master's invariant.
LEMMA SwrWakeWhileActiveInv == ASSUME SwrInv, WakeWhileActive PROVE SwrInv'
<1>0. /\ SwrTypeOK /\ PmInStep /\ HclkBalanced /\ LinkInStep /\ CachesAgree
      /\ raced \cap {"sampled", "merged"} = {} => CacheInStep /\ CoreInStep
  BY DEF SwrInv
<1> USE SwrAssumption, <1>0 DEF WakeWhileActive, hwVars, irqVars, pmVars
<1>1. SwrTypeOK'
  BY DEF SwrTypeOK
<1>2. PmInStep'
  BY DEF SwrTypeOK, PmInStep
<1>3. HclkBalanced'
  BY DEF SwrTypeOK, PmInStep, HclkBalanced
<1>4. LinkInStep'
  BY DEF SwrTypeOK, PmInStep, LinkInStep, Overlapped
<1>5. CachesAgree'
  BY DEF SwrTypeOK, PmInStep, CachesAgree
<1>6. ASSUME raced' \cap {"sampled", "merged"} = {} PROVE CacheInStep'
  BY <1>6 DEF SwrTypeOK, PmInStep, CachesAgree, CacheInStep, CoreInStep
<1>7. ASSUME raced' \cap {"sampled", "merged"} = {} PROVE CoreInStep'
  BY <1>6, <1>7 DEF SwrTypeOK, PmInStep, CachesAgree, CacheInStep, CoreInStep
<1> QED BY <1>1, <1>2, <1>3, <1>4, <1>5, <1>6, <1>7 DEF SwrInv

\* ResumeReset keeps the master's invariant.
LEMMA SwrResumeResetInv == ASSUME SwrInv, ResumeReset PROVE SwrInv'
<1>0. /\ SwrTypeOK /\ PmInStep /\ HclkBalanced /\ LinkInStep /\ CachesAgree
      /\ raced \cap {"sampled", "merged"} = {} => CacheInStep /\ CoreInStep
  BY DEF SwrInv
<1> USE SwrAssumption, <1>0 DEF ResumeReset, hwVars, irqVars, pmVars
<1>1. SwrTypeOK'
  BY DEF SwrTypeOK
<1>2. PmInStep'
  BY DEF SwrTypeOK, PmInStep
<1>3. HclkBalanced'
  BY DEF SwrTypeOK, PmInStep, HclkBalanced
<1>4. LinkInStep'
  BY DEF SwrTypeOK, PmInStep, LinkInStep, Overlapped
<1>5. CachesAgree'
  BY DEF SwrTypeOK, PmInStep, CachesAgree
<1>6. ASSUME raced' \cap {"sampled", "merged"} = {} PROVE CacheInStep'
  BY <1>6 DEF SwrTypeOK, PmInStep, CachesAgree, CacheInStep, CoreInStep
<1>7. ASSUME raced' \cap {"sampled", "merged"} = {} PROVE CoreInStep'
  BY <1>6, <1>7 DEF SwrTypeOK, PmInStep, CachesAgree, CacheInStep, CoreInStep
<1> QED BY <1>1, <1>2, <1>3, <1>4, <1>5, <1>6, <1>7 DEF SwrInv

\* ResumeStatus keeps the master's invariant.
LEMMA SwrResumeStatusInv == ASSUME SwrInv, ResumeStatus PROVE SwrInv'
<1>0. /\ SwrTypeOK /\ PmInStep /\ HclkBalanced /\ LinkInStep /\ CachesAgree
      /\ raced \cap {"sampled", "merged"} = {} => CacheInStep /\ CoreInStep
  BY DEF SwrInv
<1> USE SwrAssumption, <1>0 DEF ResumeStatus, hwVars, irqVars, pmVars
<1>1. SwrTypeOK'
  BY DEF SwrTypeOK
<1>2. PmInStep'
  BY DEF SwrTypeOK, PmInStep
<1>3. HclkBalanced'
  BY DEF SwrTypeOK, PmInStep, HclkBalanced
<1>4. LinkInStep'
  BY DEF SwrTypeOK, PmInStep, LinkInStep, Overlapped
<1>5. CachesAgree'
  BY DEF SwrTypeOK, PmInStep, CachesAgree
<1>6. ASSUME raced' \cap {"sampled", "merged"} = {} PROVE CacheInStep'
  BY <1>6 DEF SwrTypeOK, PmInStep, CachesAgree, CacheInStep, CoreInStep
<1>7. ASSUME raced' \cap {"sampled", "merged"} = {} PROVE CoreInStep'
  BY <1>6, <1>7 DEF SwrTypeOK, PmInStep, CachesAgree, CacheInStep, CoreInStep
<1> QED BY <1>1, <1>2, <1>3, <1>4, <1>5, <1>6, <1>7 DEF SwrInv

\* ResumeHandle keeps the master's invariant.
LEMMA SwrResumeHandleInv == ASSUME SwrInv, ResumeHandle PROVE SwrInv'
<1>0. /\ SwrTypeOK /\ PmInStep /\ HclkBalanced /\ LinkInStep /\ CachesAgree
      /\ raced \cap {"sampled", "merged"} = {} => CacheInStep /\ CoreInStep
  BY DEF SwrInv
<1> USE SwrAssumption, <1>0 DEF ResumeHandle, MadeGood, hwVars, irqVars, pmVars
<1>1. SwrTypeOK'
  BY DEF SwrTypeOK
<1>2. PmInStep'
  BY DEF SwrTypeOK, PmInStep
<1>3. HclkBalanced'
  BY DEF SwrTypeOK, PmInStep, HclkBalanced
<1>4. LinkInStep'
  BY DEF SwrTypeOK, PmInStep, LinkInStep, Overlapped
<1>5. CachesAgree'
  BY DEF SwrTypeOK, PmInStep, CachesAgree
<1>6. ASSUME raced' \cap {"sampled", "merged"} = {} PROVE CacheInStep'
  BY <1>6 DEF SwrTypeOK, PmInStep, CachesAgree, CacheInStep, CoreInStep
<1>7. ASSUME raced' \cap {"sampled", "merged"} = {} PROVE CoreInStep'
  BY <1>6, <1>7 DEF SwrTypeOK, PmInStep, CachesAgree, CacheInStep, CoreInStep
<1> QED BY <1>1, <1>2, <1>3, <1>4, <1>5, <1>6, <1>7 DEF SwrInv

\* ResumeExit keeps the master's invariant.
LEMMA SwrResumeExitInv == ASSUME SwrInv, ResumeExit PROVE SwrInv'
<1>0. /\ SwrTypeOK /\ PmInStep /\ HclkBalanced /\ LinkInStep /\ CachesAgree
      /\ raced \cap {"sampled", "merged"} = {} => CacheInStep /\ CoreInStep
  BY DEF SwrInv
<1> USE SwrAssumption, <1>0 DEF ResumeExit, hwVars, irqVars, pmVars
<1>1. SwrTypeOK'
  BY DEF SwrTypeOK
<1>2. PmInStep'
  BY DEF SwrTypeOK, PmInStep
<1>3. HclkBalanced'
  BY DEF SwrTypeOK, PmInStep, HclkBalanced
<1>4. LinkInStep'
  BY DEF SwrTypeOK, PmInStep, LinkInStep, Overlapped
<1>5. CachesAgree'
  BY DEF SwrTypeOK, PmInStep, CachesAgree
<1>6. ASSUME raced' \cap {"sampled", "merged"} = {} PROVE CacheInStep'
  BY <1>6 DEF SwrTypeOK, PmInStep, CachesAgree, CacheInStep, CoreInStep
<1>7. ASSUME raced' \cap {"sampled", "merged"} = {} PROVE CoreInStep'
  BY <1>6, <1>7 DEF SwrTypeOK, PmInStep, CachesAgree, CacheInStep, CoreInStep
<1> QED BY <1>1, <1>2, <1>3, <1>4, <1>5, <1>6, <1>7 DEF SwrInv

\* The SoundWire master keeps its promises: the bus core is told every status change
\* no race has hidden, the link works whenever the master is active, and the clock is
\* balanced, for any number of slaves and streams.
THEOREM SwrIsSafe == SwrSpec => []SwrSafe
<1>1. SwrInit => SwrInv
  <2> SUFFICES ASSUME SwrInit PROVE SwrInv
    OBVIOUS
  <2> USE SwrAssumption DEF SwrInit
  <2>1. SwrTypeOK
    BY DEF SwrTypeOK
  <2>2. PmInStep /\ HclkBalanced /\ LinkInStep /\ CachesAgree /\ CacheInStep /\ CoreInStep
    BY DEF PmInStep, HclkBalanced, LinkInStep, CachesAgree, CacheInStep, CoreInStep
  <2> QED BY <2>1, <2>2 DEF SwrInv
<1>2. SwrInv /\ [SwrNext]_swrVars => SwrInv'
  <2>1. CASE UNCHANGED swrVars
    BY <2>1 DEF swrVars, hwVars, irqVars, pmVars, SwrInv, SwrTypeOK, PmInStep, HclkBalanced,
       LinkInStep, Overlapped, CachesAgree, CacheInStep, CoreInStep
  <2> QED BY <2>1, SwrSlavePowerInv, SwrPingInv, SwrProbeFailsInv, SwrSwrProbeInv, SwrSwrRemoveInv,
     SwrIrqEnterInv, SwrIrqCompareInv, SwrIrqEnumerateInv, SwrIrqFoundInv,
     SwrIrqHandleInv, SwrIrqClearInv, SwrIrqAlertInv, SwrStartupInv,
     SwrStreamShutdownInv, SwrSuspendInv, SwrSuspendRefusedInv, SwrClockStopInv,
     SwrSuspendSampleInv, SwrSuspendOffInv, SwrResumeInv, SwrWakeWhileActiveInv,
     SwrResumeResetInv, SwrResumeStatusInv, SwrResumeHandleInv, SwrResumeExitInv
     DEF SwrNext
<1>3. SwrInv => SwrSafe
  BY DEF SwrInv, SwrSafe, SwrTypeOK, PmInStep, LinkInStep, Overlapped, CachesAgree, CacheInStep,
     CoreInStep, StatusHandled, SwrSettled, LinkAfterResume
<1> QED BY <1>1, <1>2, <1>3, PTL DEF SwrSpec

-----------------------------------------------------------------------------
(* Deferred probing                                                        *)

\* What the steps make of a prober's state is such a state.
LEMMA ProberFacts ==
    /\ NoProbe \in ProberStates
    /\ \A r \in ProberStates : [r EXCEPT !.moved = TRUE] \in ProberStates
    /\ \A r \in ProberStates :
         \A pc \in {"trigger", "defer", "recheck", "unlist"} : [r EXCEPT !.pc = pc] \in ProberStates
    /\ \A r \in ProberStates : [r EXCEPT !.pc = "bind", !.moved = FALSE] \in ProberStates
    /\ \A r \in ProberStates, d \in Devs : [r EXCEPT !.pc = "probe", !.dev = d] \in ProberStates
BY DEF NoProbe, ProberStates

\* A trigger leaves every prober in such a state.
LEMMA TriggerType ==
    ASSUME NEW now \in [Probers -> ProberStates], prober \in [Probers -> ProberStates], Trigger(now)
    PROVE  prober' \in [Probers -> ProberStates]
<1>1. \A p \in Probers : now[p] \in ProberStates /\ [now[p] EXCEPT !.moved = TRUE] \in ProberStates
  BY ProberFacts
<1> HIDE DEF ProberStates, Probers
<1> QED BY <1>1 DEF Trigger

\* WorkStart keeps the invariant of deferred probing.
LEMMA ProbeWorkStartInv == ASSUME ProbeInv, WorkStart PROVE ProbeInv'
<1>0. /\ ProbeTypeOK /\ ProbersHoldLocks /\ NoTriggerMissed /\ ActiveIsWorked /\ SleepDefers
      /\ ListsNameLiveDevices /\ BlockedIsQuiet
  BY DEF ProbeInv
<1> USE ProbeAssumption, <1>0 DEF WorkStart, SurroundingsUnchanged, Probers
<1>1. ProbeTypeOK'
  BY DEF ProbeTypeOK, ProberStates
<1>2. ProbersHoldLocks'
  BY DEF ProbeTypeOK, ProberStates, ProbersHoldLocks
<1>3. NoTriggerMissed'
  BY DEF ProbeTypeOK, ProberStates, ProbersHoldLocks, NoTriggerMissed, TriggerComing, HasSuppliers, Suppliers, TimedOut, SleepDefers
<1>4. ActiveIsWorked'
  BY DEF ProbeTypeOK, ProberStates, ActiveIsWorked
<1>5. SleepDefers'
  BY DEF ProbeTypeOK, ProberStates, SleepDefers
<1>6. ListsNameLiveDevices'
  BY DEF ProbeTypeOK, ProberStates, ProbersHoldLocks, ListsNameLiveDevices
<1>7. BlockedIsQuiet'
  BY DEF ProbeTypeOK, ProberStates, SleepDefers, BlockedIsQuiet, Counted
<1> QED BY <1>1, <1>2, <1>3, <1>4, <1>5, <1>6, <1>7 DEF ProbeInv

\* WorkEnd keeps the invariant of deferred probing.
LEMMA ProbeWorkEndInv == ASSUME ProbeInv, WorkEnd PROVE ProbeInv'
<1>0. /\ ProbeTypeOK /\ ProbersHoldLocks /\ NoTriggerMissed /\ ActiveIsWorked /\ SleepDefers
      /\ ListsNameLiveDevices /\ BlockedIsQuiet
  BY DEF ProbeInv
<1> USE ProbeAssumption, <1>0 DEF WorkEnd, Probers
<1>1. ProbeTypeOK'
  <2> USE DEF ProbeTypeOK
  <2>1. drv' \in [Devs -> {"none", "bound", "dying", "dead"}]
    OBVIOUS
  <2>2. listed' \in [Devs -> {"none", "pending", "active"}]
    OBVIOUS
  <2>3. prober' \in [Probers -> ProberStates]
    BY ProberFacts
  <2>4. work' \in [queued : BOOLEAN, running : BOOLEAN]
    OBVIOUS
  <2>5. deferAll' \in BOOLEAN
    OBVIOUS
  <2>6. /\ sleep' \in {"awake", "flush", "blocked", "kick"}
        /\ boot' \in {"initcalls", "enabled", "flush1", "flushed", "flush2", "running", "expired", "settled"}
    OBVIOUS
  <2>7. flush' \in [{"sleep", "boot"} -> Nat]
    OBVIOUS
  <2>8. spent' \in [sleeps : Nat, unbinds : Nat]
    OBVIOUS
  <2> QED BY <2>1, <2>2, <2>3, <2>4, <2>5, <2>6, <2>7, <2>8 DEF ProbeTypeOK
<1>2. ProbersHoldLocks'
  BY DEF ProbeTypeOK, ProberStates, ProbersHoldLocks
<1>3. NoTriggerMissed'
  BY DEF ProbeTypeOK, ProberStates, ProbersHoldLocks, NoTriggerMissed, TriggerComing, HasSuppliers, Suppliers, TimedOut, SleepDefers
<1>4. ActiveIsWorked'
  BY DEF ProbeTypeOK, ProberStates, ActiveIsWorked
<1>5. SleepDefers'
  BY DEF ProbeTypeOK, ProberStates, SleepDefers
<1>6. ListsNameLiveDevices'
  BY DEF ProbeTypeOK, ProberStates, ProbersHoldLocks, ListsNameLiveDevices
<1>7. BlockedIsQuiet'
  BY DEF ProbeTypeOK, ProberStates, SleepDefers, BlockedIsQuiet, Counted
<1> QED BY <1>1, <1>2, <1>3, <1>4, <1>5, <1>6, <1>7 DEF ProbeInv

\* WorkTake keeps the invariant of deferred probing.
LEMMA ProbeWorkTakeInv == ASSUME ProbeInv, NEW d \in Devs, WorkTake(d) PROVE ProbeInv'
<1>0. /\ ProbeTypeOK /\ ProbersHoldLocks /\ NoTriggerMissed /\ ActiveIsWorked /\ SleepDefers
      /\ ListsNameLiveDevices /\ BlockedIsQuiet
  BY DEF ProbeInv
<1> USE ProbeAssumption, <1>0 DEF WorkTake, SurroundingsUnchanged, NoProbe, Probers
<1>1. ProbeTypeOK'
  BY DEF ProbeTypeOK, ProberStates
<1>2. ProbersHoldLocks'
  BY DEF ProbeTypeOK, ProberStates, ProbersHoldLocks
<1>3. NoTriggerMissed'
  BY DEF ProbeTypeOK, ProberStates, ProbersHoldLocks, NoTriggerMissed, TriggerComing, HasSuppliers, Suppliers, TimedOut, SleepDefers
<1>4. ActiveIsWorked'
  BY DEF ProbeTypeOK, ProberStates, ActiveIsWorked
<1>5. SleepDefers'
  BY DEF ProbeTypeOK, ProberStates, SleepDefers
<1>6. ListsNameLiveDevices'
  BY DEF ProbeTypeOK, ProberStates, ProbersHoldLocks, ListsNameLiveDevices
<1>7. BlockedIsQuiet'
  BY DEF ProbeTypeOK, ProberStates, SleepDefers, BlockedIsQuiet, Counted
<1> QED BY <1>1, <1>2, <1>3, <1>4, <1>5, <1>6, <1>7 DEF ProbeInv

\* ReleaseDriver keeps the invariant of deferred probing.
LEMMA ProbeReleaseDriverInv == ASSUME ProbeInv, NEW d \in Devs, ReleaseDriver(d) PROVE ProbeInv'
<1>0. /\ ProbeTypeOK /\ ProbersHoldLocks /\ NoTriggerMissed /\ ActiveIsWorked /\ SleepDefers
      /\ ListsNameLiveDevices /\ BlockedIsQuiet
  BY DEF ProbeInv
<1> USE ProbeAssumption, <1>0 DEF ReleaseDriver, Locked, LinksBusy, Probers
<1>1. ProbeTypeOK'
  BY DEF ProbeTypeOK, ProberStates
<1>2. ProbersHoldLocks'
  BY DEF ProbeTypeOK, ProberStates, ProbersHoldLocks
<1>3. NoTriggerMissed'
  BY DEF ProbeTypeOK, ProberStates, ProbersHoldLocks, NoTriggerMissed, TriggerComing, HasSuppliers, Suppliers, TimedOut, SleepDefers
<1>4. ActiveIsWorked'
  BY DEF ProbeTypeOK, ProberStates, ActiveIsWorked
<1>5. SleepDefers'
  BY DEF ProbeTypeOK, ProberStates, SleepDefers
<1>6. ListsNameLiveDevices'
  BY DEF ProbeTypeOK, ProberStates, ProbersHoldLocks, ListsNameLiveDevices
<1>7. BlockedIsQuiet'
  BY DEF ProbeTypeOK, ProberStates, SleepDefers, BlockedIsQuiet, Counted
<1> QED BY <1>1, <1>2, <1>3, <1>4, <1>5, <1>6, <1>7 DEF ProbeInv

\* KillDevice keeps the invariant of deferred probing.
LEMMA ProbeKillDeviceInv == ASSUME ProbeInv, NEW d \in Devs, KillDevice(d) PROVE ProbeInv'
<1>0. /\ ProbeTypeOK /\ ProbersHoldLocks /\ NoTriggerMissed /\ ActiveIsWorked /\ SleepDefers
      /\ ListsNameLiveDevices /\ BlockedIsQuiet
  BY DEF ProbeInv
<1> USE ProbeAssumption, <1>0 DEF KillDevice, Locked, Probers
<1>1. ProbeTypeOK'
  BY DEF ProbeTypeOK, ProberStates
<1>2. ProbersHoldLocks'
  BY DEF ProbeTypeOK, ProberStates, ProbersHoldLocks
<1>3. NoTriggerMissed'
  BY DEF ProbeTypeOK, ProberStates, ProbersHoldLocks, NoTriggerMissed, TriggerComing, HasSuppliers, Suppliers, TimedOut, SleepDefers
<1>4. ActiveIsWorked'
  BY DEF ProbeTypeOK, ProberStates, ActiveIsWorked
<1>5. SleepDefers'
  BY DEF ProbeTypeOK, ProberStates, SleepDefers
<1>6. ListsNameLiveDevices'
  BY DEF ProbeTypeOK, ProberStates, ProbersHoldLocks, ListsNameLiveDevices
<1>7. BlockedIsQuiet'
  BY DEF ProbeTypeOK, ProberStates, SleepDefers, BlockedIsQuiet, Counted
<1> QED BY <1>1, <1>2, <1>3, <1>4, <1>5, <1>6, <1>7 DEF ProbeInv

\* DeferredProbeDel keeps the invariant of deferred probing.
LEMMA ProbeDeferredProbeDelInv == ASSUME ProbeInv, NEW d \in Devs, DeferredProbeDel(d) PROVE ProbeInv'
<1>0. /\ ProbeTypeOK /\ ProbersHoldLocks /\ NoTriggerMissed /\ ActiveIsWorked /\ SleepDefers
      /\ ListsNameLiveDevices /\ BlockedIsQuiet
  BY DEF ProbeInv
<1> USE ProbeAssumption, <1>0 DEF DeferredProbeDel, SurroundingsUnchanged, Probers
<1>1. ProbeTypeOK'
  BY DEF ProbeTypeOK, ProberStates
<1>2. ProbersHoldLocks'
  BY DEF ProbeTypeOK, ProberStates, ProbersHoldLocks
<1>3. NoTriggerMissed'
  BY DEF ProbeTypeOK, ProberStates, ProbersHoldLocks, NoTriggerMissed, TriggerComing, HasSuppliers, Suppliers, TimedOut, SleepDefers
<1>4. ActiveIsWorked'
  BY DEF ProbeTypeOK, ProberStates, ActiveIsWorked
<1>5. SleepDefers'
  BY DEF ProbeTypeOK, ProberStates, SleepDefers
<1>6. ListsNameLiveDevices'
  BY DEF ProbeTypeOK, ProberStates, ProbersHoldLocks, ListsNameLiveDevices
<1>7. BlockedIsQuiet'
  BY DEF ProbeTypeOK, ProberStates, SleepDefers, BlockedIsQuiet, Counted
<1> QED BY <1>1, <1>2, <1>3, <1>4, <1>5, <1>6, <1>7 DEF ProbeInv

\* Approach keeps the invariant of deferred probing.
LEMMA ProbeApproachInv == ASSUME ProbeInv, NEW p \in Probers, NEW d \in Devs, Approach(p, d) PROVE ProbeInv'
<1>0. /\ ProbeTypeOK /\ ProbersHoldLocks /\ NoTriggerMissed /\ ActiveIsWorked /\ SleepDefers
      /\ ListsNameLiveDevices /\ BlockedIsQuiet
  BY DEF ProbeInv
<1> USE ProbeAssumption, <1>0 DEF Approach, SurroundingsUnchanged, NoProbe, Locked, Leave, Probers
<1>a. \/ /\ prober' = [prober EXCEPT ![p] = [prober[p] EXCEPT !.pc = "probe", !.dev = d]]
         /\ drv[d] = "none"
      \/ prober' = [prober EXCEPT ![p] = NoProbe]
  OBVIOUS
<1>b. prober[p].pc \in {"idle", "wait"}
  OBVIOUS
<1>c. /\ \A q \in Probers : q # p => prober'[q] = prober[q]
      /\ prober'[p].pc \in {"probe", "idle"}
      /\ prober'[p].pc = "probe" => prober'[p].dev = d
  <2> HIDE DEF Approach
  <2>1. prober \in [Probers -> ProberStates]
    BY DEF ProbeTypeOK
  <2>2. [prober[p] EXCEPT !.pc = "probe", !.dev = d].pc = "probe"
        /\ [prober[p] EXCEPT !.pc = "probe", !.dev = d].dev = d /\ NoProbe.pc = "idle"
    BY <2>1 DEF ProberStates
  <2> HIDE DEF NoProbe
  <2> QED BY <1>a, <2>1, <2>2
<1>d. UNCHANGED <<drv, listed, work, deferAll, sleep, boot>>
  OBVIOUS
<1>1. ProbeTypeOK'
  <2> USE DEF ProbeTypeOK
  <2>1. drv' \in [Devs -> {"none", "bound", "dying", "dead"}]
    OBVIOUS
  <2>2. listed' \in [Devs -> {"none", "pending", "active"}]
    OBVIOUS
  <2>3. prober' \in [Probers -> ProberStates]
    <3>2. prober[p] \in ProberStates
      OBVIOUS
    <3> HIDE DEF NoProbe, ProberStates, Approach
    <3>3. /\ NoProbe \in ProberStates
          /\ [prober[p] EXCEPT !.pc = "probe", !.dev = d] \in ProberStates
      BY <3>2, ProberFacts
    <3> QED BY <1>a, <3>3
  <2>4. work' \in [queued : BOOLEAN, running : BOOLEAN]
    OBVIOUS
  <2>5. deferAll' \in BOOLEAN
    OBVIOUS
  <2>6. /\ sleep' \in {"awake", "flush", "blocked", "kick"}
        /\ boot' \in {"initcalls", "enabled", "flush1", "flushed", "flush2", "running", "expired", "settled"}
    OBVIOUS
  <2>7. flush' \in [{"sleep", "boot"} -> Nat]
    OBVIOUS
  <2>8. spent' \in [sleeps : Nat, unbinds : Nat]
    OBVIOUS
  <2> QED BY <2>1, <2>2, <2>3, <2>4, <2>5, <2>6, <2>7, <2>8 DEF ProbeTypeOK
<1>2. ProbersHoldLocks'
  BY DEF ProbeTypeOK, ProberStates, ProbersHoldLocks
<1>3. NoTriggerMissed'
  <2> HIDE DEF Approach
  <2> QED BY <1>b, <1>c, <1>d DEF ProbeTypeOK, ProberStates, ProbersHoldLocks, NoTriggerMissed, TriggerComing, HasSuppliers, Suppliers, TimedOut, SleepDefers
<1>4. ActiveIsWorked'
  BY DEF ProbeTypeOK, ProberStates, ActiveIsWorked
<1>5. SleepDefers'
  BY DEF ProbeTypeOK, ProberStates, SleepDefers
<1>6. ListsNameLiveDevices'
  <2> HIDE DEF Approach
  <2> QED BY <1>b, <1>c, <1>d DEF ProbeTypeOK, ProberStates, ProbersHoldLocks, ListsNameLiveDevices
<1>7. BlockedIsQuiet'
  BY DEF ProbeTypeOK, ProberStates, SleepDefers, BlockedIsQuiet, Counted
<1> QED BY <1>1, <1>2, <1>3, <1>4, <1>5, <1>6, <1>7 DEF ProbeInv

\* Probe keeps the invariant of deferred probing.
LEMMA ProbeProbeInv == ASSUME ProbeInv, NEW p \in Probers, Probe(p) PROVE ProbeInv'
<1>0. /\ ProbeTypeOK /\ ProbersHoldLocks /\ NoTriggerMissed /\ ActiveIsWorked /\ SleepDefers
      /\ ListsNameLiveDevices /\ BlockedIsQuiet
  BY DEF ProbeInv
<1> USE ProbeAssumption, <1>0 DEF Probe, SurroundingsUnchanged, Leave, Step, NoProbe, Probers
<1>1. ProbeTypeOK'
  <2> USE DEF ProbeTypeOK
  <2>1. drv' \in [Devs -> {"none", "bound", "dying", "dead"}]
    OBVIOUS
  <2>2. listed' \in [Devs -> {"none", "pending", "active"}]
    OBVIOUS
  <2>3. prober' \in [Probers -> ProberStates]
    <3>1. \/ prober' = [prober EXCEPT ![p] = NoProbe]
          \/ prober' = [prober EXCEPT ![p] = [prober[p] EXCEPT !.pc = "defer"]]
          \/ prober' = [prober EXCEPT ![p] = [prober[p] EXCEPT !.pc = "bind", !.moved = FALSE]]
      OBVIOUS
    <3>2. prober[p] \in ProberStates
      OBVIOUS
    <3> HIDE DEF NoProbe, ProberStates, Probe
    <3>3. /\ NoProbe \in ProberStates
          /\ [prober[p] EXCEPT !.pc = "defer"] \in ProberStates
          /\ [prober[p] EXCEPT !.pc = "bind", !.moved = FALSE] \in ProberStates
      BY <3>2, ProberFacts
    <3> QED BY <3>1, <3>3
  <2>4. work' \in [queued : BOOLEAN, running : BOOLEAN]
    OBVIOUS
  <2>5. deferAll' \in BOOLEAN
    OBVIOUS
  <2>6. /\ sleep' \in {"awake", "flush", "blocked", "kick"}
        /\ boot' \in {"initcalls", "enabled", "flush1", "flushed", "flush2", "running", "expired", "settled"}
    OBVIOUS
  <2>7. flush' \in [{"sleep", "boot"} -> Nat]
    OBVIOUS
  <2>8. spent' \in [sleeps : Nat, unbinds : Nat]
    OBVIOUS
  <2> QED BY <2>1, <2>2, <2>3, <2>4, <2>5, <2>6, <2>7, <2>8 DEF ProbeTypeOK
<1>2. ProbersHoldLocks'
  BY DEF ProbeTypeOK, ProberStates, ProbersHoldLocks
<1>3. NoTriggerMissed'
  BY DEF ProbeTypeOK, ProberStates, ProbersHoldLocks, NoTriggerMissed, TriggerComing, HasSuppliers, Suppliers, TimedOut, SleepDefers
<1>4. ActiveIsWorked'
  BY DEF ProbeTypeOK, ProberStates, ActiveIsWorked
<1>5. SleepDefers'
  BY DEF ProbeTypeOK, ProberStates, SleepDefers
<1>6. ListsNameLiveDevices'
  BY DEF ProbeTypeOK, ProberStates, ProbersHoldLocks, ListsNameLiveDevices
<1>7. BlockedIsQuiet'
  BY DEF ProbeTypeOK, ProberStates, SleepDefers, BlockedIsQuiet, Counted
<1> QED BY <1>1, <1>2, <1>3, <1>4, <1>5, <1>6, <1>7 DEF ProbeInv

\* Bind keeps the invariant of deferred probing.
LEMMA ProbeBindInv == ASSUME ProbeInv, NEW p \in Probers, Bind(p) PROVE ProbeInv'
<1>0. /\ ProbeTypeOK /\ ProbersHoldLocks /\ NoTriggerMissed /\ ActiveIsWorked /\ SleepDefers
      /\ ListsNameLiveDevices /\ BlockedIsQuiet
  BY DEF ProbeInv
<1> USE ProbeAssumption, <1>0 DEF Bind, SurroundingsUnchanged, Step, Probers
<1>1. ProbeTypeOK'
  <2> USE DEF ProbeTypeOK
  <2>1. drv' \in [Devs -> {"none", "bound", "dying", "dead"}]
    OBVIOUS
  <2>2. listed' \in [Devs -> {"none", "pending", "active"}]
    OBVIOUS
  <2>3. prober' \in [Probers -> ProberStates]
    BY ProberFacts
  <2>4. work' \in [queued : BOOLEAN, running : BOOLEAN]
    OBVIOUS
  <2>5. deferAll' \in BOOLEAN
    OBVIOUS
  <2>6. /\ sleep' \in {"awake", "flush", "blocked", "kick"}
        /\ boot' \in {"initcalls", "enabled", "flush1", "flushed", "flush2", "running", "expired", "settled"}
    OBVIOUS
  <2>7. flush' \in [{"sleep", "boot"} -> Nat]
    OBVIOUS
  <2>8. spent' \in [sleeps : Nat, unbinds : Nat]
    OBVIOUS
  <2> QED BY <2>1, <2>2, <2>3, <2>4, <2>5, <2>6, <2>7, <2>8 DEF ProbeTypeOK
<1>2. ProbersHoldLocks'
  BY DEF ProbeTypeOK, ProberStates, ProbersHoldLocks
<1>3. NoTriggerMissed'
  BY DEF ProbeTypeOK, ProberStates, ProbersHoldLocks, NoTriggerMissed, TriggerComing, HasSuppliers, Suppliers, TimedOut, SleepDefers
<1>4. ActiveIsWorked'
  BY DEF ProbeTypeOK, ProberStates, ActiveIsWorked
<1>5. SleepDefers'
  BY DEF ProbeTypeOK, ProberStates, SleepDefers
<1>6. ListsNameLiveDevices'
  BY DEF ProbeTypeOK, ProberStates, ProbersHoldLocks, ListsNameLiveDevices
<1>7. BlockedIsQuiet'
  BY DEF ProbeTypeOK, ProberStates, SleepDefers, BlockedIsQuiet, Counted
<1> QED BY <1>1, <1>2, <1>3, <1>4, <1>5, <1>6, <1>7 DEF ProbeInv

\* Unlist keeps the invariant of deferred probing.
LEMMA ProbeUnlistInv == ASSUME ProbeInv, NEW p \in Probers, Unlist(p) PROVE ProbeInv'
<1>0. /\ ProbeTypeOK /\ ProbersHoldLocks /\ NoTriggerMissed /\ ActiveIsWorked /\ SleepDefers
      /\ ListsNameLiveDevices /\ BlockedIsQuiet
  BY DEF ProbeInv
<1> USE ProbeAssumption, <1>0 DEF Unlist, SurroundingsUnchanged, Step, Probers
<1>1. ProbeTypeOK'
  <2> USE DEF ProbeTypeOK
  <2>1. drv' \in [Devs -> {"none", "bound", "dying", "dead"}]
    OBVIOUS
  <2>2. listed' \in [Devs -> {"none", "pending", "active"}]
    OBVIOUS
  <2>3. prober' \in [Probers -> ProberStates]
    BY ProberFacts
  <2>4. work' \in [queued : BOOLEAN, running : BOOLEAN]
    OBVIOUS
  <2>5. deferAll' \in BOOLEAN
    OBVIOUS
  <2>6. /\ sleep' \in {"awake", "flush", "blocked", "kick"}
        /\ boot' \in {"initcalls", "enabled", "flush1", "flushed", "flush2", "running", "expired", "settled"}
    OBVIOUS
  <2>7. flush' \in [{"sleep", "boot"} -> Nat]
    OBVIOUS
  <2>8. spent' \in [sleeps : Nat, unbinds : Nat]
    OBVIOUS
  <2> QED BY <2>1, <2>2, <2>3, <2>4, <2>5, <2>6, <2>7, <2>8 DEF ProbeTypeOK
<1>2. ProbersHoldLocks'
  BY DEF ProbeTypeOK, ProberStates, ProbersHoldLocks
<1>3. NoTriggerMissed'
  BY DEF ProbeTypeOK, ProberStates, ProbersHoldLocks, NoTriggerMissed, TriggerComing, HasSuppliers, Suppliers, TimedOut, SleepDefers
<1>4. ActiveIsWorked'
  BY DEF ProbeTypeOK, ProberStates, ActiveIsWorked
<1>5. SleepDefers'
  BY DEF ProbeTypeOK, ProberStates, SleepDefers
<1>6. ListsNameLiveDevices'
  BY DEF ProbeTypeOK, ProberStates, ProbersHoldLocks, ListsNameLiveDevices
<1>7. BlockedIsQuiet'
  BY DEF ProbeTypeOK, ProberStates, SleepDefers, BlockedIsQuiet, Counted
<1> QED BY <1>1, <1>2, <1>3, <1>4, <1>5, <1>6, <1>7 DEF ProbeInv

\* Fire keeps the invariant of deferred probing.
LEMMA ProbeFireInv == ASSUME ProbeInv, NEW p \in Probers, Fire(p) PROVE ProbeInv'
<1>0. /\ ProbeTypeOK /\ ProbersHoldLocks /\ NoTriggerMissed /\ ActiveIsWorked /\ SleepDefers
      /\ ListsNameLiveDevices /\ BlockedIsQuiet
  BY DEF ProbeInv
<1> USE ProbeAssumption, <1>0 DEF Fire, SurroundingsUnchanged, Trigger, NoProbe, ProbeEnabled, Probers
<1>1. ProbeTypeOK'
  <2> USE DEF ProbeTypeOK
  <2>1. drv' \in [Devs -> {"none", "bound", "dying", "dead"}]
    OBVIOUS
  <2>2. listed' \in [Devs -> {"none", "pending", "active"}]
    OBVIOUS
  <2>3. prober' \in [Probers -> ProberStates]
    <3>1. [prober EXCEPT ![p] = NoProbe] \in [Probers -> ProberStates]
      <4> HIDE DEF NoProbe, ProberStates, Fire
      <4> QED BY ProberFacts
    <3>2. Trigger([prober EXCEPT ![p] = NoProbe])
      OBVIOUS
    <3> HIDE DEF Trigger, Fire, NoProbe
    <3> QED BY <3>1, <3>2, TriggerType
  <2>4. work' \in [queued : BOOLEAN, running : BOOLEAN]
    BY ZenonT(40)
  <2>5. deferAll' \in BOOLEAN
    OBVIOUS
  <2>6. /\ sleep' \in {"awake", "flush", "blocked", "kick"}
        /\ boot' \in {"initcalls", "enabled", "flush1", "flushed", "flush2", "running", "expired", "settled"}
    OBVIOUS
  <2>7. flush' \in [{"sleep", "boot"} -> Nat]
    OBVIOUS
  <2>8. spent' \in [sleeps : Nat, unbinds : Nat]
    OBVIOUS
  <2> QED BY <2>1, <2>2, <2>3, <2>4, <2>5, <2>6, <2>7, <2>8 DEF ProbeTypeOK
<1>2. ProbersHoldLocks'
  BY DEF ProbeTypeOK, ProberStates, ProbersHoldLocks
<1>3. NoTriggerMissed'
  BY DEF ProbeTypeOK, ProberStates, ProbersHoldLocks, NoTriggerMissed, TriggerComing, HasSuppliers, Suppliers, TimedOut, SleepDefers
<1>4. ActiveIsWorked'
  BY DEF ProbeTypeOK, ProberStates, ActiveIsWorked
<1>5. SleepDefers'
  BY DEF ProbeTypeOK, ProberStates, SleepDefers
<1>6. ListsNameLiveDevices'
  BY DEF ProbeTypeOK, ProberStates, ProbersHoldLocks, ListsNameLiveDevices
<1>7. BlockedIsQuiet'
  BY DEF ProbeTypeOK, ProberStates, SleepDefers, BlockedIsQuiet, Counted
<1> QED BY <1>1, <1>2, <1>3, <1>4, <1>5, <1>6, <1>7 DEF ProbeInv

\* Defer keeps the invariant of deferred probing.
LEMMA ProbeDeferInv == ASSUME ProbeInv, NEW p \in Probers, Defer(p) PROVE ProbeInv'
<1>0. /\ ProbeTypeOK /\ ProbersHoldLocks /\ NoTriggerMissed /\ ActiveIsWorked /\ SleepDefers
      /\ ListsNameLiveDevices /\ BlockedIsQuiet
  BY DEF ProbeInv
<1> USE ProbeAssumption, <1>0 DEF Defer, SurroundingsUnchanged, Step, Probers
<1>1. ProbeTypeOK'
  <2> USE DEF ProbeTypeOK
  <2>1. drv' \in [Devs -> {"none", "bound", "dying", "dead"}]
    OBVIOUS
  <2>2. listed' \in [Devs -> {"none", "pending", "active"}]
    OBVIOUS
  <2>3. prober' \in [Probers -> ProberStates]
    BY ProberFacts
  <2>4. work' \in [queued : BOOLEAN, running : BOOLEAN]
    OBVIOUS
  <2>5. deferAll' \in BOOLEAN
    OBVIOUS
  <2>6. /\ sleep' \in {"awake", "flush", "blocked", "kick"}
        /\ boot' \in {"initcalls", "enabled", "flush1", "flushed", "flush2", "running", "expired", "settled"}
    OBVIOUS
  <2>7. flush' \in [{"sleep", "boot"} -> Nat]
    OBVIOUS
  <2>8. spent' \in [sleeps : Nat, unbinds : Nat]
    OBVIOUS
  <2> QED BY <2>1, <2>2, <2>3, <2>4, <2>5, <2>6, <2>7, <2>8 DEF ProbeTypeOK
<1>2. ProbersHoldLocks'
  BY DEF ProbeTypeOK, ProberStates, ProbersHoldLocks
<1>3. NoTriggerMissed'
  BY DEF ProbeTypeOK, ProberStates, ProbersHoldLocks, NoTriggerMissed, TriggerComing, HasSuppliers, Suppliers, TimedOut, SleepDefers
<1>4. ActiveIsWorked'
  BY DEF ProbeTypeOK, ProberStates, ActiveIsWorked
<1>5. SleepDefers'
  BY DEF ProbeTypeOK, ProberStates, SleepDefers
<1>6. ListsNameLiveDevices'
  BY DEF ProbeTypeOK, ProberStates, ProbersHoldLocks, ListsNameLiveDevices
<1>7. BlockedIsQuiet'
  BY DEF ProbeTypeOK, ProberStates, SleepDefers, BlockedIsQuiet, Counted
<1> QED BY <1>1, <1>2, <1>3, <1>4, <1>5, <1>6, <1>7 DEF ProbeInv

\* Recheck keeps the invariant of deferred probing.
LEMMA ProbeRecheckInv == ASSUME ProbeInv, NEW p \in Probers, Recheck(p) PROVE ProbeInv'
<1>0. /\ ProbeTypeOK /\ ProbersHoldLocks /\ NoTriggerMissed /\ ActiveIsWorked /\ SleepDefers
      /\ ListsNameLiveDevices /\ BlockedIsQuiet
  BY DEF ProbeInv
<1> USE ProbeAssumption, <1>0 DEF Recheck, SurroundingsUnchanged, Step, Leave, NoProbe, Probers
<1>1. ProbeTypeOK'
  <2> USE DEF ProbeTypeOK
  <2>1. drv' \in [Devs -> {"none", "bound", "dying", "dead"}]
    OBVIOUS
  <2>2. listed' \in [Devs -> {"none", "pending", "active"}]
    OBVIOUS
  <2>3. prober' \in [Probers -> ProberStates]
    <3>1. \/ prober' = [prober EXCEPT ![p] = NoProbe]
          \/ prober' = [prober EXCEPT ![p] = [prober[p] EXCEPT !.pc = "trigger"]]
      OBVIOUS
    <3>2. prober[p] \in ProberStates
      OBVIOUS
    <3> HIDE DEF NoProbe, ProberStates, Recheck
    <3>3. /\ NoProbe \in ProberStates
          /\ [prober[p] EXCEPT !.pc = "trigger"] \in ProberStates
      BY <3>2, ProberFacts
    <3> QED BY <3>1, <3>3
  <2>4. work' \in [queued : BOOLEAN, running : BOOLEAN]
    OBVIOUS
  <2>5. deferAll' \in BOOLEAN
    OBVIOUS
  <2>6. /\ sleep' \in {"awake", "flush", "blocked", "kick"}
        /\ boot' \in {"initcalls", "enabled", "flush1", "flushed", "flush2", "running", "expired", "settled"}
    OBVIOUS
  <2>7. flush' \in [{"sleep", "boot"} -> Nat]
    OBVIOUS
  <2>8. spent' \in [sleeps : Nat, unbinds : Nat]
    OBVIOUS
  <2> QED BY <2>1, <2>2, <2>3, <2>4, <2>5, <2>6, <2>7, <2>8 DEF ProbeTypeOK
<1>2. ProbersHoldLocks'
  BY DEF ProbeTypeOK, ProberStates, ProbersHoldLocks
<1>3. NoTriggerMissed'
  BY DEF ProbeTypeOK, ProberStates, ProbersHoldLocks, NoTriggerMissed, TriggerComing, HasSuppliers, Suppliers, TimedOut, SleepDefers
<1>4. ActiveIsWorked'
  BY DEF ProbeTypeOK, ProberStates, ActiveIsWorked
<1>5. SleepDefers'
  BY DEF ProbeTypeOK, ProberStates, SleepDefers
<1>6. ListsNameLiveDevices'
  BY DEF ProbeTypeOK, ProberStates, ProbersHoldLocks, ListsNameLiveDevices
<1>7. BlockedIsQuiet'
  BY DEF ProbeTypeOK, ProberStates, SleepDefers, BlockedIsQuiet, Counted
<1> QED BY <1>1, <1>2, <1>3, <1>4, <1>5, <1>6, <1>7 DEF ProbeInv

\* BlockProbing keeps the invariant of deferred probing.
LEMMA ProbeBlockProbingInv == ASSUME ProbeInv, BlockProbing PROVE ProbeInv'
<1>0. /\ ProbeTypeOK /\ ProbersHoldLocks /\ NoTriggerMissed /\ ActiveIsWorked /\ SleepDefers
      /\ ListsNameLiveDevices /\ BlockedIsQuiet
  BY DEF ProbeInv
<1> USE ProbeAssumption, <1>0 DEF BlockProbing, Owed, Probers
<1>1. ProbeTypeOK'
  BY DEF ProbeTypeOK, ProberStates
<1>2. ProbersHoldLocks'
  BY DEF ProbeTypeOK, ProberStates, ProbersHoldLocks
<1>3. NoTriggerMissed'
  BY DEF ProbeTypeOK, ProberStates, ProbersHoldLocks, NoTriggerMissed, TriggerComing, HasSuppliers, Suppliers, TimedOut, SleepDefers
<1>4. ActiveIsWorked'
  BY DEF ProbeTypeOK, ProberStates, ActiveIsWorked
<1>5. SleepDefers'
  BY DEF ProbeTypeOK, ProberStates, SleepDefers
<1>6. ListsNameLiveDevices'
  BY DEF ProbeTypeOK, ProberStates, ProbersHoldLocks, ListsNameLiveDevices
<1>7. BlockedIsQuiet'
  BY DEF ProbeTypeOK, ProberStates, SleepDefers, BlockedIsQuiet, Counted
<1> QED BY <1>1, <1>2, <1>3, <1>4, <1>5, <1>6, <1>7 DEF ProbeInv

\* SyncProbes keeps the invariant of deferred probing.
LEMMA ProbeSyncProbesInv == ASSUME ProbeInv, SyncProbes PROVE ProbeInv'
<1>0. /\ ProbeTypeOK /\ ProbersHoldLocks /\ NoTriggerMissed /\ ActiveIsWorked /\ SleepDefers
      /\ ListsNameLiveDevices /\ BlockedIsQuiet
  BY DEF ProbeInv
<1> USE ProbeAssumption, <1>0 DEF SyncProbes, Counted, Probers
<1>1. ProbeTypeOK'
  BY DEF ProbeTypeOK, ProberStates
<1>2. ProbersHoldLocks'
  BY DEF ProbeTypeOK, ProberStates, ProbersHoldLocks
<1>3. NoTriggerMissed'
  BY DEF ProbeTypeOK, ProberStates, ProbersHoldLocks, NoTriggerMissed, TriggerComing, HasSuppliers, Suppliers, TimedOut, SleepDefers
<1>4. ActiveIsWorked'
  BY DEF ProbeTypeOK, ProberStates, ActiveIsWorked
<1>5. SleepDefers'
  BY DEF ProbeTypeOK, ProberStates, SleepDefers
<1>6. ListsNameLiveDevices'
  BY DEF ProbeTypeOK, ProberStates, ProbersHoldLocks, ListsNameLiveDevices
<1>7. BlockedIsQuiet'
  BY DEF ProbeTypeOK, ProberStates, SleepDefers, BlockedIsQuiet, Counted
<1> QED BY <1>1, <1>2, <1>3, <1>4, <1>5, <1>6, <1>7 DEF ProbeInv

\* UnblockProbing keeps the invariant of deferred probing.
LEMMA ProbeUnblockProbingInv == ASSUME ProbeInv, UnblockProbing PROVE ProbeInv'
<1>0. /\ ProbeTypeOK /\ ProbersHoldLocks /\ NoTriggerMissed /\ ActiveIsWorked /\ SleepDefers
      /\ ListsNameLiveDevices /\ BlockedIsQuiet
  BY DEF ProbeInv
<1> USE ProbeAssumption, <1>0 DEF UnblockProbing, Probers
<1>1. ProbeTypeOK'
  BY DEF ProbeTypeOK, ProberStates
<1>2. ProbersHoldLocks'
  BY DEF ProbeTypeOK, ProberStates, ProbersHoldLocks
<1>3. NoTriggerMissed'
  BY DEF ProbeTypeOK, ProberStates, ProbersHoldLocks, NoTriggerMissed, TriggerComing, HasSuppliers, Suppliers, TimedOut, SleepDefers
<1>4. ActiveIsWorked'
  BY DEF ProbeTypeOK, ProberStates, ActiveIsWorked
<1>5. SleepDefers'
  BY DEF ProbeTypeOK, ProberStates, SleepDefers
<1>6. ListsNameLiveDevices'
  BY DEF ProbeTypeOK, ProberStates, ProbersHoldLocks, ListsNameLiveDevices
<1>7. BlockedIsQuiet'
  BY DEF ProbeTypeOK, ProberStates, SleepDefers, BlockedIsQuiet, Counted
<1> QED BY <1>1, <1>2, <1>3, <1>4, <1>5, <1>6, <1>7 DEF ProbeInv

\* UnblockTrigger keeps the invariant of deferred probing.
LEMMA ProbeUnblockTriggerInv == ASSUME ProbeInv, UnblockTrigger PROVE ProbeInv'
<1>0. /\ ProbeTypeOK /\ ProbersHoldLocks /\ NoTriggerMissed /\ ActiveIsWorked /\ SleepDefers
      /\ ListsNameLiveDevices /\ BlockedIsQuiet
  BY DEF ProbeInv
<1> USE ProbeAssumption, <1>0 DEF UnblockTrigger, Trigger, ProbeEnabled, Probers
<1>1. ProbeTypeOK'
  <2> USE DEF ProbeTypeOK
  <2>1. drv' \in [Devs -> {"none", "bound", "dying", "dead"}]
    OBVIOUS
  <2>2. listed' \in [Devs -> {"none", "pending", "active"}]
    OBVIOUS
  <2>3. prober' \in [Probers -> ProberStates]
    <3>1. Trigger(prober)
      OBVIOUS
    <3> HIDE DEF Trigger, UnblockTrigger
    <3> QED BY <3>1, TriggerType
  <2>4. work' \in [queued : BOOLEAN, running : BOOLEAN]
    OBVIOUS
  <2>5. deferAll' \in BOOLEAN
    OBVIOUS
  <2>6. /\ sleep' \in {"awake", "flush", "blocked", "kick"}
        /\ boot' \in {"initcalls", "enabled", "flush1", "flushed", "flush2", "running", "expired", "settled"}
    OBVIOUS
  <2>7. flush' \in [{"sleep", "boot"} -> Nat]
    OBVIOUS
  <2>8. spent' \in [sleeps : Nat, unbinds : Nat]
    OBVIOUS
  <2> QED BY <2>1, <2>2, <2>3, <2>4, <2>5, <2>6, <2>7, <2>8 DEF ProbeTypeOK
<1>2. ProbersHoldLocks'
  BY DEF ProbeTypeOK, ProberStates, ProbersHoldLocks
<1>3. NoTriggerMissed'
  BY DEF ProbeTypeOK, ProberStates, ProbersHoldLocks, NoTriggerMissed, TriggerComing, HasSuppliers, Suppliers, TimedOut, SleepDefers
<1>4. ActiveIsWorked'
  BY DEF ProbeTypeOK, ProberStates, ActiveIsWorked
<1>5. SleepDefers'
  BY DEF ProbeTypeOK, ProberStates, SleepDefers
<1>6. ListsNameLiveDevices'
  BY DEF ProbeTypeOK, ProberStates, ProbersHoldLocks, ListsNameLiveDevices
<1>7. BlockedIsQuiet'
  BY DEF ProbeTypeOK, ProberStates, SleepDefers, BlockedIsQuiet, Counted
<1> QED BY <1>1, <1>2, <1>3, <1>4, <1>5, <1>6, <1>7 DEF ProbeInv

\* BootEnable keeps the invariant of deferred probing.
LEMMA ProbeBootEnableInv == ASSUME ProbeInv, BootEnable PROVE ProbeInv'
<1>0. /\ ProbeTypeOK /\ ProbersHoldLocks /\ NoTriggerMissed /\ ActiveIsWorked /\ SleepDefers
      /\ ListsNameLiveDevices /\ BlockedIsQuiet
  BY DEF ProbeInv
<1> USE ProbeAssumption, <1>0 DEF BootEnable, BootStep, Probers
<1>1. ProbeTypeOK'
  BY DEF ProbeTypeOK, ProberStates
<1>2. ProbersHoldLocks'
  BY DEF ProbeTypeOK, ProberStates, ProbersHoldLocks
<1>3. NoTriggerMissed'
  BY DEF ProbeTypeOK, ProberStates, ProbersHoldLocks, NoTriggerMissed, TriggerComing, HasSuppliers, Suppliers, TimedOut, SleepDefers
<1>4. ActiveIsWorked'
  BY DEF ProbeTypeOK, ProberStates, ActiveIsWorked
<1>5. SleepDefers'
  BY DEF ProbeTypeOK, ProberStates, SleepDefers
<1>6. ListsNameLiveDevices'
  BY DEF ProbeTypeOK, ProberStates, ProbersHoldLocks, ListsNameLiveDevices
<1>7. BlockedIsQuiet'
  BY DEF ProbeTypeOK, ProberStates, SleepDefers, BlockedIsQuiet, Counted
<1> QED BY <1>1, <1>2, <1>3, <1>4, <1>5, <1>6, <1>7 DEF ProbeInv

\* BootTrigger keeps the invariant of deferred probing.
LEMMA ProbeBootTriggerInv == ASSUME ProbeInv, BootTrigger PROVE ProbeInv'
<1>0. /\ ProbeTypeOK /\ ProbersHoldLocks /\ NoTriggerMissed /\ ActiveIsWorked /\ SleepDefers
      /\ ListsNameLiveDevices /\ BlockedIsQuiet
  BY DEF ProbeInv
<1> USE ProbeAssumption, <1>0 DEF BootTrigger, BootStep, Trigger, ProbeEnabled, Probers
<1>1. ProbeTypeOK'
  <2> USE DEF ProbeTypeOK
  <2>1. drv' \in [Devs -> {"none", "bound", "dying", "dead"}]
    OBVIOUS
  <2>2. listed' \in [Devs -> {"none", "pending", "active"}]
    OBVIOUS
  <2>3. prober' \in [Probers -> ProberStates]
    <3>1. Trigger(prober)
      OBVIOUS
    <3> HIDE DEF Trigger, BootTrigger
    <3> QED BY <3>1, TriggerType
  <2>4. work' \in [queued : BOOLEAN, running : BOOLEAN]
    OBVIOUS
  <2>5. deferAll' \in BOOLEAN
    OBVIOUS
  <2>6. /\ sleep' \in {"awake", "flush", "blocked", "kick"}
        /\ boot' \in {"initcalls", "enabled", "flush1", "flushed", "flush2", "running", "expired", "settled"}
    OBVIOUS
  <2>7. flush' \in [{"sleep", "boot"} -> Nat]
    OBVIOUS
  <2>8. spent' \in [sleeps : Nat, unbinds : Nat]
    OBVIOUS
  <2> QED BY <2>1, <2>2, <2>3, <2>4, <2>5, <2>6, <2>7, <2>8 DEF ProbeTypeOK
<1>2. ProbersHoldLocks'
  BY DEF ProbeTypeOK, ProberStates, ProbersHoldLocks
<1>3. NoTriggerMissed'
  BY DEF ProbeTypeOK, ProberStates, ProbersHoldLocks, NoTriggerMissed, TriggerComing, HasSuppliers, Suppliers, TimedOut, SleepDefers
<1>4. ActiveIsWorked'
  BY DEF ProbeTypeOK, ProberStates, ActiveIsWorked
<1>5. SleepDefers'
  BY DEF ProbeTypeOK, ProberStates, SleepDefers
<1>6. ListsNameLiveDevices'
  BY DEF ProbeTypeOK, ProberStates, ProbersHoldLocks, ListsNameLiveDevices
<1>7. BlockedIsQuiet'
  BY DEF ProbeTypeOK, ProberStates, SleepDefers, BlockedIsQuiet, Counted
<1> QED BY <1>1, <1>2, <1>3, <1>4, <1>5, <1>6, <1>7 DEF ProbeInv

\* BootFlush keeps the invariant of deferred probing.
LEMMA ProbeBootFlushInv == ASSUME ProbeInv, BootFlush PROVE ProbeInv'
<1>0. /\ ProbeTypeOK /\ ProbersHoldLocks /\ NoTriggerMissed /\ ActiveIsWorked /\ SleepDefers
      /\ ListsNameLiveDevices /\ BlockedIsQuiet
  BY DEF ProbeInv
<1> USE ProbeAssumption, <1>0 DEF BootFlush, BootStep, Probers
<1>1. ProbeTypeOK'
  BY DEF ProbeTypeOK, ProberStates
<1>2. ProbersHoldLocks'
  BY DEF ProbeTypeOK, ProberStates, ProbersHoldLocks
<1>3. NoTriggerMissed'
  BY DEF ProbeTypeOK, ProberStates, ProbersHoldLocks, NoTriggerMissed, TriggerComing, HasSuppliers, Suppliers, TimedOut, SleepDefers
<1>4. ActiveIsWorked'
  BY DEF ProbeTypeOK, ProberStates, ActiveIsWorked
<1>5. SleepDefers'
  BY DEF ProbeTypeOK, ProberStates, SleepDefers
<1>6. ListsNameLiveDevices'
  BY DEF ProbeTypeOK, ProberStates, ProbersHoldLocks, ListsNameLiveDevices
<1>7. BlockedIsQuiet'
  BY DEF ProbeTypeOK, ProberStates, SleepDefers, BlockedIsQuiet, Counted
<1> QED BY <1>1, <1>2, <1>3, <1>4, <1>5, <1>6, <1>7 DEF ProbeInv

\* BootTimeout keeps the invariant of deferred probing.
LEMMA ProbeBootTimeoutInv == ASSUME ProbeInv, BootTimeout PROVE ProbeInv'
<1>0. /\ ProbeTypeOK /\ ProbersHoldLocks /\ NoTriggerMissed /\ ActiveIsWorked /\ SleepDefers
      /\ ListsNameLiveDevices /\ BlockedIsQuiet
  BY DEF ProbeInv
<1> USE ProbeAssumption, <1>0 DEF BootTimeout, BootStep, Probers
<1>1. ProbeTypeOK'
  BY DEF ProbeTypeOK, ProberStates
<1>2. ProbersHoldLocks'
  BY DEF ProbeTypeOK, ProberStates, ProbersHoldLocks
<1>3. NoTriggerMissed'
  BY DEF ProbeTypeOK, ProberStates, ProbersHoldLocks, NoTriggerMissed, TriggerComing, HasSuppliers, Suppliers, TimedOut, SleepDefers
<1>4. ActiveIsWorked'
  BY DEF ProbeTypeOK, ProberStates, ActiveIsWorked
<1>5. SleepDefers'
  BY DEF ProbeTypeOK, ProberStates, SleepDefers
<1>6. ListsNameLiveDevices'
  BY DEF ProbeTypeOK, ProberStates, ProbersHoldLocks, ListsNameLiveDevices
<1>7. BlockedIsQuiet'
  BY DEF ProbeTypeOK, ProberStates, SleepDefers, BlockedIsQuiet, Counted
<1> QED BY <1>1, <1>2, <1>3, <1>4, <1>5, <1>6, <1>7 DEF ProbeInv

\* Deferred probing misses no trigger, lists no device it should not and binds nothing
\* while probing is blocked, for any number of devices, sleeps and unbinds.
THEOREM ProbeIsSafe == ProbeSpec => []ProbeSafe
<1>1. ProbeInit => ProbeInv
  <2> SUFFICES ASSUME ProbeInit PROVE ProbeInv
    OBVIOUS
  <2> USE ProbeAssumption DEF ProbeInit, NoProbe, Probers
  <2>1. ProbeTypeOK
    BY DEF ProbeTypeOK, ProberStates
  <2>2. ProbersHoldLocks
    BY DEF ProbersHoldLocks
  <2>3. NoTriggerMissed /\ ActiveIsWorked
    BY DEF NoTriggerMissed, ActiveIsWorked
  <2>4. SleepDefers /\ ListsNameLiveDevices /\ BlockedIsQuiet
    BY DEF SleepDefers, ListsNameLiveDevices, BlockedIsQuiet
  <2> QED BY <2>1, <2>2, <2>3, <2>4 DEF ProbeInv
<1>2. ProbeInv /\ [ProbeNext]_probeVars => ProbeInv'
  <2>1. CASE UNCHANGED probeVars
    BY <2>1 DEF probeVars, ProbeInv, ProbeTypeOK, ProbersHoldLocks, NoTriggerMissed, TriggerComing,
       HasSuppliers, TimedOut, ActiveIsWorked, SleepDefers, ListsNameLiveDevices, BlockedIsQuiet, Counted
  <2> QED BY <2>1, ProbeWorkStartInv, ProbeWorkEndInv, ProbeWorkTakeInv, ProbeReleaseDriverInv,
     ProbeKillDeviceInv, ProbeDeferredProbeDelInv, ProbeApproachInv, ProbeProbeInv,
     ProbeBindInv, ProbeUnlistInv, ProbeFireInv, ProbeDeferInv, ProbeRecheckInv,
     ProbeBlockProbingInv, ProbeSyncProbesInv, ProbeUnblockProbingInv,
     ProbeUnblockTriggerInv, ProbeBootEnableInv, ProbeBootTriggerInv, ProbeBootFlushInv,
     ProbeBootTimeoutInv
     DEF ProbeNext
<1>3. ProbeInv => ProbeSafe
  <2> SUFFICES ASSUME ProbeInv PROVE PendingLacksSupplier
    BY DEF ProbeInv, ProbeSafe
  <2> QED BY DEF ProbeInv, NoTriggerMissed, TriggerComing, ActiveIsWorked, PendingLacksSupplier, Settled,
       NoProbe, Probers, ProbeTypeOK, ProberStates
<1> QED BY <1>1, <1>2, <1>3, PTL DEF ProbeSpec

-----------------------------------------------------------------------------
(* Start and stop of the modem                                             *)

\* The invariant of start and stop holds when nothing has been started.
LEMMA PasInitInv == PasInit => PasInv
<1> SUFFICES ASSUME PasInit PROVE PasInv
  OBVIOUS
<1> USE PasAssumption DEF PasInit, Off, Starting, Stopping, Idle, Proxies
<1>1. PasTypeOK
  <2>1. handler \in BOOLEAN /\ reported \in BOOLEAN
    BY Zenon
  <2>2. /\ helper \in [running : BOOLEAN, issued : BOOLEAN, started : BOOLEAN, stopped : BOOLEAN,
                       path : BOOLEAN, load : BOOLEAN, metadata : BOOLEAN]
        /\ remote \in [alive : BOOLEAN, ready : BOOLEAN, handed : BOOLEAN, crashed : BOOLEAN, asked : BOOLEAN]
    OBVIOUS
  <2>3. held \in [Proxies -> Int] /\ got \in 0 .. ProxyCount
    OBVIOUS
  <2> QED BY <2>1, <2>2, <2>3 DEF PasTypeOK
<1>2. PhasesOK /\ ReadyInStep
  BY DEF PhasesOK, ReadyInStep
<1>3. CrashInStep
  BY DEF CrashInStep
<1>4. ProxiesInStep
  BY DEF ProxiesInStep
<1>5. HandoverInStep
  BY DEF HandoverInStep, HandedOver
<1> QED BY <1>1, <1>2, <1>3, <1>4, <1>5 DEF PasInv

(* A prepared helper runs, and has neither completion. *)
LEMMA FreshFacts == ASSUME PasTypeOK PROVE Fresh.running = TRUE /\ Fresh.issued = FALSE /\ Fresh.started = FALSE
  BY DEF PasTypeOK, Fresh

\* Prepare keeps the invariant of start and stop.
LEMMA PasPrepareInv == ASSUME PasInv, Prepare PROVE PasInv'
<1>0. PasTypeOK /\ PhasesOK /\ ReadyInStep /\ CrashInStep /\ (Undisturbed => ProxiesInStep /\ HandoverInStep)
  BY DEF PasInv
<1> USE PasAssumption, <1>0 DEF Prepare, Fresh, Off, Starting, Stopping, Idle, Proxies
<1>1. PasTypeOK'
  <2> USE DEF PasTypeOK, PhasesOK
  <2>1. /\ op' \in {"off", "acquire", "image", "started", "unwind", "unprepare",
                    "stopping", "shutdown", "release", "release_failed"}
        /\ rstate' \in {"offline", "running", "crashed"}
    OBVIOUS
  <2>2. got' \in 0 .. ProxyCount /\ depth' \in Int
    OBVIOUS
  <2>3. held' \in [Proxies -> Int]
    OBVIOUS
  <2>4. helper' \in [running : BOOLEAN, issued : BOOLEAN, started : BOOLEAN, stopped : BOOLEAN,
                     path : BOOLEAN, load : BOOLEAN, metadata : BOOLEAN]
    OBVIOUS
  <2>5. remote' \in [alive : BOOLEAN, ready : BOOLEAN, handed : BOOLEAN, crashed : BOOLEAN, asked : BOOLEAN]
    OBVIOUS
  <2>6. handler' \in BOOLEAN
    OBVIOUS
  <2>7. reported' \in BOOLEAN
    OBVIOUS
  <2>8. /\ irqs' \subseteq {"fatal", "wdog", "ready", "stop", "handover"}
        /\ odd' \subseteq {"handover_before_failure", "failed_stop", "late_ready"}
    OBVIOUS
  <2> QED BY <2>1, <2>2, <2>3, <2>4, <2>5, <2>6, <2>7, <2>8 DEF PasTypeOK
<1>2. PhasesOK'
  BY DEF PasTypeOK, PhasesOK
<1>3. ReadyInStep'
  BY DEF PasTypeOK, PhasesOK, ReadyInStep
<1>4. CrashInStep'
  <2>1. CASE op' = "acquire"
    <3>1. helper' = Fresh /\ remote' = remote
      BY <2>1
    <3>2. helper'.running /\ ~remote'.crashed
      <4>1. remote = Off /\ Off.crashed = FALSE
        BY DEF PhasesOK
      <4> HIDE DEF Fresh, Prepare, Off
      <4> QED BY <3>1, <4>1, FreshFacts
    <3> QED BY <3>2 DEF CrashInStep
  <2>2. CASE op' = "off"
    BY <2>2 DEF PasTypeOK, PhasesOK, CrashInStep
  <2> QED BY <2>1, <2>2
<1>5. Undisturbed' => Undisturbed
  BY DEF Undisturbed
<1>6. ASSUME Undisturbed' PROVE ProxiesInStep'
  BY <1>5, <1>6 DEF PasTypeOK, PhasesOK, ProxiesInStep, HandoverInStep, HandedOver, Undisturbed
<1>7. ASSUME Undisturbed' PROVE HandoverInStep'
  <2>1. depth = 1 /\ ~handler /\ "handover" \notin irqs
    BY <1>5, <1>7 DEF HandoverInStep
  <2>2. CASE op' = "acquire"
    <3>1. helper' = Fresh /\ remote' = remote
      BY <2>2
    <3>2. ~helper'.issued /\ ~remote'.alive
      <4>1. remote = Off /\ Off.alive = FALSE
        BY DEF PhasesOK
      <4> HIDE DEF Fresh, Prepare, Off
      <4> QED BY <3>1, <4>1, FreshFacts
    <3>3. depth' = 0 /\ ~handler' /\ "handover" \notin irqs'
      BY <2>1, <2>2
    <3> QED BY <2>2, <3>2, <3>3 DEF HandoverInStep, HandedOver
  <2>3. CASE op' = "off"
    <3>1. depth' = 1 /\ ~handler' /\ ~remote'.alive /\ "handover" \notin irqs' /\ rstate' = "offline"
      BY <2>1, <2>3 DEF PasTypeOK, PhasesOK
    <3> QED BY <2>3, <3>1 DEF HandoverInStep, HandedOver
  <2> QED BY <2>2, <2>3
<1> QED BY <1>1, <1>2, <1>3, <1>4, <1>6, <1>7 DEF PasInv

\* Acquire keeps the invariant of start and stop.
LEMMA PasAcquireInv == ASSUME PasInv, Acquire PROVE PasInv'
<1>0. PasTypeOK /\ PhasesOK /\ ReadyInStep /\ CrashInStep /\ (Undisturbed => ProxiesInStep /\ HandoverInStep)
  BY DEF PasInv
<1> USE PasAssumption, <1>0 DEF Acquire, CoreUnchanged, Off, Starting, Stopping, Idle, Proxies
<1>1. PasTypeOK'
  BY DEF PasTypeOK, PhasesOK
<1>2. PhasesOK'
  BY DEF PasTypeOK, PhasesOK
<1>3. ReadyInStep'
  BY DEF PasTypeOK, PhasesOK, ReadyInStep
<1>4. CrashInStep'
  BY DEF PasTypeOK, PhasesOK, CrashInStep
<1>5. Undisturbed' => Undisturbed
  BY DEF Undisturbed
<1>6. ASSUME Undisturbed' PROVE ProxiesInStep'
  BY <1>5, <1>6 DEF PasTypeOK, PhasesOK, ProxiesInStep, HandoverInStep, HandedOver, Undisturbed
<1>7. ASSUME Undisturbed' PROVE HandoverInStep'
  BY <1>5, <1>7 DEF PasTypeOK, PhasesOK, HandoverInStep, HandedOver, Undisturbed
<1> QED BY <1>1, <1>2, <1>3, <1>4, <1>6, <1>7 DEF PasInv

\* Boot keeps the invariant of start and stop.
LEMMA PasBootInv == ASSUME PasInv, Boot PROVE PasInv'
<1>0. PasTypeOK /\ PhasesOK /\ ReadyInStep /\ CrashInStep /\ (Undisturbed => ProxiesInStep /\ HandoverInStep)
  BY DEF PasInv
<1> USE PasAssumption, <1>0 DEF Boot, CoreUnchanged, Off, Starting, Stopping, Idle, Proxies
<1>1. PasTypeOK'
  BY DEF PasTypeOK, PhasesOK
<1>2. PhasesOK'
  BY DEF PasTypeOK, PhasesOK
<1>3. ReadyInStep'
  BY DEF PasTypeOK, PhasesOK, ReadyInStep
<1>4. CrashInStep'
  BY DEF PasTypeOK, PhasesOK, CrashInStep
<1>5. Undisturbed' => Undisturbed
  BY DEF Undisturbed
<1>6. ASSUME Undisturbed' PROVE ProxiesInStep'
  BY <1>5, <1>6 DEF PasTypeOK, PhasesOK, ProxiesInStep, HandoverInStep, HandedOver, Undisturbed
<1>7. ASSUME Undisturbed' PROVE HandoverInStep'
  BY <1>5, <1>7 DEF PasTypeOK, PhasesOK, HandoverInStep, HandedOver, Undisturbed
<1> QED BY <1>1, <1>2, <1>3, <1>4, <1>6, <1>7 DEF PasInv

\* Started keeps the invariant of start and stop.
LEMMA PasStartedInv == ASSUME PasInv, Started PROVE PasInv'
<1>0. PasTypeOK /\ PhasesOK /\ ReadyInStep /\ CrashInStep /\ (Undisturbed => ProxiesInStep /\ HandoverInStep)
  BY DEF PasInv
<1> USE PasAssumption, <1>0 DEF Started, Off, Starting, Stopping, Idle, Proxies
<1>1. PasTypeOK'
  <2> USE DEF PasTypeOK, PhasesOK
  <2>1. /\ op' \in {"off", "acquire", "image", "started", "unwind", "unprepare",
                    "stopping", "shutdown", "release", "release_failed"}
        /\ rstate' \in {"offline", "running", "crashed"}
    OBVIOUS
  <2>2. got' \in 0 .. ProxyCount /\ depth' \in Int
    OBVIOUS
  <2>3. held' \in [Proxies -> Int]
    OBVIOUS
  <2>4. helper' \in [running : BOOLEAN, issued : BOOLEAN, started : BOOLEAN, stopped : BOOLEAN,
                     path : BOOLEAN, load : BOOLEAN, metadata : BOOLEAN]
    OBVIOUS
  <2>5. remote' \in [alive : BOOLEAN, ready : BOOLEAN, handed : BOOLEAN, crashed : BOOLEAN, asked : BOOLEAN]
    OBVIOUS
  <2>6. handler' \in BOOLEAN
    OBVIOUS
  <2>7. reported' \in BOOLEAN
    OBVIOUS
  <2>8. /\ irqs' \subseteq {"fatal", "wdog", "ready", "stop", "handover"}
        /\ odd' \subseteq {"handover_before_failure", "failed_stop", "late_ready"}
    OBVIOUS
  <2> QED BY <2>1, <2>2, <2>3, <2>4, <2>5, <2>6, <2>7, <2>8 DEF PasTypeOK
<1>2. PhasesOK'
  BY DEF PasTypeOK, PhasesOK
<1>3. ReadyInStep'
  BY DEF PasTypeOK, PhasesOK, ReadyInStep
<1>4. CrashInStep'
  BY DEF PasTypeOK, PhasesOK, CrashInStep
<1>5. Undisturbed' => Undisturbed
  BY DEF Undisturbed
<1>6. ASSUME Undisturbed' PROVE ProxiesInStep'
  BY <1>5, <1>6 DEF PasTypeOK, PhasesOK, ProxiesInStep, HandoverInStep, HandedOver, Undisturbed
<1>7. ASSUME Undisturbed' PROVE HandoverInStep'
  BY <1>5, <1>7 DEF PasTypeOK, PhasesOK, HandoverInStep, HandedOver, Undisturbed
<1> QED BY <1>1, <1>2, <1>3, <1>4, <1>6, <1>7 DEF PasInv

\* StartTimeout keeps the invariant of start and stop.
LEMMA PasStartTimeoutInv == ASSUME PasInv, StartTimeout PROVE PasInv'
<1>0. PasTypeOK /\ PhasesOK /\ ReadyInStep /\ CrashInStep /\ (Undisturbed => ProxiesInStep /\ HandoverInStep)
  BY DEF PasInv
<1> USE PasAssumption, <1>0 DEF StartTimeout, CoreUnchanged, Off, Starting, Stopping, Idle, Proxies
<1>1. PasTypeOK'
  BY DEF PasTypeOK, PhasesOK
<1>2. PhasesOK'
  BY DEF PasTypeOK, PhasesOK
<1>3. ReadyInStep'
  BY DEF PasTypeOK, PhasesOK, ReadyInStep
<1>4. CrashInStep'
  BY DEF PasTypeOK, PhasesOK, CrashInStep
<1>5. Undisturbed' => Undisturbed
  BY DEF Undisturbed
<1>6. ASSUME Undisturbed' PROVE ProxiesInStep'
  <2>1. ~remote.handed /\ remote.alive /\ got = ProxyCount
    BY <1>6 DEF PhasesOK, Undisturbed, PasTypeOK
  <2>2. ~HandedOver /\ Undisturbed
    BY <1>5, <1>6, <2>1 DEF HandoverInStep
  <2>3. \A x \in Proxies : held[x] = 1 /\ x <= got
    BY <2>1, <2>2 DEF ProxiesInStep
  <2> QED BY <2>1, <2>3 DEF ProxiesInStep
<1>7. ASSUME Undisturbed' PROVE HandoverInStep'
  BY <1>5, <1>7 DEF PasTypeOK, PhasesOK, HandoverInStep, HandedOver, Undisturbed
<1> QED BY <1>1, <1>2, <1>3, <1>4, <1>6, <1>7 DEF PasInv

\* Unwind keeps the invariant of start and stop.
LEMMA PasUnwindInv == ASSUME PasInv, Unwind PROVE PasInv'
<1>0. PasTypeOK /\ PhasesOK /\ ReadyInStep /\ CrashInStep /\ (Undisturbed => ProxiesInStep /\ HandoverInStep)
  BY DEF PasInv
<1> USE PasAssumption, <1>0 DEF Unwind, GiveBack, CoreUnchanged, Off, Starting, Stopping, Idle, Proxies
<1>1. PasTypeOK'
  BY DEF PasTypeOK, PhasesOK
<1>2. PhasesOK'
  BY DEF PasTypeOK, PhasesOK
<1>3. ReadyInStep'
  BY DEF PasTypeOK, PhasesOK, ReadyInStep
<1>4. CrashInStep'
  BY DEF PasTypeOK, PhasesOK, CrashInStep
<1>5. Undisturbed' => Undisturbed
  BY DEF Undisturbed
<1>6. ASSUME Undisturbed' PROVE ProxiesInStep'
  BY <1>5, <1>6 DEF PasTypeOK, PhasesOK, ProxiesInStep, HandoverInStep, HandedOver, Undisturbed
<1>7. ASSUME Undisturbed' PROVE HandoverInStep'
  BY <1>5, <1>7 DEF PasTypeOK, PhasesOK, HandoverInStep, HandedOver, Undisturbed
<1> QED BY <1>1, <1>2, <1>3, <1>4, <1>6, <1>7 DEF PasInv

\* UnprepareStart keeps the invariant of start and stop.
LEMMA PasUnprepareStartInv == ASSUME PasInv, UnprepareStart PROVE PasInv'
<1>0. PasTypeOK /\ PhasesOK /\ ReadyInStep /\ CrashInStep /\ (Undisturbed => ProxiesInStep /\ HandoverInStep)
  BY DEF PasInv
<1> USE PasAssumption, <1>0 DEF UnprepareStart, DisableIrq, CoreUnchanged, Off, Starting, Stopping, Idle, Proxies
<1>1. PasTypeOK'
  <2> USE DEF PasTypeOK, PhasesOK
  <2>1. /\ op' \in {"off", "acquire", "image", "started", "unwind", "unprepare",
                    "stopping", "shutdown", "release", "release_failed"}
        /\ rstate' \in {"offline", "running", "crashed"}
    OBVIOUS
  <2>2. got' \in 0 .. ProxyCount /\ depth' \in Int
    OBVIOUS
  <2>3. held' \in [Proxies -> Int]
    OBVIOUS
  <2>4. helper' \in [running : BOOLEAN, issued : BOOLEAN, started : BOOLEAN, stopped : BOOLEAN,
                     path : BOOLEAN, load : BOOLEAN, metadata : BOOLEAN]
    OBVIOUS
  <2>5. remote' \in [alive : BOOLEAN, ready : BOOLEAN, handed : BOOLEAN, crashed : BOOLEAN, asked : BOOLEAN]
    OBVIOUS
  <2>6. handler' \in BOOLEAN
    OBVIOUS
  <2>7. reported' \in BOOLEAN
    OBVIOUS
  <2>8. /\ irqs' \subseteq {"fatal", "wdog", "ready", "stop", "handover"}
        /\ odd' \subseteq {"handover_before_failure", "failed_stop", "late_ready"}
    OBVIOUS
  <2> QED BY <2>1, <2>2, <2>3, <2>4, <2>5, <2>6, <2>7, <2>8 DEF PasTypeOK
<1>2. PhasesOK'
  BY DEF PasTypeOK, PhasesOK
<1>3. ReadyInStep'
  BY DEF PasTypeOK, PhasesOK, ReadyInStep
<1>4. CrashInStep'
  BY DEF PasTypeOK, PhasesOK, CrashInStep
<1>5. Undisturbed' => Undisturbed
  BY DEF Undisturbed
<1>6. ASSUME Undisturbed' PROVE ProxiesInStep'
  BY <1>5, <1>6 DEF PasTypeOK, PhasesOK, ProxiesInStep, HandoverInStep, HandedOver, Undisturbed
<1>7. ASSUME Undisturbed' PROVE HandoverInStep'
  BY <1>5, <1>7 DEF PasTypeOK, PhasesOK, HandoverInStep, HandedOver, Undisturbed
<1> QED BY <1>1, <1>2, <1>3, <1>4, <1>6, <1>7 DEF PasInv

\* RequestStop keeps the invariant of start and stop.
LEMMA PasRequestStopInv == ASSUME PasInv, RequestStop PROVE PasInv'
<1>0. PasTypeOK /\ PhasesOK /\ ReadyInStep /\ CrashInStep /\ (Undisturbed => ProxiesInStep /\ HandoverInStep)
  BY DEF PasInv
<1> USE PasAssumption, <1>0 DEF RequestStop, CoreUnchanged, Off, Starting, Stopping, Idle, Proxies
<1>1. PasTypeOK'
  BY DEF PasTypeOK, PhasesOK
<1>2. PhasesOK'
  BY DEF PasTypeOK, PhasesOK
<1>3. ReadyInStep'
  BY DEF PasTypeOK, PhasesOK, ReadyInStep
<1>4. CrashInStep'
  BY DEF PasTypeOK, PhasesOK, CrashInStep
<1>5. Undisturbed' => Undisturbed
  BY DEF Undisturbed
<1>6. ASSUME Undisturbed' PROVE ProxiesInStep'
  BY <1>5, <1>6 DEF PasTypeOK, PhasesOK, ProxiesInStep, HandoverInStep, HandedOver, Undisturbed
<1>7. ASSUME Undisturbed' PROVE HandoverInStep'
  BY <1>5, <1>7 DEF PasTypeOK, PhasesOK, HandoverInStep, HandedOver, Undisturbed
<1> QED BY <1>1, <1>2, <1>3, <1>4, <1>6, <1>7 DEF PasInv

\* StopWaited keeps the invariant of start and stop.
LEMMA PasStopWaitedInv == ASSUME PasInv, StopWaited PROVE PasInv'
<1>0. PasTypeOK /\ PhasesOK /\ ReadyInStep /\ CrashInStep /\ (Undisturbed => ProxiesInStep /\ HandoverInStep)
  BY DEF PasInv
<1> USE PasAssumption, <1>0 DEF StopWaited, CoreUnchanged, Off, Starting, Stopping, Idle, Proxies
<1>1. PasTypeOK'
  BY ZenonT(40) DEF PasTypeOK, PhasesOK
<1>2. PhasesOK'
  BY DEF PasTypeOK, PhasesOK
<1>3. ReadyInStep'
  BY DEF PasTypeOK, PhasesOK, ReadyInStep
<1>4. CrashInStep'
  BY DEF PasTypeOK, PhasesOK, CrashInStep
<1>5. Undisturbed' => Undisturbed
  BY DEF Undisturbed
<1>6. ASSUME Undisturbed' PROVE ProxiesInStep'
  BY <1>5, <1>6 DEF PasTypeOK, PhasesOK, ProxiesInStep, HandoverInStep, HandedOver, Undisturbed
<1>7. ASSUME Undisturbed' PROVE HandoverInStep'
  BY <1>5, <1>7 DEF PasTypeOK, PhasesOK, HandoverInStep, HandedOver, Undisturbed
<1> QED BY <1>1, <1>2, <1>3, <1>4, <1>6, <1>7 DEF PasInv

\* Shutdown keeps the invariant of start and stop.
LEMMA PasShutdownInv == ASSUME PasInv, Shutdown PROVE PasInv'
<1>0. PasTypeOK /\ PhasesOK /\ ReadyInStep /\ CrashInStep /\ (Undisturbed => ProxiesInStep /\ HandoverInStep)
  BY DEF PasInv
<1> USE PasAssumption, <1>0 DEF Shutdown, CoreUnchanged, Off, Starting, Stopping, Idle, Proxies
<1>1. PasTypeOK'
  BY DEF PasTypeOK, PhasesOK
<1>2. PhasesOK'
  BY DEF PasTypeOK, PhasesOK
<1>3. ReadyInStep'
  BY DEF PasTypeOK, PhasesOK, ReadyInStep
<1>4. CrashInStep'
  BY DEF PasTypeOK, PhasesOK, CrashInStep
<1>5. Undisturbed' => Undisturbed
  BY DEF Undisturbed
<1>6. ASSUME Undisturbed' PROVE ProxiesInStep'
  BY <1>5, <1>6 DEF PasTypeOK, PhasesOK, ProxiesInStep, HandoverInStep, HandedOver, Undisturbed
<1>7. ASSUME Undisturbed' PROVE HandoverInStep'
  BY <1>5, <1>7 DEF PasTypeOK, PhasesOK, HandoverInStep, HandedOver, Undisturbed
<1> QED BY <1>1, <1>2, <1>3, <1>4, <1>6, <1>7 DEF PasInv

\* StopRelease keeps the invariant of start and stop.
LEMMA PasStopReleaseInv == ASSUME PasInv, StopRelease PROVE PasInv'
<1>0. PasTypeOK /\ PhasesOK /\ ReadyInStep /\ CrashInStep /\ (Undisturbed => ProxiesInStep /\ HandoverInStep)
  BY DEF PasInv
<1> USE PasAssumption, <1>0 DEF StopRelease, DisableIrq, GiveBack, HandoverDue, Off, Starting, Stopping, Idle, Proxies
<1>1. PasTypeOK'
  <2> USE DEF PasTypeOK, PhasesOK
  <2>1. /\ op' \in {"off", "acquire", "image", "started", "unwind", "unprepare",
                    "stopping", "shutdown", "release", "release_failed"}
        /\ rstate' \in {"offline", "running", "crashed"}
    OBVIOUS
  <2>2. got' \in 0 .. ProxyCount /\ depth' \in Int
    OBVIOUS
  <2>3. held' \in [Proxies -> Int]
    OBVIOUS
  <2>4. helper' \in [running : BOOLEAN, issued : BOOLEAN, started : BOOLEAN, stopped : BOOLEAN,
                     path : BOOLEAN, load : BOOLEAN, metadata : BOOLEAN]
    OBVIOUS
  <2>5. remote' \in [alive : BOOLEAN, ready : BOOLEAN, handed : BOOLEAN, crashed : BOOLEAN, asked : BOOLEAN]
    OBVIOUS
  <2>6. handler' \in BOOLEAN
    OBVIOUS
  <2>7. reported' \in BOOLEAN
    OBVIOUS
  <2>8. /\ irqs' \subseteq {"fatal", "wdog", "ready", "stop", "handover"}
        /\ odd' \subseteq {"handover_before_failure", "failed_stop", "late_ready"}
    OBVIOUS
  <2> QED BY <2>1, <2>2, <2>3, <2>4, <2>5, <2>6, <2>7, <2>8 DEF PasTypeOK
<1>2. PhasesOK'
  BY DEF PasTypeOK, PhasesOK
<1>3. ReadyInStep'
  BY DEF PasTypeOK, PhasesOK, ReadyInStep
<1>4. CrashInStep'
  BY DEF PasTypeOK, PhasesOK, CrashInStep
<1>5. Undisturbed' => Undisturbed
  BY DEF Undisturbed
<1>6. ASSUME Undisturbed' PROVE ProxiesInStep'
  BY <1>5, <1>6, SMTT(30) DEF PasTypeOK, PhasesOK, ProxiesInStep, HandoverInStep, HandedOver, Undisturbed
<1>7. ASSUME Undisturbed' PROVE HandoverInStep'
  BY <1>5, <1>7 DEF PasTypeOK, PhasesOK, HandoverInStep, HandedOver, Undisturbed
<1> QED BY <1>1, <1>2, <1>3, <1>4, <1>6, <1>7 DEF PasInv

\* CrashHandler keeps the invariant of start and stop.
LEMMA PasCrashHandlerInv == ASSUME PasInv, CrashHandler PROVE PasInv'
<1>0. PasTypeOK /\ PhasesOK /\ ReadyInStep /\ CrashInStep /\ (Undisturbed => ProxiesInStep /\ HandoverInStep)
  BY DEF PasInv
<1> USE PasAssumption, <1>0 DEF CrashHandler, Off, Starting, Stopping, Idle, Proxies
<1>1. PasTypeOK'
  <2> USE DEF PasTypeOK, PhasesOK
  <2>1. /\ op' \in {"off", "acquire", "image", "started", "unwind", "unprepare",
                    "stopping", "shutdown", "release", "release_failed"}
        /\ rstate' \in {"offline", "running", "crashed"}
    OBVIOUS
  <2>2. got' \in 0 .. ProxyCount /\ depth' \in Int
    OBVIOUS
  <2>3. held' \in [Proxies -> Int]
    OBVIOUS
  <2>4. helper' \in [running : BOOLEAN, issued : BOOLEAN, started : BOOLEAN, stopped : BOOLEAN,
                     path : BOOLEAN, load : BOOLEAN, metadata : BOOLEAN]
    OBVIOUS
  <2>5. remote' \in [alive : BOOLEAN, ready : BOOLEAN, handed : BOOLEAN, crashed : BOOLEAN, asked : BOOLEAN]
    OBVIOUS
  <2>6. handler' \in BOOLEAN
    OBVIOUS
  <2>7. reported' \in BOOLEAN
    OBVIOUS
  <2>8. /\ irqs' \subseteq {"fatal", "wdog", "ready", "stop", "handover"}
        /\ odd' \subseteq {"handover_before_failure", "failed_stop", "late_ready"}
    OBVIOUS
  <2> QED BY <2>1, <2>2, <2>3, <2>4, <2>5, <2>6, <2>7, <2>8 DEF PasTypeOK
<1>2. PhasesOK'
  BY DEF PasTypeOK, PhasesOK
<1>3. ReadyInStep'
  BY DEF PasTypeOK, PhasesOK, ReadyInStep
<1>4. CrashInStep'
  BY DEF PasTypeOK, PhasesOK, CrashInStep
<1>5. Undisturbed' => Undisturbed
  BY DEF Undisturbed
<1>6. ASSUME Undisturbed' PROVE ProxiesInStep'
  BY <1>5, <1>6 DEF PasTypeOK, PhasesOK, ProxiesInStep, HandoverInStep, HandedOver, Undisturbed
<1>7. ASSUME Undisturbed' PROVE HandoverInStep'
  BY <1>5, <1>7 DEF PasTypeOK, PhasesOK, HandoverInStep, HandedOver, Undisturbed
<1> QED BY <1>1, <1>2, <1>3, <1>4, <1>6, <1>7 DEF PasInv

\* Fatal keeps the invariant of start and stop.
LEMMA PasFatalInv == ASSUME PasInv, Fatal PROVE PasInv'
<1>0. PasTypeOK /\ PhasesOK /\ ReadyInStep /\ CrashInStep /\ (Undisturbed => ProxiesInStep /\ HandoverInStep)
  BY DEF PasInv
<1> USE PasAssumption, <1>0 DEF Fatal, IrqUnchanged, Off, Starting, Stopping, Idle, Proxies
<1>1. PasTypeOK'
  BY ZenonT(40) DEF PasTypeOK, PhasesOK
<1>2. PhasesOK'
  BY DEF PasTypeOK, PhasesOK
<1>3. ReadyInStep'
  BY DEF PasTypeOK, PhasesOK, ReadyInStep
<1>4. CrashInStep'
  BY DEF PasTypeOK, PhasesOK, CrashInStep
<1>5. Undisturbed' => Undisturbed
  BY DEF Undisturbed
<1>6. ASSUME Undisturbed' PROVE ProxiesInStep'
  BY <1>5, <1>6 DEF PasTypeOK, PhasesOK, ProxiesInStep, HandoverInStep, HandedOver, Undisturbed
<1>7. ASSUME Undisturbed' PROVE HandoverInStep'
  BY <1>5, <1>7 DEF PasTypeOK, PhasesOK, HandoverInStep, HandedOver, Undisturbed
<1> QED BY <1>1, <1>2, <1>3, <1>4, <1>6, <1>7 DEF PasInv

\* Watchdog keeps the invariant of start and stop.
LEMMA PasWatchdogInv == ASSUME PasInv, Watchdog PROVE PasInv'
<1>0. PasTypeOK /\ PhasesOK /\ ReadyInStep /\ CrashInStep /\ (Undisturbed => ProxiesInStep /\ HandoverInStep)
  BY DEF PasInv
<1> USE PasAssumption, <1>0 DEF Watchdog, IrqUnchanged, Off, Starting, Stopping, Idle, Proxies
<1>1. PasTypeOK'
  BY ZenonT(40) DEF PasTypeOK, PhasesOK
<1>2. PhasesOK'
  BY DEF PasTypeOK, PhasesOK
<1>3. ReadyInStep'
  BY DEF PasTypeOK, PhasesOK, ReadyInStep
<1>4. CrashInStep'
  BY DEF PasTypeOK, PhasesOK, CrashInStep
<1>5. Undisturbed' => Undisturbed
  BY DEF Undisturbed
<1>6. ASSUME Undisturbed' PROVE ProxiesInStep'
  BY <1>5, <1>6 DEF PasTypeOK, PhasesOK, ProxiesInStep, HandoverInStep, HandedOver, Undisturbed
<1>7. ASSUME Undisturbed' PROVE HandoverInStep'
  BY <1>5, <1>7 DEF PasTypeOK, PhasesOK, HandoverInStep, HandedOver, Undisturbed
<1> QED BY <1>1, <1>2, <1>3, <1>4, <1>6, <1>7 DEF PasInv

\* Ready keeps the invariant of start and stop.
LEMMA PasReadyInv == ASSUME PasInv, Ready PROVE PasInv'
<1>0. PasTypeOK /\ PhasesOK /\ ReadyInStep /\ CrashInStep /\ (Undisturbed => ProxiesInStep /\ HandoverInStep)
  BY DEF PasInv
<1> USE PasAssumption, <1>0 DEF Ready, IrqUnchanged, Off, Starting, Stopping, Idle, Proxies
<1>1. PasTypeOK'
  BY ZenonT(40) DEF PasTypeOK, PhasesOK
<1>2. PhasesOK'
  BY DEF PasTypeOK, PhasesOK
<1>3. ReadyInStep'
  BY DEF PasTypeOK, PhasesOK, ReadyInStep
<1>4. CrashInStep'
  BY DEF PasTypeOK, PhasesOK, CrashInStep
<1>5. Undisturbed' => Undisturbed
  BY DEF Undisturbed
<1>6. ASSUME Undisturbed' PROVE ProxiesInStep'
  BY <1>5, <1>6 DEF PasTypeOK, PhasesOK, ProxiesInStep, HandoverInStep, HandedOver, Undisturbed
<1>7. ASSUME Undisturbed' PROVE HandoverInStep'
  BY <1>5, <1>7 DEF PasTypeOK, PhasesOK, HandoverInStep, HandedOver, Undisturbed
<1> QED BY <1>1, <1>2, <1>3, <1>4, <1>6, <1>7 DEF PasInv

\* StopAck keeps the invariant of start and stop.
LEMMA PasStopAckInv == ASSUME PasInv, StopAck PROVE PasInv'
<1>0. PasTypeOK /\ PhasesOK /\ ReadyInStep /\ CrashInStep /\ (Undisturbed => ProxiesInStep /\ HandoverInStep)
  BY DEF PasInv
<1> USE PasAssumption, <1>0 DEF StopAck, IrqUnchanged, Off, Starting, Stopping, Idle, Proxies
<1>1. PasTypeOK'
  BY ZenonT(40) DEF PasTypeOK, PhasesOK
<1>2. PhasesOK'
  BY DEF PasTypeOK, PhasesOK
<1>3. ReadyInStep'
  BY DEF PasTypeOK, PhasesOK, ReadyInStep
<1>4. CrashInStep'
  BY DEF PasTypeOK, PhasesOK, CrashInStep
<1>5. Undisturbed' => Undisturbed
  BY DEF Undisturbed
<1>6. ASSUME Undisturbed' PROVE ProxiesInStep'
  BY <1>5, <1>6 DEF PasTypeOK, PhasesOK, ProxiesInStep, HandoverInStep, HandedOver, Undisturbed
<1>7. ASSUME Undisturbed' PROVE HandoverInStep'
  BY <1>5, <1>7 DEF PasTypeOK, PhasesOK, HandoverInStep, HandedOver, Undisturbed
<1> QED BY <1>1, <1>2, <1>3, <1>4, <1>6, <1>7 DEF PasInv

\* HandoverBegin keeps the invariant of start and stop.
LEMMA PasHandoverBeginInv == ASSUME PasInv, HandoverBegin PROVE PasInv'
<1>0. PasTypeOK /\ PhasesOK /\ ReadyInStep /\ CrashInStep /\ (Undisturbed => ProxiesInStep /\ HandoverInStep)
  BY DEF PasInv
<1> USE PasAssumption, <1>0 DEF HandoverBegin, HandoverDue, GiveBack, IrqUnchanged, Off, Starting, Stopping, Idle, Proxies
<1>1. PasTypeOK'
  <2> USE DEF PasTypeOK, PhasesOK
  <2>1. /\ op' \in {"off", "acquire", "image", "started", "unwind", "unprepare",
                    "stopping", "shutdown", "release", "release_failed"}
        /\ rstate' \in {"offline", "running", "crashed"}
    OBVIOUS
  <2>2. got' \in 0 .. ProxyCount /\ depth' \in Int
    OBVIOUS
  <2>3. held' \in [Proxies -> Int]
    OBVIOUS
  <2>4. helper' \in [running : BOOLEAN, issued : BOOLEAN, started : BOOLEAN, stopped : BOOLEAN,
                     path : BOOLEAN, load : BOOLEAN, metadata : BOOLEAN]
    OBVIOUS
  <2>5. remote' \in [alive : BOOLEAN, ready : BOOLEAN, handed : BOOLEAN, crashed : BOOLEAN, asked : BOOLEAN]
    OBVIOUS
  <2>6. handler' \in BOOLEAN
    OBVIOUS
  <2>7. reported' \in BOOLEAN
    OBVIOUS
  <2>8. /\ irqs' \subseteq {"fatal", "wdog", "ready", "stop", "handover"}
        /\ odd' \subseteq {"handover_before_failure", "failed_stop", "late_ready"}
    OBVIOUS
  <2> QED BY <2>1, <2>2, <2>3, <2>4, <2>5, <2>6, <2>7, <2>8 DEF PasTypeOK
<1>2. PhasesOK'
  BY DEF PasTypeOK, PhasesOK
<1>3. ReadyInStep'
  BY DEF PasTypeOK, PhasesOK, ReadyInStep
<1>4. CrashInStep'
  BY DEF PasTypeOK, PhasesOK, CrashInStep
<1>5. Undisturbed' => Undisturbed
  BY DEF Undisturbed
<1>6. ASSUME Undisturbed' PROVE ProxiesInStep'
  BY <1>5, <1>6 DEF PasTypeOK, PhasesOK, ProxiesInStep, HandoverInStep, HandedOver, Undisturbed
<1>7. ASSUME Undisturbed' PROVE HandoverInStep'
  BY <1>5, <1>7 DEF PasTypeOK, PhasesOK, HandoverInStep, HandedOver, Undisturbed
<1> QED BY <1>1, <1>2, <1>3, <1>4, <1>6, <1>7 DEF PasInv

\* HandoverEnd keeps the invariant of start and stop.
LEMMA PasHandoverEndInv == ASSUME PasInv, HandoverEnd PROVE PasInv'
<1>0. PasTypeOK /\ PhasesOK /\ ReadyInStep /\ CrashInStep /\ (Undisturbed => ProxiesInStep /\ HandoverInStep)
  BY DEF PasInv
<1> USE PasAssumption, <1>0 DEF HandoverEnd, IrqUnchanged, Off, Starting, Stopping, Idle, Proxies
<1>1. PasTypeOK'
  BY ZenonT(40) DEF PasTypeOK, PhasesOK
<1>2. PhasesOK'
  BY DEF PasTypeOK, PhasesOK
<1>3. ReadyInStep'
  BY DEF PasTypeOK, PhasesOK, ReadyInStep
<1>4. CrashInStep'
  BY DEF PasTypeOK, PhasesOK, CrashInStep
<1>5. Undisturbed' => Undisturbed
  BY DEF Undisturbed
<1>6. ASSUME Undisturbed' PROVE ProxiesInStep'
  BY <1>5, <1>6 DEF PasTypeOK, PhasesOK, ProxiesInStep, HandoverInStep, HandedOver, Undisturbed
<1>7. ASSUME Undisturbed' PROVE HandoverInStep'
  BY <1>5, <1>7 DEF PasTypeOK, PhasesOK, HandoverInStep, HandedOver, Undisturbed
<1> QED BY <1>1, <1>2, <1>3, <1>4, <1>6, <1>7 DEF PasInv

\* Remote keeps the invariant of start and stop.
LEMMA PasRemoteInv == ASSUME PasInv, Remote PROVE PasInv'
<1>0. PasTypeOK /\ PhasesOK /\ ReadyInStep /\ CrashInStep /\ (Undisturbed => ProxiesInStep /\ HandoverInStep)
  BY DEF PasInv
<1> USE PasAssumption, <1>0 DEF Remote, Off, Starting, Stopping, Idle, Proxies
<1>1. PasTypeOK'
  <2> USE DEF PasTypeOK, PhasesOK
  <2>1. /\ op' \in {"off", "acquire", "image", "started", "unwind", "unprepare",
                    "stopping", "shutdown", "release", "release_failed"}
        /\ rstate' \in {"offline", "running", "crashed"}
    OBVIOUS
  <2>2. got' \in 0 .. ProxyCount /\ depth' \in Int
    OBVIOUS
  <2>3. held' \in [Proxies -> Int]
    OBVIOUS
  <2>4. helper' \in [running : BOOLEAN, issued : BOOLEAN, started : BOOLEAN, stopped : BOOLEAN,
                     path : BOOLEAN, load : BOOLEAN, metadata : BOOLEAN]
    OBVIOUS
  <2>5. remote' \in [alive : BOOLEAN, ready : BOOLEAN, handed : BOOLEAN, crashed : BOOLEAN, asked : BOOLEAN]
    OBVIOUS
  <2>6. handler' \in BOOLEAN
    OBVIOUS
  <2>7. reported' \in BOOLEAN
    OBVIOUS
  <2>8. /\ irqs' \subseteq {"fatal", "wdog", "ready", "stop", "handover"}
        /\ odd' \subseteq {"handover_before_failure", "failed_stop", "late_ready"}
    OBVIOUS
  <2> QED BY <2>1, <2>2, <2>3, <2>4, <2>5, <2>6, <2>7, <2>8 DEF PasTypeOK
<1>2. PhasesOK'
  BY DEF PasTypeOK, PhasesOK
<1>3. ReadyInStep'
  BY DEF PasTypeOK, PhasesOK, ReadyInStep
<1>4. CrashInStep'
  BY DEF PasTypeOK, PhasesOK, CrashInStep
<1>5. Undisturbed' => Undisturbed
  BY DEF Undisturbed
<1>6. ASSUME Undisturbed' PROVE ProxiesInStep'
  BY <1>5, <1>6 DEF PasTypeOK, PhasesOK, ProxiesInStep, HandoverInStep, HandedOver, Undisturbed
<1>7. ASSUME Undisturbed' PROVE HandoverInStep'
  BY <1>5, <1>7 DEF PasTypeOK, PhasesOK, HandoverInStep, HandedOver, Undisturbed
<1> QED BY <1>1, <1>2, <1>3, <1>4, <1>6, <1>7 DEF PasInv

(* For any number of proxies and starts: each proxy is taken and given back *)
(* once per boot, an idle processor holds nothing, a start that succeeded   *)
(* means this boot signalled ready, and a crash reaches the core, but for   *)
(* the courses of events the properties name.                               *)
THEOREM PasIsSafe == PasSpec => []PasSafe
<1>1. PasInv /\ [PasNext]_pasVars => PasInv'
  <2> SUFFICES ASSUME PasInv, [PasNext]_pasVars PROVE PasInv'
    OBVIOUS
  <2>1. CASE UNCHANGED pasVars
    BY <2>1 DEF pasVars, PasInv, PasTypeOK, PhasesOK, ReadyInStep, CrashInStep, ProxiesInStep,
        HandoverInStep, HandedOver, Undisturbed, Starting, Stopping, Idle
  <2> QED BY <2>1, PasPrepareInv, PasAcquireInv, PasBootInv, PasStartedInv, PasStartTimeoutInv, PasUnwindInv,
        PasUnprepareStartInv, PasRequestStopInv, PasStopWaitedInv, PasShutdownInv, PasStopReleaseInv,
        PasCrashHandlerInv, PasFatalInv, PasWatchdogInv, PasReadyInv, PasStopAckInv, PasHandoverBeginInv,
        PasHandoverEndInv, PasRemoteInv DEF PasNext
<1>2. PasInv => PasSafe
  <2> SUFFICES ASSUME PasInv PROVE PasSafe
    OBVIOUS
  <2> USE DEF PasInv, Starting, Stopping, Idle
  <2>1. ProxiesBalanced
    BY DEF PasTypeOK, ProxiesInStep, ProxiesBalanced, Undisturbed
  <2>2. ProxiesUntilHandover
    <3> SUFFICES ASSUME remote.alive, odd = {}, ~remote.handed \/ "handover" \in irqs, NEW x \in Proxies
                 PROVE  held[x] = 1
      BY DEF ProxiesUntilHandover
    <3>1. Undisturbed /\ ~HandedOver
      BY DEF Undisturbed, HandoverInStep
    <3>2. op = "started" \/ (~Starting /\ ~Idle)
      BY DEF PhasesOK, Off, PasTypeOK
    <3> QED BY <3>1, <3>2 DEF ProxiesInStep
  <2>3. OfflineHoldsNothing
    BY DEF OfflineHoldsNothing, Undisturbed, ProxiesInStep, HandoverInStep, PhasesOK, PasTypeOK
  <2>4. StartedMeansReady
    BY DEF StartedMeansReady, ReadyInStep
  <2>5. CrashKnown
    BY DEF CrashKnown, CrashInStep
  <2> QED BY <2>1, <2>2, <2>3, <2>4, <2>5 DEF PasSafe
<1> QED BY <1>1, <1>2, PasInitInv, PTL DEF PasSpec

-----------------------------------------------------------------------------
(* CPU throttling                                                          *)

\* The throttle starts with the interrupt disabled once, by the core.
LEMMA LmhInitInv == LmhInit => LmhInv
<1> SUFFICES ASSUME LmhInit PROVE LmhInv
  OBVIOUS
<1>1. LmhTypeOK
  <2>1. cancel \in BOOLEAN
    BY Zenon DEF LmhInit
  <2>2. /\ policy = "absent" /\ lmhDepth = 1 /\ poll = "none" /\ thread = "idle" /\ plugs = 0 /\ mishap = {}
    BY DEF LmhInit
  <2> QED BY <2>1, <2>2, LmhAssumption DEF LmhTypeOK
<1>2. CoreDepth = 1 /\ WatcherDepth = 0
  BY DEF LmhInit, CoreDepth, WatcherDepth
<1>3. lmhDepth = 1
  BY DEF LmhInit
<1>4. lmhDepth >= CoreDepth + WatcherDepth
  BY <1>2, <1>3
<1>5. lmhDepth = CoreDepth + WatcherDepth
  BY <1>2, <1>3
<1> QED BY <1>1, <1>4, <1>5 DEF LmhInit, LmhInv

(* The interrupt thread and the poll: the watcher's part of the depth. *)
LEMMA LmhWatchInv ==
    ASSUME LmhInv, NEW throttled \in BOOLEAN,
           HandleIrq \/ SchedulePoll \/ Poll \/ Notify(throttled)
    PROVE  LmhInv'
<1> USE DEF LmhInv, LmhTypeOK, CoreDepth, WatcherDepth
<1>1. CASE HandleIrq
  BY <1>1 DEF HandleIrq
<1>2. CASE SchedulePoll
  BY <1>2 DEF SchedulePoll
<1>3. CASE Poll
  BY <1>3 DEF Poll
<1>4. CASE Notify(throttled)
  <2>1. /\ poll = "running" /\ poll' \in {"none", "pending"}
        /\ UNCHANGED <<policy, cancel, thread, plugs>>
    BY <1>4 DEF Notify
  <2>2. \/ poll' = "none" /\ mishap' = mishap \cup {"cut_short"} /\ lmhDepth' = lmhDepth
        \/ poll' = "pending" /\ UNCHANGED <<mishap, lmhDepth>>
        \/ poll' = "none" /\ lmhDepth' = lmhDepth - 1 /\ UNCHANGED mishap
    BY <1>4, <2>1 DEF Notify
  <2>3. thread = "idle" /\ WatcherDepth = 1 /\ CoreDepth \in {0, 1} /\ CoreDepth' = CoreDepth
    BY <2>1
  <2>4. WatcherDepth' = IF poll' = "none" THEN 0 ELSE 1
    BY <2>1, <2>3
  <2>5. LmhTypeOK'
    <3>1. lmhDepth' \in Nat
      <4> HIDE DEF CoreDepth, WatcherDepth
      <4> QED BY <2>2, <2>3
    <3>2. mishap' \subseteq {"late_interrupt", "cut_short"}
      BY <2>2
    <3> QED BY <2>1, <3>1, <3>2
  <2>6. /\ lmhDepth' >= CoreDepth' + WatcherDepth'
        /\ "cut_short" \notin mishap' => lmhDepth' = CoreDepth' + WatcherDepth'
    <3> HIDE DEF CoreDepth, WatcherDepth
    <3> QED BY <2>2, <2>3, <2>4
  <2> QED BY <2>1, <2>2, <2>3, <2>5, <2>6
<1> QED BY <1>1, <1>2, <1>3, <1>4

(* The calls of the cpufreq core: its own part of the depth. *)
LEMMA LmhCoreInv ==
    ASSUME LmhInv,
           CpuInit \/ PolicyReady \/ CpuOffline \/ CancelPoll \/ DisableThrottleIrq \/ CpuOnline \/ CpuExit
    PROVE  LmhInv'
<1> USE LmhAssumption DEF LmhInv, LmhTypeOK, CoreDepth, WatcherDepth, CoreCall
<1>1. CASE CpuInit
  <2>1. cancel' \in BOOLEAN
    BY <1>1, Zenon DEF CpuInit
  <2>2. /\ policy = "absent" /\ policy' = "starting" /\ poll = "none" /\ lmhDepth' = 1
        /\ UNCHANGED <<poll, plugs, mishap, thread>>
    BY <1>1, Zenon DEF CpuInit
  <2> QED BY <2>1, <2>2
<1>2. CASE PolicyReady
  BY <1>2 DEF PolicyReady
<1>3. CASE CpuOffline
  BY <1>3 DEF CpuOffline
<1>4. CASE CancelPoll
  BY <1>4 DEF CancelPoll
<1>5. CASE DisableThrottleIrq
  BY <1>5 DEF DisableThrottleIrq
<1>6. CASE CpuOnline \/ CpuExit
  BY <1>6 DEF CpuOnline, CpuExit
<1> QED BY <1>1, <1>2, <1>3, <1>4, <1>5, <1>6

(* For any number of offline calls: the interrupt and the poll take turns,  *)
(* an online policy is watched unless a poll was cut short, and an offline  *)
(* one is quiet unless an interrupt came late.                              *)
THEOREM LmhIsSafe == LmhSpec => []LmhSafe
<1>1. LmhInv /\ [LmhNext]_lmhVars => LmhInv'
  <2> SUFFICES ASSUME LmhInv, [LmhNext]_lmhVars PROVE LmhInv'
    OBVIOUS
  <2>1. CASE UNCHANGED lmhVars
    BY <2>1 DEF lmhVars, LmhInv, LmhTypeOK, CoreDepth, WatcherDepth
  <2> QED BY <2>1, LmhWatchInv, LmhCoreInv DEF LmhNext
<1>2. LmhInv => LmhSafe
  BY DEF LmhInv, LmhTypeOK, CoreDepth, WatcherDepth, LmhSafe, OneWatcher, OnlineIsWatched, OfflineIsQuiet
<1> QED BY <1>1, <1>2, LmhInitInv, PTL DEF LmhSpec

-----------------------------------------------------------------------------
(* The USB glue                                                            *)

(* The orders, spelled out. *)
LEMMA UsbOrders ==
    /\ DOMAIN ProbeOrder = 1 .. 6 /\ DOMAIN RemoveOrder = 1 .. 6 /\ Len(RemoveOrder) = 6 /\ Len(UnwindOrder) = 4
    /\ ProbeOrder[1] = "resets" /\ ProbeOrder[2] = "urs" /\ ProbeOrder[3] = "dwc3" /\ ProbeOrder[4] = "node"
    /\ ProbeOrder[5] = "added" /\ ProbeOrder[6] = "pm"
    /\ RemoveOrder[1] = "node" /\ RemoveOrder[2] = "added" /\ RemoveOrder[3] = "dwc3" /\ RemoveOrder[4] = "urs"
    /\ RemoveOrder[5] = "resets" /\ RemoveOrder[6] = "pm"
    /\ UnwindOrder[1] = "node" /\ UnwindOrder[2] = "dwc3" /\ UnwindOrder[3] = "urs" /\ UnwindOrder[4] = "resets"
    /\ UsbParts = {"resets", "urs", "dwc3", "node", "added", "pm"}
<1>1. /\ DOMAIN ProbeOrder = 1 .. 6
      /\ ProbeOrder[1] = "resets" /\ ProbeOrder[2] = "urs" /\ ProbeOrder[3] = "dwc3" /\ ProbeOrder[4] = "node"
      /\ ProbeOrder[5] = "added" /\ ProbeOrder[6] = "pm"
  BY DEF ProbeOrder
<1>2. UsbParts = {"resets", "urs", "dwc3", "node", "added", "pm"}
  <2> HIDE DEF ProbeOrder
  <2>1. \A i \in 1 .. 6 : i = 1 \/ i = 2 \/ i = 3 \/ i = 4 \/ i = 5 \/ i = 6
    OBVIOUS
  <2> QED BY <1>1, <2>1 DEF UsbParts
<1> QED BY <1>1, <1>2 DEF RemoveOrder, UnwindOrder

\* Probe, its failure and the removal move between the phases of the glue.
LEMMA UsbStart == ASSUME UsbInv, UsbProbe \/ UsbFail \/ UsbRemove PROVE UsbInv'
<1> USE UsbOrders DEF UsbInv, UsbTypeOK
<1>1. CASE UsbProbe
  BY <1>1 DEF UsbProbe, CoreOnLiveParent, CoreConfigured
<1>2. CASE UsbFail
  BY <1>2 DEF UsbFail, CoreOnLiveParent, CoreConfigured
<1>3. CASE UsbRemove
  BY <1>3 DEF UsbRemove, CoreOnLiveParent, CoreConfigured
<1> QED BY <1>1, <1>2, <1>3

\* The next part of the acquire order is taken only over the parts before it.
LEMMA UsbAcquireInv == ASSUME UsbInv, NEW p \in UsbParts, UsbAcquire(p) PROVE UsbInv'
<1> USE UsbOrders DEF UsbInv, UsbTypeOK
<1>1. PICK i \in 1 .. 6 : /\ p = ProbeOrder[i] /\ p \notin parts
                          /\ \A j \in 1 .. i - 1 : ProbeOrder[j] \in parts
  BY DEF UsbAcquire
<1>2. usb = "probe" /\ parts' = parts \cup {p} /\ usb' = (IF p = "pm" THEN "bound" ELSE usb) /\ UNCHANGED <<gone, core>>
  BY DEF UsbAcquire
<1>3. UsbTypeOK' /\ CoreOnLiveParent' /\ CoreConfigured'
  BY <1>2 DEF CoreOnLiveParent, CoreConfigured
<1>4. CASE p = "pm"
  <2>1. i = 6
    <3>1. i = 1 \/ i = 2 \/ i = 3 \/ i = 4 \/ i = 5 \/ i = 6
      BY <1>1
    <3> QED BY <1>1, <1>4, <3>1
  <2>2. {"resets", "urs", "dwc3", "node", "added"} \subseteq parts
    <3>1. \A j \in 1 .. 5 : ProbeOrder[j] \in parts
      BY <1>1, <2>1
    <3>2. 1 \in 1 .. 5 /\ 2 \in 1 .. 5 /\ 3 \in 1 .. 5 /\ 4 \in 1 .. 5 /\ 5 \in 1 .. 5
      OBVIOUS
    <3> QED BY <3>1, <3>2
  <2>3. parts' = UsbParts
    BY <1>2, <1>4, <2>2
  <2> QED BY <1>2, <1>3, <1>4, <2>3
<1>5. CASE p # "pm"
  <2>1. \A k, j \in 1 .. 6 : k < j /\ ProbeOrder[j] \in parts' => ProbeOrder[k] \in parts'
    <3> SUFFICES ASSUME NEW k \in 1 .. 6, NEW j \in 1 .. 6, k < j, ProbeOrder[j] \in parts'
                 PROVE  ProbeOrder[k] \in parts'
      OBVIOUS
    <3>1. CASE ProbeOrder[j] \in parts
      BY <1>2, <3>1
    <3>2. CASE ProbeOrder[j] = p
      <4>1. j = i
        BY <1>1, <3>2
      <4> QED BY <1>1, <1>2, <4>1
    <3> QED BY <1>2, <3>1, <3>2
  <2> QED BY <1>2, <1>3, <1>5, <2>1
<1> QED BY <1>4, <1>5

\* A failed probe gives its parts back from the top.
LEMMA UsbUnwindInv == ASSUME UsbInv, UsbUnwind PROVE UsbInv'
<1> USE UsbOrders DEF UsbInv, UsbTypeOK
<1>1. /\ usb = "unwind" /\ usb' = usb /\ gone < 4 /\ gone' = gone + 1 /\ core' = core
      /\ parts' = parts \ {UnwindOrder[gone + 1]}
  BY DEF UsbUnwind
<1>2. \A i \in 1 .. gone' : UnwindOrder[i] \notin parts'
  BY <1>1
<1>3. UsbTypeOK' /\ parts' \cap {"added", "pm"} = {} /\ gone' <= 4
  <2>1. UsbTypeOK /\ parts \cap {"added", "pm"} = {} /\ parts' \subseteq parts
    BY <1>1
  <2> HIDE UsbOrders DEF UsbInv
  <2> QED BY <1>1, <2>1
<1>4. CoreOnLiveParent' /\ CoreConfigured'
  BY <1>1 DEF CoreOnLiveParent, CoreConfigured
<1> QED BY <1>1, <1>2, <1>3, <1>4

\* So does a removal.
LEMMA UsbReleaseInv == ASSUME UsbInv, UsbRelease PROVE UsbInv'
<1> USE UsbOrders DEF UsbInv, UsbTypeOK
<1>1. /\ usb = "remove" /\ usb' = usb /\ gone \in 0 .. 5 /\ gone' = gone + 1
      /\ parts' = parts \ {RemoveOrder[gone + 1]}
      /\ core' = IF RemoveOrder[gone + 1] = "added" THEN "none" ELSE core
  BY DEF UsbRelease
<1>2. \A i \in 1 .. 6 : RemoveOrder[i] \in parts' <=> i > gone'
  BY <1>1
<1>3. CoreOnLiveParent'
  BY <1>1 DEF CoreOnLiveParent
<1>4. UsbTypeOK' /\ CoreConfigured' /\ gone' <= 6
  <2>1. UsbTypeOK /\ parts' \subseteq parts
    BY <1>1
  <2> HIDE UsbOrders DEF UsbInv
  <2> QED BY <1>1, <2>1 DEF CoreConfigured
<1> QED BY <1>1, <1>2, <1>3, <1>4

\* A glue that is out has given everything back.
LEMMA UsbOutInv == ASSUME UsbInv, UsbOut PROVE UsbInv'
<1> USE UsbOrders DEF UsbInv, UsbTypeOK
<1>1. parts = {} /\ core = "none"
  BY DEF UsbOut, CoreOnLiveParent
<1> QED BY <1>1 DEF UsbOut, CoreOnLiveParent, CoreConfigured

\* The host controller's core comes and goes within the glue's life.
LEMMA UsbCoreInv == ASSUME UsbInv, CoreBinds \/ CoreUnbinds PROVE UsbInv'
<1> USE UsbOrders DEF UsbInv, UsbTypeOK
<1>1. CASE CoreUnbinds
  BY <1>1 DEF CoreUnbinds, CoreOnLiveParent, CoreConfigured
<1>2. CASE CoreBinds
  <2>1. {"resets", "urs", "dwc3", "added"} \subseteq parts
    BY <1>2 DEF CoreBinds
  <2>2. "node" \in parts \/ usb = "remove"
    BY <1>2 DEF CoreBinds
  <2> QED BY <1>2, <2>1, <2>2 DEF CoreBinds, CoreOnLiveParent, CoreConfigured
<1> QED BY <1>1, <1>2

\* The USB glue that is out holds nothing, whatever failed on the way and however the core
\* was bound and unbound meanwhile.
THEOREM UsbIsSafe == UsbSpec => []UsbSafe
<1>1. UsbInit => UsbInv
  BY DEF UsbInit, UsbInv, UsbTypeOK, CoreOnLiveParent, CoreConfigured
<1>2. UsbInv /\ [UsbNext]_usbVars => UsbInv'
  <2> SUFFICES ASSUME UsbInv, [UsbNext]_usbVars PROVE UsbInv'
    OBVIOUS
  <2>1. CASE UNCHANGED usbVars
    BY <2>1 DEF usbVars, UsbInv, UsbTypeOK, CoreOnLiveParent, CoreConfigured
  <2> QED BY <2>1, UsbStart, UsbAcquireInv, UsbUnwindInv, UsbReleaseInv, UsbOutInv, UsbCoreInv DEF UsbNext
<1>3. UsbInv => UsbSafe
  BY DEF UsbInv, UsbSafe, UsbOutHoldsNothing
<1> QED BY <1>1, <1>2, <1>3, PTL DEF UsbSpec

-----------------------------------------------------------------------------
(* The Wi-Fi driver and its firmware                                       *)

\* The list's places are numbers, its events have a type and a server.
LEMMA PlacesFacts ==
    ASSUME WifiTypeOK
    PROVE  /\ told \in Nat /\ fw.gen \in Nat /\ wk.gen \in Nat
           /\ \A i \in Places : i \in Nat /\ i >= 1 /\ TypeAt(i) \in EventTypes /\ GenAt(i) \in Nat
<1> DEFINE S == EventTypes \X Nat
<1>1. events \in Seq(S)
  BY DEF WifiTypeOK
<1>2. \A e \in S : e[1] \in EventTypes /\ e[2] \in Nat
  OBVIOUS
<1> HIDE DEF S
<1>3. \A i \in Places : i \in Nat /\ i >= 1 /\ events[i] \in S
  BY <1>1 DEF Places
<1>4. told \in Nat /\ fw.gen \in Nat /\ wk.gen \in Nat
  BY DEF WifiTypeOK
<1> QED BY <1>2, <1>3, <1>4 DEF TypeAt, GenAt

\* What appending an event does to the list.
LEMMA Posted ==
    ASSUME WifiTypeOK, NEW type \in EventTypes, NEW gen \in Nat, Post(type, gen)
    PROVE  /\ events' \in Seq(EventTypes \X Nat)
           /\ \E k \in Nat :
                /\ Places' = Places \cup {k} /\ TypeAt(k)' = type /\ GenAt(k)' = gen
                /\ k >= 1 /\ \A i \in Places : i < k /\ TypeAt(i)' = TypeAt(i) /\ GenAt(i)' = GenAt(i)
<1> DEFINE S == EventTypes \X Nat
<1>1. events \in Seq(S) /\ <<type, gen>> \in S
  BY DEF WifiTypeOK
<1>2. events' = Append(events, <<type, gen>>)
  BY DEF Post
<1> HIDE DEF S
<1>3. /\ Len(events) \in Nat /\ Len(events') = Len(events) + 1
      /\ \A i \in 1 .. Len(events) : events'[i] = events[i]
      /\ events'[Len(events) + 1] = <<type, gen>>
      /\ events' \in Seq(S)
  BY <1>1, <1>2
<1>4. PICK k \in Nat : k = Len(events) + 1
  BY <1>3
<1>5. Places' = Places \cup {k} /\ k >= 1 /\ \A i \in Places : i < k
  BY <1>3, <1>4 DEF Places
<1>6. TypeAt(k)' = type /\ GenAt(k)' = gen
  BY <1>3, <1>4 DEF TypeAt, GenAt
<1>7. \A i \in Places : TypeAt(i)' = TypeAt(i) /\ GenAt(i)' = GenAt(i)
  BY <1>3 DEF Places, TypeAt, GenAt
<1>8. events' \in Seq(EventTypes \X Nat)
  BY <1>3 DEF S
<1> QED BY <1>5, <1>6, <1>7, <1>8

\* What taking the first event does to the list.
LEMMA Taken ==
    ASSUME WifiTypeOK, events # <<>>, events' = Tail(events)
    PROVE  /\ events' \in Seq(EventTypes \X Nat)
           /\ 1 \in Places /\ Head(events)[1] = TypeAt(1) /\ Head(events)[2] = GenAt(1)
           /\ \A i \in Places' :
                /\ i \in Nat /\ i + 1 \in Places /\ 1 < i + 1
                /\ TypeAt(i)' = TypeAt(i + 1) /\ GenAt(i)' = GenAt(i + 1)
           /\ \A j \in Places :
                1 < j => j - 1 \in Places' /\ TypeAt(j - 1)' = TypeAt(j) /\ GenAt(j - 1)' = GenAt(j)
<1> DEFINE S == EventTypes \X Nat
<1>1. events \in Seq(S)
  BY DEF WifiTypeOK
<1> HIDE DEF S
<1>2. /\ Len(events) \in Nat /\ Len(events) # 0 /\ Len(events') = Len(events) - 1
      /\ \A i \in 1 .. Len(events') : events'[i] = events[i + 1]
      /\ Head(events) = events[1]
      /\ events' \in Seq(S)
  BY <1>1
<1>3. \A i \in Places' : i \in Nat /\ i + 1 \in Places /\ 1 < i + 1 /\ events'[i] = events[i + 1]
  BY <1>2 DEF Places
<1>4. \A j \in Places : 1 < j => j - 1 \in Places' /\ events'[j - 1] = events[j]
  <2> SUFFICES ASSUME NEW j \in Places, 1 < j PROVE j - 1 \in Places' /\ events'[j - 1] = events[j]
    OBVIOUS
  <2>1. j \in Nat /\ j - 1 \in Places'
    BY <1>2 DEF Places
  <2>2. events'[j - 1] = events[(j - 1) + 1]
    BY <1>3, <2>1
  <2>3. (j - 1) + 1 = j
    BY <2>1
  <2> QED BY <2>1, <2>2, <2>3
<1>5. 1 \in Places /\ Head(events)[1] = TypeAt(1) /\ Head(events)[2] = GenAt(1)
  BY <1>2 DEF Places, TypeAt, GenAt
<1> QED BY <1>2, <1>3, <1>4, <1>5 DEF S, TypeAt, GenAt

\* ServerAppears keeps the invariant of the Wi-Fi driver.
LEMMA WifiServerAppearsInv == ASSUME WifiInv, ServerAppears PROVE WifiInv'
<1>0. /\ WifiTypeOK /\ OutIsEmpty /\ GensInOrder /\ ArrivesOnce /\ StageInStep /\ SkipInStep
      /\ MsaInStep /\ StopsInStep /\ WlanInStep /\ SkipOnlyIfReady /\ FirmwareHasMsa
  BY DEF WifiInv
<1> USE <1>0 DEF ServerAppears, aroundWorker, NoWork, Stages, WorkerSteps, EventTypes
<1>1. WifiTypeOK'
  BY DEF WifiTypeOK, WifiFlags
<1>2. OutIsEmpty'
  BY DEF WifiTypeOK, OutIsEmpty
<1>3. GensInOrder'
  <2>1. /\ fw'.gen = fw.gen + 1 /\ fw'.live /\ told' = told /\ events' = events /\ wk' = wk
        /\ snoc' = snoc
    OBVIOUS
  <2>2. /\ fw.gen \in Nat /\ wk.gen \in Nat /\ told \in Nat
        /\ \A i \in Places : GenAt(i) \in Nat
    BY DEF WifiTypeOK, Places, GenAt
  <2>3. /\ Places' = Places /\ \A i \in Places : TypeAt(i)' = TypeAt(i) /\ GenAt(i)' = GenAt(i)
    BY <2>1, Zenon DEF Places, TypeAt, GenAt
  <2>4. /\ told <= fw.gen /\ wk.gen <= fw.gen /\ \A i \in Places : GenAt(i) <= fw.gen
    BY DEF GensInOrder
  <2>5. /\ told <= fw'.gen /\ wk.gen <= fw'.gen /\ wk.gen # fw'.gen /\ fw'.gen # 0
        /\ \A i \in Places : GenAt(i) <= fw'.gen /\ GenAt(i) # fw'.gen
    <3>1. \A g, h \in Nat : g <= h => g <= h + 1 /\ g # h + 1 /\ h + 1 # 0
      OBVIOUS
    <3> QED BY <2>1, <2>2, <2>4, <3>1, Zenon
  <2> HIDE DEF ServerAppears
  <2> QED BY <2>1, <2>3, <2>5, Zenon DEF GensInOrder
<1>4. ArrivesOnce'
  BY DEF WifiTypeOK, OutIsEmpty, GensInOrder, ArrivesOnce, Arriving, Places, TypeAt, GenAt
<1>5. StageInStep'
  BY DEF WifiTypeOK, OutIsEmpty, GensInOrder, StageInStep, Arriving, Clear, Places, TypeAt, GenAt
<1>6. SkipInStep'
  BY DEF WifiTypeOK, OutIsEmpty, GensInOrder, ArrivesOnce, StageInStep, SkipInStep, Arriving, Clear, Places, TypeAt, GenAt
<1>7. MsaInStep'
  BY DEF WifiTypeOK, OutIsEmpty, MsaInStep, ExitOwed, Arriving, Clear, Places, TypeAt, GenAt
<1>8. StopsInStep'
  BY DEF WifiTypeOK, OutIsEmpty, GensInOrder, StopsInStep, Clear, Places, TypeAt, GenAt
<1>9. WlanInStep'
  BY DEF WifiTypeOK, OutIsEmpty, WlanInStep, Clear, WifiFlags
<1>10. SkipOnlyIfReady'
  BY DEF WifiTypeOK, SkipInStep, SkipOnlyIfReady, Clear
<1>11. FirmwareHasMsa'
  BY DEF WifiTypeOK, StageInStep, MsaInStep, FirmwareHasMsa, Clear
<1> QED BY <1>1, <1>2, <1>3, <1>4, <1>5, <1>6, <1>7, <1>8, <1>9, <1>10, <1>11 DEF WifiInv

\* ModemShutdown keeps the invariant of the Wi-Fi driver.
LEMMA WifiModemShutdownInv == ASSUME WifiInv, NEW b \in BOOLEAN, ModemShutdown(b) PROVE WifiInv'
<1>0. /\ WifiTypeOK /\ OutIsEmpty /\ GensInOrder /\ ArrivesOnce /\ StageInStep /\ SkipInStep
      /\ MsaInStep /\ StopsInStep /\ WlanInStep /\ SkipOnlyIfReady /\ FirmwareHasMsa
  BY DEF WifiInv
<1> USE <1>0 DEF ModemShutdown, aroundWorker, NoWork, Stages, WorkerSteps, EventTypes
<1>1. WifiTypeOK'
  BY ZenonT(40) DEF WifiTypeOK, WifiFlags
<1>2. OutIsEmpty'
  BY DEF WifiTypeOK, OutIsEmpty
<1>3. GensInOrder'
  BY DEF WifiTypeOK, OutIsEmpty, GensInOrder, Places, TypeAt, GenAt
<1>4. ArrivesOnce'
  BY DEF WifiTypeOK, OutIsEmpty, GensInOrder, ArrivesOnce, Arriving, Places, TypeAt, GenAt
<1>5. StageInStep'
  BY DEF WifiTypeOK, OutIsEmpty, GensInOrder, StageInStep, Arriving, Clear, Places, TypeAt, GenAt
<1>6. SkipInStep'
  BY DEF WifiTypeOK, OutIsEmpty, GensInOrder, ArrivesOnce, StageInStep, SkipInStep, Arriving, Clear, Places, TypeAt, GenAt
<1>7. MsaInStep'
  BY DEF WifiTypeOK, OutIsEmpty, MsaInStep, ExitOwed, Arriving, Clear, Places, TypeAt, GenAt
<1>8. StopsInStep'
  BY DEF WifiTypeOK, OutIsEmpty, GensInOrder, StopsInStep, Clear, Places, TypeAt, GenAt
<1>9. WlanInStep'
  BY DEF WifiTypeOK, OutIsEmpty, WlanInStep, Clear, WifiFlags
<1>10. SkipOnlyIfReady'
  BY DEF WifiTypeOK, SkipInStep, SkipOnlyIfReady, Clear
<1>11. FirmwareHasMsa'
  BY DEF WifiTypeOK, StageInStep, MsaInStep, FirmwareHasMsa, Clear
<1> QED BY <1>1, <1>2, <1>3, <1>4, <1>5, <1>6, <1>7, <1>8, <1>9, <1>10, <1>11 DEF WifiInv

\* NewServer keeps the invariant of the Wi-Fi driver.
LEMMA WifiNewServerInv == ASSUME WifiInv, NewServer PROVE WifiInv'
<1>0. /\ WifiTypeOK /\ OutIsEmpty /\ GensInOrder /\ ArrivesOnce /\ StageInStep /\ SkipInStep
      /\ MsaInStep /\ StopsInStep /\ WlanInStep /\ SkipOnlyIfReady /\ FirmwareHasMsa
  BY DEF WifiInv
<1> USE <1>0 DEF Stages, WorkerSteps, EventTypes
<1>n. /\ told \in Nat /\ fw.gen \in Nat /\ wk.gen \in Nat
      /\ \A i \in Places : i \in Nat /\ i >= 1 /\ TypeAt(i) \in EventTypes /\ GenAt(i) \in Nat
  BY PlacesFacts
<1>f. /\ snoc \notin {"out", "cancel"} /\ fw.live /\ told = 0 /\ told' = fw.gen
      /\ UNCHANGED <<snoc, lives, fw, orderly, wk, fwReady, msa, flags, wlan, windows>>
  BY DEF NewServer, HandleOpen
<1>q. Post("arrive", fw.gen)
  BY DEF NewServer
<1>s. events' \in Seq(EventTypes \X Nat)
  BY <1>n, <1>q, Posted
<1>p. PICK k \in Nat :
        /\ Places' = Places \cup {k} /\ TypeAt(k)' = "arrive" /\ GenAt(k)' = fw.gen
        /\ k >= 1 /\ \A i \in Places : i < k /\ TypeAt(i)' = TypeAt(i) /\ GenAt(i)' = GenAt(i)
  BY <1>n, <1>q, Posted
<1>1. WifiTypeOK'
  BY <1>f, <1>s DEF WifiTypeOK, WifiFlags
<1>2. OutIsEmpty'
  BY <1>f, <1>s DEF WifiTypeOK, OutIsEmpty
<1>3. GensInOrder'
  BY <1>f, <1>p, <1>n DEF OutIsEmpty, GensInOrder
<1>4. ArrivesOnce'
  <2>1. /\ \A i \in Places : TypeAt(i) = "arrive" => GenAt(i) < fw.gen
        /\ Arriving => wk.gen < fw.gen
        /\ told' # 0
    BY <1>f, <1>n DEF GensInOrder, ArrivesOnce
  <2>2. \A i, j \in Places' :
          i < j /\ TypeAt(i)' = "arrive" /\ TypeAt(j)' = "arrive" => GenAt(i)' < GenAt(j)'
    BY <1>p, <1>n, <2>1 DEF ArrivesOnce
  <2>3. Arriving' => \A i \in Places' : TypeAt(i)' = "arrive" => wk'.gen < GenAt(i)'
    BY <1>f, <1>p, <2>1 DEF ArrivesOnce, Arriving
  <2> QED BY <2>1, <2>2, <2>3 DEF ArrivesOnce
<1>5. StageInStep'
  BY <1>f, <1>p, <1>n DEF OutIsEmpty, GensInOrder, StageInStep, Arriving, Clear
<1>6. SkipInStep'
  BY <1>f, <1>p, <1>n DEF OutIsEmpty, GensInOrder, ArrivesOnce, StageInStep, SkipInStep, Arriving, Clear
<1>7. MsaInStep'
  <2>1. told' # 0
    BY <1>f, <1>n DEF GensInOrder
  <2>2. \A i \in Nat : ExitOwed(i)'
    BY <2>1 DEF ExitOwed
  <2>3. \A i \in Places' : i \in Nat
    BY <1>n, <1>p
  <2> QED BY <1>f, <2>2, <2>3 DEF MsaInStep
<1>8. StopsInStep'
  BY <1>f, <1>p, <1>n DEF OutIsEmpty, GensInOrder, StopsInStep, Clear
<1>9. WlanInStep'
  BY <1>f DEF WifiTypeOK, OutIsEmpty, WlanInStep, Clear, WifiFlags
<1>10. SkipOnlyIfReady'
  BY <1>f DEF WifiTypeOK, SkipInStep, SkipOnlyIfReady, Clear
<1>11. FirmwareHasMsa'
  BY <1>f DEF WifiTypeOK, StageInStep, MsaInStep, FirmwareHasMsa, Clear
<1> QED BY <1>1, <1>2, <1>3, <1>4, <1>5, <1>6, <1>7, <1>8, <1>9, <1>10, <1>11 DEF WifiInv

\* DelServer keeps the invariant of the Wi-Fi driver.
LEMMA WifiDelServerInv == ASSUME WifiInv, DelServer PROVE WifiInv'
<1>0. /\ WifiTypeOK /\ OutIsEmpty /\ GensInOrder /\ ArrivesOnce /\ StageInStep /\ SkipInStep
      /\ MsaInStep /\ StopsInStep /\ WlanInStep /\ SkipOnlyIfReady /\ FirmwareHasMsa
  BY DEF WifiInv
<1> USE <1>0 DEF Stages, WorkerSteps, EventTypes
<1>n. /\ told \in Nat /\ fw.gen \in Nat /\ wk.gen \in Nat
      /\ \A i \in Places : i \in Nat /\ i >= 1 /\ TypeAt(i) \in EventTypes /\ GenAt(i) \in Nat
  BY PlacesFacts
<1>f. /\ snoc \notin {"out", "cancel"} /\ told # 0 /\ (~fw.live \/ fw.gen # told) /\ told' = 0 /\ fwReady' = FALSE
      /\ windows \subseteq windows' /\ windows' \subseteq windows \cup {"dropped", "ready"}
      /\ wk.ready => "ready" \in windows'
      /\ UNCHANGED <<snoc, lives, fw, orderly, wk, msa, flags, wlan>>
  BY DEF DelServer, HandleOpen
<1>q. \/ InitDone /\ Post("exit", told)
      \/ ~InitDone /\ "dropped" \in windows' /\ events' = events
  BY DEF DelServer
<1>s. events' \in Seq(EventTypes \X Nat)
  BY <1>n, <1>q, Posted DEF WifiTypeOK
<1>p. PICK k \in Nat :
        /\ \/ Places' = Places \cup {k} /\ TypeAt(k)' = "exit" /\ GenAt(k)' = told
           \/ Places' = Places /\ "dropped" \in windows'
        /\ k >= 1 /\ \A i \in Places : i < k /\ TypeAt(i)' = TypeAt(i) /\ GenAt(i)' = GenAt(i)
  <2>1. CASE Post("exit", told)
    <3>1. PICK k \in Nat : /\ Places' = Places \cup {k} /\ TypeAt(k)' = "exit" /\ GenAt(k)' = told
                           /\ k >= 1 /\ \A i \in Places : i < k /\ TypeAt(i)' = TypeAt(i) /\ GenAt(i)' = GenAt(i)
      BY <1>n, <2>1, Posted
    <3> QED BY <3>1
  <2>2. CASE "dropped" \in windows' /\ events' = events
    <3>1. Len(events) + 1 \in Nat /\ Len(events) + 1 >= 1 /\ \A i \in Places : i < Len(events) + 1
      BY DEF WifiTypeOK, Places
    <3>2. Places' = Places /\ \A i \in Places : TypeAt(i)' = TypeAt(i) /\ GenAt(i)' = GenAt(i)
      BY <2>2 DEF Places, TypeAt, GenAt
    <3> QED BY <2>2, <3>1, <3>2
  <2> QED BY <1>q, <2>1, <2>2
<1>1. WifiTypeOK'
  <2> USE <1>f, <1>s DEF WifiTypeOK
  <2>1. /\ snoc' \in {"out", "lookup", "init_done", "up", "unregister", "deinit", "release", "cancel"}
        /\ lives' \in Nat /\ told' \in Nat /\ orderly' \subseteq Nat
    OBVIOUS
  <2>2. fw' \in [gen : Nat, live : BOOLEAN, stage : Stages]
    OBVIOUS
  <2>3. events' \in Seq(EventTypes \X Nat)
    OBVIOUS
  <2>4. wk' \in [pc : WorkerSteps, gen : Nat, ready : BOOLEAN]
    OBVIOUS
  <2>5. fwReady' \in BOOLEAN
    OBVIOUS
  <2>6. msa' \in BOOLEAN
    OBVIOUS
  <2>7. flags' \subseteq WifiFlags /\ wlan' \in {"out", "up"}
    OBVIOUS
  <2>8. windows' \subseteq {"restarted", "ready", "dropped", "crossed", "taken_back", "left", "late",
                            "probe_failed"}
    OBVIOUS
  <2> QED BY <2>1, <2>2, <2>3, <2>4, <2>5, <2>6, <2>7, <2>8 DEF WifiTypeOK
<1>2. OutIsEmpty'
  BY <1>f, <1>s DEF WifiTypeOK, OutIsEmpty
<1>3. GensInOrder'
  BY <1>f, <1>p, <1>n DEF OutIsEmpty, GensInOrder
<1>4. ArrivesOnce'
  BY <1>f, <1>p, <1>n DEF OutIsEmpty, GensInOrder, ArrivesOnce, Arriving
<1>5. StageInStep'
  BY <1>f, <1>p, <1>n DEF OutIsEmpty, GensInOrder, StageInStep, Arriving, Clear
<1>6. SkipInStep'
  BY <1>f, <1>p, <1>n DEF OutIsEmpty, GensInOrder, ArrivesOnce, StageInStep, SkipInStep, Arriving, Clear
<1>7. MsaInStep'
  <2>1. CASE "dropped" \in windows'
    BY <1>f, <2>1 DEF MsaInStep, Clear
  <2>2. CASE Places' = Places \cup {k} /\ TypeAt(k)' = "exit"
    <3>1. \A i \in Nat : i < k => ExitOwed(i)'
      BY <2>2 DEF ExitOwed
    <3>2. ExitOwed(0)' /\ \A i \in Places' : TypeAt(i)' = "arrive" => ExitOwed(i)'
      BY <1>p, <1>n, <2>2, <3>1
    <3> QED BY <1>f, <3>2 DEF MsaInStep
  <2> QED BY <1>p, <2>1, <2>2
<1>8. StopsInStep'
  BY <1>f, <1>p, <1>n DEF OutIsEmpty, GensInOrder, StopsInStep, Clear
<1>9. WlanInStep'
  BY <1>f DEF WifiTypeOK, OutIsEmpty, WlanInStep, Clear, WifiFlags
<1>10. SkipOnlyIfReady'
  BY <1>f DEF WifiTypeOK, SkipInStep, SkipOnlyIfReady, Clear
<1>11. FirmwareHasMsa'
  BY <1>f DEF WifiTypeOK, StageInStep, MsaInStep, FirmwareHasMsa, Clear
<1> QED BY <1>1, <1>2, <1>3, <1>4, <1>5, <1>6, <1>7, <1>8, <1>9, <1>10, <1>11 DEF WifiInv

\* Indication keeps the invariant of the Wi-Fi driver.
LEMMA WifiIndicationInv == ASSUME WifiInv, NEW from \in Stages \ {"fresh"}, NEW to \in Stages \ {"fresh"}, NEW type \in EventTypes \ {"arrive", "exit"}, Indication(from, to, type) PROVE WifiInv'
<1>0. /\ WifiTypeOK /\ OutIsEmpty /\ GensInOrder /\ ArrivesOnce /\ StageInStep /\ SkipInStep
      /\ MsaInStep /\ StopsInStep /\ WlanInStep /\ SkipOnlyIfReady /\ FirmwareHasMsa
  BY DEF WifiInv
<1> USE <1>0 DEF Stages, WorkerSteps, EventTypes
<1>n. /\ told \in Nat /\ fw.gen \in Nat /\ wk.gen \in Nat
      /\ \A i \in Places : i \in Nat /\ i >= 1 /\ TypeAt(i) \in EventTypes /\ GenAt(i) \in Nat
  BY PlacesFacts
<1>f. /\ fw.live /\ fw.stage # "fresh" /\ fw' \in [gen : Nat, live : BOOLEAN, stage : Stages]
      /\ fw'.live /\ fw'.gen = fw.gen /\ fw'.stage # "fresh"
      /\ UNCHANGED <<snoc, lives, orderly, told, wk, fwReady, msa, flags, wlan, windows>>
  BY DEF Indication, WifiTypeOK
<1>q. \/ HandleOpen /\ told = fw.gen /\ Post(type, fw.gen)
      \/ events' = events
  BY DEF Indication
<1>s. events' \in Seq(EventTypes \X Nat) /\ (snoc = "out" => events' = events)
  <2>1. HandleOpen => snoc # "out"
    BY DEF HandleOpen
  <2> QED BY <1>n, <1>q, <2>1, Posted DEF WifiTypeOK
<1>p. PICK k \in Nat :
        /\ \/ Places' = Places \cup {k} /\ TypeAt(k)' = type /\ GenAt(k)' = fw.gen /\ told = fw.gen
           \/ Places' = Places
        /\ k >= 1 /\ \A i \in Places : i < k /\ TypeAt(i)' = TypeAt(i) /\ GenAt(i)' = GenAt(i)
  <2>1. CASE told = fw.gen /\ Post(type, fw.gen)
    <3>1. PICK k \in Nat : /\ Places' = Places \cup {k} /\ TypeAt(k)' = type /\ GenAt(k)' = fw.gen
                           /\ k >= 1 /\ \A i \in Places : i < k /\ TypeAt(i)' = TypeAt(i) /\ GenAt(i)' = GenAt(i)
      BY <1>n, <2>1, Posted
    <3> QED BY <2>1, <3>1
  <2>2. CASE events' = events
    <3>1. Len(events) + 1 \in Nat /\ Len(events) + 1 >= 1 /\ \A i \in Places : i < Len(events) + 1
      BY DEF WifiTypeOK, Places
    <3>2. Places' = Places /\ \A i \in Places : TypeAt(i)' = TypeAt(i) /\ GenAt(i)' = GenAt(i)
      BY <2>2 DEF Places, TypeAt, GenAt
    <3> QED BY <3>1, <3>2
  <2> QED BY <1>q, <2>1, <2>2
<1>1. WifiTypeOK'
  BY <1>f, <1>s DEF WifiTypeOK, WifiFlags
<1>2. OutIsEmpty'
  BY <1>f, <1>s DEF WifiTypeOK, OutIsEmpty
<1>3. GensInOrder'
  BY <1>f, <1>p, <1>n DEF OutIsEmpty, GensInOrder
<1>4. ArrivesOnce'
  BY <1>f, <1>p, <1>n DEF OutIsEmpty, GensInOrder, ArrivesOnce, Arriving
<1>5. StageInStep'
  BY <1>f, <1>p, <1>n DEF OutIsEmpty, GensInOrder, StageInStep, Arriving, Clear
<1>6. SkipInStep'
  BY <1>f, <1>p, <1>n DEF OutIsEmpty, GensInOrder, ArrivesOnce, StageInStep, SkipInStep, Arriving, Clear
<1>7. MsaInStep'
  BY <1>f, <1>p, <1>n DEF OutIsEmpty, MsaInStep, ExitOwed, Arriving, Clear
<1>8. StopsInStep'
  BY <1>f, <1>p, <1>n DEF OutIsEmpty, GensInOrder, StopsInStep, Clear
<1>9. WlanInStep'
  BY <1>f DEF WifiTypeOK, OutIsEmpty, WlanInStep, Clear, WifiFlags
<1>10. SkipOnlyIfReady'
  BY <1>f DEF WifiTypeOK, SkipInStep, SkipOnlyIfReady, Clear
<1>11. FirmwareHasMsa'
  BY <1>f DEF WifiTypeOK, StageInStep, MsaInStep, FirmwareHasMsa, Clear
<1> QED BY <1>1, <1>2, <1>3, <1>4, <1>5, <1>6, <1>7, <1>8, <1>9, <1>10, <1>11 DEF WifiInv

\* TakeEvent keeps the invariant of the Wi-Fi driver.
LEMMA WifiTakeEventInv == ASSUME WifiInv, TakeEvent PROVE WifiInv'
<1>0. /\ WifiTypeOK /\ OutIsEmpty /\ GensInOrder /\ ArrivesOnce /\ StageInStep /\ SkipInStep
      /\ MsaInStep /\ StopsInStep /\ WlanInStep /\ SkipOnlyIfReady /\ FirmwareHasMsa
  BY DEF WifiInv
<1> USE <1>0 DEF Stages, WorkerSteps, EventTypes
<1>n. /\ told \in Nat /\ fw.gen \in Nat /\ wk.gen \in Nat
      /\ \A i \in Places : i \in Nat /\ i >= 1 /\ TypeAt(i) \in EventTypes /\ GenAt(i) \in Nat
  BY PlacesFacts
<1>q. events # <<>> /\ events' = Tail(events)
  BY DEF TakeEvent
<1>s. events' \in Seq(EventTypes \X Nat)
  BY <1>q, Taken
<1>p. /\ 1 \in Places
      /\ \A i \in Places' : /\ i \in Nat /\ i + 1 \in Places /\ 1 < i + 1
                            /\ TypeAt(i)' = TypeAt(i + 1) /\ GenAt(i)' = GenAt(i + 1)
      /\ \A j \in Places :
           1 < j => j - 1 \in Places' /\ TypeAt(j - 1)' = TypeAt(j) /\ GenAt(j - 1)' = GenAt(j)
  BY <1>q, Taken
<1>f. /\ wk = NoWork /\ wk.pc = "idle" /\ snoc # "out"
      /\ wk' \in [pc : WorkerSteps, gen : Nat, ready : BOOLEAN]
      /\ wk'.gen = GenAt(1) /\ wk'.ready = FALSE
      /\ \/ TypeAt(1) = "arrive" /\ wk'.pc = "ind_register"
         \/ TypeAt(1) = "exit" /\ wk'.pc = "unmap"
         \/ TypeAt(1) = "fw_ready" /\ wk'.pc = "indicate"
         \/ TypeAt(1) = "msa_ready" /\ wk'.pc = "board_data"
      /\ UNCHANGED <<snoc, lives, fw, orderly, told, fwReady, msa, flags, wlan, windows>>
  <2>1. wk = NoWork /\ wk.pc = "idle" /\ snoc # "out"
        /\ UNCHANGED <<snoc, lives, fw, orderly, told, fwReady, msa, flags, wlan, windows>>
    BY DEF TakeEvent, OutIsEmpty
  <2>2. wk' = [pc |-> First(TypeAt(1)), gen |-> GenAt(1), ready |-> FALSE]
    BY <1>q, Taken DEF TakeEvent
  <2>3. \/ TypeAt(1) = "arrive" /\ First(TypeAt(1)) = "ind_register"
        \/ TypeAt(1) = "exit" /\ First(TypeAt(1)) = "unmap"
        \/ TypeAt(1) = "fw_ready" /\ First(TypeAt(1)) = "indicate"
        \/ TypeAt(1) = "msa_ready" /\ First(TypeAt(1)) = "board_data"
    BY <1>n, <1>p DEF First
  <2>4. First(TypeAt(1)) \in WorkerSteps /\ GenAt(1) \in Nat
    BY <1>n, <1>p, <2>3
  <2>5. wk' \in [pc : WorkerSteps, gen : Nat, ready : BOOLEAN]
    <3> HIDE DEF WorkerSteps
    <3> QED BY <2>2, <2>4
  <2> QED BY <2>1, <2>2, <2>3, <2>5
<1>1. WifiTypeOK'
  BY <1>f, <1>s DEF WifiTypeOK, WifiFlags
<1>2. OutIsEmpty'
  BY <1>f, <1>s DEF WifiTypeOK, OutIsEmpty
<1>3. GensInOrder'
  BY <1>f, <1>p, <1>n DEF OutIsEmpty, GensInOrder
<1>4. ArrivesOnce'
  BY <1>f, <1>p, <1>n, SMTT(30) DEF OutIsEmpty, GensInOrder, ArrivesOnce, Arriving
<1>5. StageInStep'
  BY <1>f, <1>p, <1>n DEF OutIsEmpty, GensInOrder, StageInStep, Arriving, Clear
<1>6. SkipInStep'
  BY <1>f, <1>p, <1>n DEF OutIsEmpty, GensInOrder, ArrivesOnce, StageInStep, SkipInStep, Arriving, Clear
<1>7. MsaInStep'
  BY <1>f, <1>p, <1>n, SMTT(30) DEF OutIsEmpty, MsaInStep, ExitOwed, Arriving, Clear
<1>8. StopsInStep'
  BY <1>f, <1>p, <1>n DEF OutIsEmpty, GensInOrder, StopsInStep, Clear
<1>9. WlanInStep'
  BY <1>f DEF WifiTypeOK, OutIsEmpty, WlanInStep, Clear, WifiFlags
<1>10. SkipOnlyIfReady'
  BY <1>f DEF WifiTypeOK, SkipInStep, SkipOnlyIfReady, Clear
<1>11. FirmwareHasMsa'
  BY <1>f DEF WifiTypeOK, StageInStep, MsaInStep, FirmwareHasMsa, Clear
<1> QED BY <1>1, <1>2, <1>3, <1>4, <1>5, <1>6, <1>7, <1>8, <1>9, <1>10, <1>11 DEF WifiInv

\* RequestFails keeps the invariant of the Wi-Fi driver.
LEMMA WifiRequestFailsInv == ASSUME WifiInv, RequestFails PROVE WifiInv'
<1>0. /\ WifiTypeOK /\ OutIsEmpty /\ GensInOrder /\ ArrivesOnce /\ StageInStep /\ SkipInStep
      /\ MsaInStep /\ StopsInStep /\ WlanInStep /\ SkipOnlyIfReady /\ FirmwareHasMsa
  BY DEF WifiInv
<1> USE <1>0 DEF RequestFails, aroundWorker, NoWork, Stages, WorkerSteps, EventTypes
<1>1. WifiTypeOK'
  BY DEF WifiTypeOK, WifiFlags
<1>2. OutIsEmpty'
  BY DEF WifiTypeOK, OutIsEmpty
<1>3. GensInOrder'
  BY DEF WifiTypeOK, OutIsEmpty, GensInOrder, Places, TypeAt, GenAt
<1>4. ArrivesOnce'
  BY DEF WifiTypeOK, OutIsEmpty, GensInOrder, ArrivesOnce, Arriving, Places, TypeAt, GenAt
<1>5. StageInStep'
  BY DEF WifiTypeOK, OutIsEmpty, GensInOrder, StageInStep, Arriving, Clear, Places, TypeAt, GenAt
<1>6. SkipInStep'
  BY DEF WifiTypeOK, OutIsEmpty, GensInOrder, ArrivesOnce, StageInStep, SkipInStep, Arriving, Clear, Places, TypeAt, GenAt
<1>7. MsaInStep'
  BY DEF WifiTypeOK, OutIsEmpty, MsaInStep, ExitOwed, Arriving, Clear, Places, TypeAt, GenAt
<1>8. StopsInStep'
  BY DEF WifiTypeOK, OutIsEmpty, GensInOrder, StopsInStep, Clear, Places, TypeAt, GenAt
<1>9. WlanInStep'
  BY DEF WifiTypeOK, OutIsEmpty, WlanInStep, Clear, WifiFlags
<1>10. SkipOnlyIfReady'
  BY DEF WifiTypeOK, SkipInStep, SkipOnlyIfReady, Clear
<1>11. FirmwareHasMsa'
  BY DEF WifiTypeOK, StageInStep, MsaInStep, FirmwareHasMsa, Clear
<1> QED BY <1>1, <1>2, <1>3, <1>4, <1>5, <1>6, <1>7, <1>8, <1>9, <1>10, <1>11 DEF WifiInv

\* IndRegister keeps the invariant of the Wi-Fi driver.
LEMMA WifiIndRegisterInv == ASSUME WifiInv, IndRegister PROVE WifiInv'
<1>0. /\ WifiTypeOK /\ OutIsEmpty /\ GensInOrder /\ ArrivesOnce /\ StageInStep /\ SkipInStep
      /\ MsaInStep /\ StopsInStep /\ WlanInStep /\ SkipOnlyIfReady /\ FirmwareHasMsa
  BY DEF WifiInv
<1> USE <1>0 DEF IndRegister, aroundWorker, NoWork, Stages, WorkerSteps, EventTypes
<1>1. WifiTypeOK'
  BY DEF WifiTypeOK, WifiFlags
<1>2. OutIsEmpty'
  BY DEF WifiTypeOK, OutIsEmpty
<1>3. GensInOrder'
  BY DEF WifiTypeOK, OutIsEmpty, GensInOrder, Places, TypeAt, GenAt
<1>4. ArrivesOnce'
  BY DEF WifiTypeOK, OutIsEmpty, GensInOrder, ArrivesOnce, Arriving, Places, TypeAt, GenAt
<1>5. StageInStep'
  BY DEF WifiTypeOK, OutIsEmpty, GensInOrder, StageInStep, Arriving, Clear, Places, TypeAt, GenAt
<1>6. SkipInStep'
  BY DEF WifiTypeOK, OutIsEmpty, GensInOrder, ArrivesOnce, StageInStep, SkipInStep, Arriving, Clear, Places, TypeAt, GenAt
<1>7. MsaInStep'
  BY DEF WifiTypeOK, OutIsEmpty, MsaInStep, ExitOwed, Arriving, Clear, Places, TypeAt, GenAt
<1>8. StopsInStep'
  BY DEF WifiTypeOK, OutIsEmpty, GensInOrder, StopsInStep, Clear, Places, TypeAt, GenAt
<1>9. WlanInStep'
  BY DEF WifiTypeOK, OutIsEmpty, WlanInStep, Clear, WifiFlags
<1>10. SkipOnlyIfReady'
  BY DEF WifiTypeOK, SkipInStep, SkipOnlyIfReady, Clear
<1>11. FirmwareHasMsa'
  BY DEF WifiTypeOK, StageInStep, MsaInStep, FirmwareHasMsa, Clear
<1> QED BY <1>1, <1>2, <1>3, <1>4, <1>5, <1>6, <1>7, <1>8, <1>9, <1>10, <1>11 DEF WifiInv

\* FwStatus keeps the invariant of the Wi-Fi driver.
LEMMA WifiFwStatusInv == ASSUME WifiInv, FwStatus PROVE WifiInv'
<1>0. /\ WifiTypeOK /\ OutIsEmpty /\ GensInOrder /\ ArrivesOnce /\ StageInStep /\ SkipInStep
      /\ MsaInStep /\ StopsInStep /\ WlanInStep /\ SkipOnlyIfReady /\ FirmwareHasMsa
  BY DEF WifiInv
<1> USE <1>0 DEF FwStatus, aroundWorker, NoWork, Stages, WorkerSteps, EventTypes
<1>1. WifiTypeOK'
  BY DEF WifiTypeOK, WifiFlags
<1>2. OutIsEmpty'
  BY DEF WifiTypeOK, OutIsEmpty
<1>3. GensInOrder'
  BY DEF WifiTypeOK, OutIsEmpty, GensInOrder, Places, TypeAt, GenAt
<1>4. ArrivesOnce'
  BY DEF WifiTypeOK, OutIsEmpty, GensInOrder, ArrivesOnce, Arriving, Places, TypeAt, GenAt
<1>5. StageInStep'
  BY DEF WifiTypeOK, OutIsEmpty, GensInOrder, StageInStep, Arriving, Clear, Places, TypeAt, GenAt
<1>6. SkipInStep'
  BY DEF WifiTypeOK, OutIsEmpty, GensInOrder, ArrivesOnce, StageInStep, SkipInStep, Arriving, Clear, Places, TypeAt, GenAt
<1>7. MsaInStep'
  BY DEF WifiTypeOK, OutIsEmpty, MsaInStep, ExitOwed, Arriving, Clear, Places, TypeAt, GenAt
<1>8. StopsInStep'
  BY DEF WifiTypeOK, OutIsEmpty, GensInOrder, StopsInStep, Clear, Places, TypeAt, GenAt
<1>9. WlanInStep'
  BY DEF WifiTypeOK, OutIsEmpty, WlanInStep, Clear, WifiFlags
<1>10. SkipOnlyIfReady'
  BY DEF WifiTypeOK, SkipInStep, SkipOnlyIfReady, Clear
<1>11. FirmwareHasMsa'
  BY DEF WifiTypeOK, StageInStep, MsaInStep, FirmwareHasMsa, Clear
<1> QED BY <1>1, <1>2, <1>3, <1>4, <1>5, <1>6, <1>7, <1>8, <1>9, <1>10, <1>11 DEF WifiInv

\* Skip keeps the invariant of the Wi-Fi driver.
LEMMA WifiSkipInv == ASSUME WifiInv, Skip PROVE WifiInv'
<1>0. /\ WifiTypeOK /\ OutIsEmpty /\ GensInOrder /\ ArrivesOnce /\ StageInStep /\ SkipInStep
      /\ MsaInStep /\ StopsInStep /\ WlanInStep /\ SkipOnlyIfReady /\ FirmwareHasMsa
  BY DEF WifiInv
<1> USE <1>0 DEF Skip, aroundWorker, NoWork, Stages, WorkerSteps, EventTypes
<1>1. WifiTypeOK'
  BY DEF WifiTypeOK, WifiFlags
<1>2. OutIsEmpty'
  BY DEF WifiTypeOK, OutIsEmpty
<1>3. GensInOrder'
  BY DEF WifiTypeOK, OutIsEmpty, GensInOrder, Places, TypeAt, GenAt
<1>4. ArrivesOnce'
  BY DEF WifiTypeOK, OutIsEmpty, GensInOrder, ArrivesOnce, Arriving, Places, TypeAt, GenAt
<1>5. StageInStep'
  BY DEF WifiTypeOK, OutIsEmpty, GensInOrder, StageInStep, Arriving, Clear, Places, TypeAt, GenAt
<1>6. SkipInStep'
  BY DEF WifiTypeOK, OutIsEmpty, GensInOrder, ArrivesOnce, StageInStep, SkipInStep, Arriving, Clear, Places, TypeAt, GenAt
<1>7. MsaInStep'
  BY DEF WifiTypeOK, OutIsEmpty, MsaInStep, ExitOwed, Arriving, Clear, Places, TypeAt, GenAt
<1>8. StopsInStep'
  BY DEF WifiTypeOK, OutIsEmpty, GensInOrder, StopsInStep, Clear, Places, TypeAt, GenAt
<1>9. WlanInStep'
  BY DEF WifiTypeOK, OutIsEmpty, WlanInStep, Clear, WifiFlags
<1>10. SkipOnlyIfReady'
  BY DEF WifiTypeOK, SkipInStep, SkipOnlyIfReady, Clear
<1>11. FirmwareHasMsa'
  BY DEF WifiTypeOK, StageInStep, MsaInStep, FirmwareHasMsa, Clear
<1> QED BY <1>1, <1>2, <1>3, <1>4, <1>5, <1>6, <1>7, <1>8, <1>9, <1>10, <1>11 DEF WifiInv

\* MsaInfo keeps the invariant of the Wi-Fi driver.
LEMMA WifiMsaInfoInv == ASSUME WifiInv, MsaInfo PROVE WifiInv'
<1>0. /\ WifiTypeOK /\ OutIsEmpty /\ GensInOrder /\ ArrivesOnce /\ StageInStep /\ SkipInStep
      /\ MsaInStep /\ StopsInStep /\ WlanInStep /\ SkipOnlyIfReady /\ FirmwareHasMsa
  BY DEF WifiInv
<1> USE <1>0 DEF MsaInfo, aroundWorker, NoWork, Stages, WorkerSteps, EventTypes
<1>1. WifiTypeOK'
  BY DEF WifiTypeOK, WifiFlags
<1>2. OutIsEmpty'
  BY DEF WifiTypeOK, OutIsEmpty
<1>3. GensInOrder'
  BY DEF WifiTypeOK, OutIsEmpty, GensInOrder, Places, TypeAt, GenAt
<1>4. ArrivesOnce'
  BY DEF WifiTypeOK, OutIsEmpty, GensInOrder, ArrivesOnce, Arriving, Places, TypeAt, GenAt
<1>5. StageInStep'
  BY DEF WifiTypeOK, OutIsEmpty, GensInOrder, StageInStep, Arriving, Clear, Places, TypeAt, GenAt
<1>6. SkipInStep'
  BY DEF WifiTypeOK, OutIsEmpty, GensInOrder, ArrivesOnce, StageInStep, SkipInStep, Arriving, Clear, Places, TypeAt, GenAt
<1>7. MsaInStep'
  BY DEF WifiTypeOK, OutIsEmpty, MsaInStep, ExitOwed, Arriving, Clear, Places, TypeAt, GenAt
<1>8. StopsInStep'
  BY DEF WifiTypeOK, OutIsEmpty, GensInOrder, StopsInStep, Clear, Places, TypeAt, GenAt
<1>9. WlanInStep'
  BY DEF WifiTypeOK, OutIsEmpty, WlanInStep, Clear, WifiFlags
<1>10. SkipOnlyIfReady'
  BY DEF WifiTypeOK, SkipInStep, SkipOnlyIfReady, Clear
<1>11. FirmwareHasMsa'
  BY DEF WifiTypeOK, StageInStep, MsaInStep, FirmwareHasMsa, Clear
<1> QED BY <1>1, <1>2, <1>3, <1>4, <1>5, <1>6, <1>7, <1>8, <1>9, <1>10, <1>11 DEF WifiInv

\* Map keeps the invariant of the Wi-Fi driver.
LEMMA WifiMapInv == ASSUME WifiInv, Map PROVE WifiInv'
<1>0. /\ WifiTypeOK /\ OutIsEmpty /\ GensInOrder /\ ArrivesOnce /\ StageInStep /\ SkipInStep
      /\ MsaInStep /\ StopsInStep /\ WlanInStep /\ SkipOnlyIfReady /\ FirmwareHasMsa
  BY DEF WifiInv
<1> USE <1>0 DEF Map, aroundWorker, NoWork, Stages, WorkerSteps, EventTypes
<1>1. WifiTypeOK'
  BY DEF WifiTypeOK, WifiFlags
<1>2. OutIsEmpty'
  BY DEF WifiTypeOK, OutIsEmpty
<1>3. GensInOrder'
  BY DEF WifiTypeOK, OutIsEmpty, GensInOrder, Places, TypeAt, GenAt
<1>4. ArrivesOnce'
  BY DEF WifiTypeOK, OutIsEmpty, GensInOrder, ArrivesOnce, Arriving, Places, TypeAt, GenAt
<1>5. StageInStep'
  BY DEF WifiTypeOK, OutIsEmpty, GensInOrder, StageInStep, Arriving, Clear, Places, TypeAt, GenAt
<1>6. SkipInStep'
  BY DEF WifiTypeOK, OutIsEmpty, GensInOrder, ArrivesOnce, StageInStep, SkipInStep, Arriving, Clear, Places, TypeAt, GenAt
<1>7. MsaInStep'
  BY DEF WifiTypeOK, OutIsEmpty, MsaInStep, ExitOwed, Arriving, Clear, Places, TypeAt, GenAt
<1>8. StopsInStep'
  BY DEF WifiTypeOK, OutIsEmpty, GensInOrder, StopsInStep, Clear, Places, TypeAt, GenAt
<1>9. WlanInStep'
  BY DEF WifiTypeOK, OutIsEmpty, WlanInStep, Clear, WifiFlags
<1>10. SkipOnlyIfReady'
  BY DEF WifiTypeOK, SkipInStep, SkipOnlyIfReady, Clear
<1>11. FirmwareHasMsa'
  BY DEF WifiTypeOK, StageInStep, MsaInStep, FirmwareHasMsa, Clear
<1> QED BY <1>1, <1>2, <1>3, <1>4, <1>5, <1>6, <1>7, <1>8, <1>9, <1>10, <1>11 DEF WifiInv

\* MsaReady keeps the invariant of the Wi-Fi driver.
LEMMA WifiMsaReadyInv == ASSUME WifiInv, NEW b \in BOOLEAN, MsaReady(b) PROVE WifiInv'
<1>0. /\ WifiTypeOK /\ OutIsEmpty /\ GensInOrder /\ ArrivesOnce /\ StageInStep /\ SkipInStep
      /\ MsaInStep /\ StopsInStep /\ WlanInStep /\ SkipOnlyIfReady /\ FirmwareHasMsa
  BY DEF WifiInv
<1> USE <1>0 DEF MsaReady, Crossed, aroundWorker, NoWork, Stages, WorkerSteps, EventTypes
<1>1. WifiTypeOK'
  BY DEF WifiTypeOK, WifiFlags
<1>2. OutIsEmpty'
  BY DEF WifiTypeOK, OutIsEmpty
<1>3. GensInOrder'
  BY DEF WifiTypeOK, OutIsEmpty, GensInOrder, Places, TypeAt, GenAt
<1>4. ArrivesOnce'
  BY DEF WifiTypeOK, OutIsEmpty, GensInOrder, ArrivesOnce, Arriving, Places, TypeAt, GenAt
<1>5. StageInStep'
  BY DEF WifiTypeOK, OutIsEmpty, GensInOrder, StageInStep, Arriving, Clear, Places, TypeAt, GenAt
<1>6. SkipInStep'
  BY DEF WifiTypeOK, OutIsEmpty, GensInOrder, ArrivesOnce, StageInStep, SkipInStep, Arriving, Clear, Places, TypeAt, GenAt
<1>7. MsaInStep'
  BY DEF WifiTypeOK, OutIsEmpty, MsaInStep, ExitOwed, Arriving, Clear, Places, TypeAt, GenAt
<1>8. StopsInStep'
  BY DEF WifiTypeOK, OutIsEmpty, GensInOrder, StopsInStep, Clear, Places, TypeAt, GenAt
<1>9. WlanInStep'
  BY DEF WifiTypeOK, OutIsEmpty, WlanInStep, Clear, WifiFlags
<1>10. SkipOnlyIfReady'
  BY DEF WifiTypeOK, SkipInStep, SkipOnlyIfReady, Clear
<1>11. FirmwareHasMsa'
  BY DEF WifiTypeOK, StageInStep, MsaInStep, FirmwareHasMsa, Clear
<1> QED BY <1>1, <1>2, <1>3, <1>4, <1>5, <1>6, <1>7, <1>8, <1>9, <1>10, <1>11 DEF WifiInv

\* Capabilities keeps the invariant of the Wi-Fi driver.
LEMMA WifiCapabilitiesInv == ASSUME WifiInv, Capabilities PROVE WifiInv'
<1>0. /\ WifiTypeOK /\ OutIsEmpty /\ GensInOrder /\ ArrivesOnce /\ StageInStep /\ SkipInStep
      /\ MsaInStep /\ StopsInStep /\ WlanInStep /\ SkipOnlyIfReady /\ FirmwareHasMsa
  BY DEF WifiInv
<1> USE <1>0 DEF Capabilities, Crossed, aroundWorker, NoWork, Stages, WorkerSteps, EventTypes
<1>1. WifiTypeOK'
  BY DEF WifiTypeOK, WifiFlags
<1>2. OutIsEmpty'
  BY DEF WifiTypeOK, OutIsEmpty
<1>3. GensInOrder'
  BY DEF WifiTypeOK, OutIsEmpty, GensInOrder, Places, TypeAt, GenAt
<1>4. ArrivesOnce'
  BY DEF WifiTypeOK, OutIsEmpty, GensInOrder, ArrivesOnce, Arriving, Places, TypeAt, GenAt
<1>5. StageInStep'
  BY DEF WifiTypeOK, OutIsEmpty, GensInOrder, StageInStep, Arriving, Clear, Places, TypeAt, GenAt
<1>6. SkipInStep'
  BY DEF WifiTypeOK, OutIsEmpty, GensInOrder, ArrivesOnce, StageInStep, SkipInStep, Arriving, Clear, Places, TypeAt, GenAt
<1>7. MsaInStep'
  BY DEF WifiTypeOK, OutIsEmpty, MsaInStep, ExitOwed, Arriving, Clear, Places, TypeAt, GenAt
<1>8. StopsInStep'
  BY DEF WifiTypeOK, OutIsEmpty, GensInOrder, StopsInStep, Clear, Places, TypeAt, GenAt
<1>9. WlanInStep'
  BY DEF WifiTypeOK, OutIsEmpty, WlanInStep, Clear, WifiFlags
<1>10. SkipOnlyIfReady'
  BY DEF WifiTypeOK, SkipInStep, SkipOnlyIfReady, Clear
<1>11. FirmwareHasMsa'
  BY DEF WifiTypeOK, StageInStep, MsaInStep, FirmwareHasMsa, Clear
<1> QED BY <1>1, <1>2, <1>3, <1>4, <1>5, <1>6, <1>7, <1>8, <1>9, <1>10, <1>11 DEF WifiInv

\* SetupFails keeps the invariant of the Wi-Fi driver.
LEMMA WifiSetupFailsInv == ASSUME WifiInv, SetupFails PROVE WifiInv'
<1>0. /\ WifiTypeOK /\ OutIsEmpty /\ GensInOrder /\ ArrivesOnce /\ StageInStep /\ SkipInStep
      /\ MsaInStep /\ StopsInStep /\ WlanInStep /\ SkipOnlyIfReady /\ FirmwareHasMsa
  BY DEF WifiInv
<1> USE <1>0 DEF SetupFails, aroundWorker, NoWork, Stages, WorkerSteps, EventTypes
<1>1. WifiTypeOK'
  BY DEF WifiTypeOK, WifiFlags
<1>2. OutIsEmpty'
  BY DEF WifiTypeOK, OutIsEmpty
<1>3. GensInOrder'
  BY DEF WifiTypeOK, OutIsEmpty, GensInOrder, Places, TypeAt, GenAt
<1>4. ArrivesOnce'
  BY DEF WifiTypeOK, OutIsEmpty, GensInOrder, ArrivesOnce, Arriving, Places, TypeAt, GenAt
<1>5. StageInStep'
  BY DEF WifiTypeOK, OutIsEmpty, GensInOrder, StageInStep, Arriving, Clear, Places, TypeAt, GenAt
<1>6. SkipInStep'
  BY DEF WifiTypeOK, OutIsEmpty, GensInOrder, ArrivesOnce, StageInStep, SkipInStep, Arriving, Clear, Places, TypeAt, GenAt
<1>7. MsaInStep'
  BY DEF WifiTypeOK, OutIsEmpty, MsaInStep, ExitOwed, Arriving, Clear, Places, TypeAt, GenAt
<1>8. StopsInStep'
  BY DEF WifiTypeOK, OutIsEmpty, GensInOrder, StopsInStep, Clear, Places, TypeAt, GenAt
<1>9. WlanInStep'
  BY DEF WifiTypeOK, OutIsEmpty, WlanInStep, Clear, WifiFlags
<1>10. SkipOnlyIfReady'
  BY DEF WifiTypeOK, SkipInStep, SkipOnlyIfReady, Clear
<1>11. FirmwareHasMsa'
  BY DEF WifiTypeOK, StageInStep, MsaInStep, FirmwareHasMsa, Clear
<1> QED BY <1>1, <1>2, <1>3, <1>4, <1>5, <1>6, <1>7, <1>8, <1>9, <1>10, <1>11 DEF WifiInv

\* BoardData keeps the invariant of the Wi-Fi driver.
LEMMA WifiBoardDataInv == ASSUME WifiInv, BoardData PROVE WifiInv'
<1>0. /\ WifiTypeOK /\ OutIsEmpty /\ GensInOrder /\ ArrivesOnce /\ StageInStep /\ SkipInStep
      /\ MsaInStep /\ StopsInStep /\ WlanInStep /\ SkipOnlyIfReady /\ FirmwareHasMsa
  BY DEF WifiInv
<1> USE <1>0 DEF BoardData, aroundWorker, NoWork, Stages, WorkerSteps, EventTypes
<1>1. WifiTypeOK'
  BY DEF WifiTypeOK, WifiFlags
<1>2. OutIsEmpty'
  BY DEF WifiTypeOK, OutIsEmpty
<1>3. GensInOrder'
  BY DEF WifiTypeOK, OutIsEmpty, GensInOrder, Places, TypeAt, GenAt
<1>4. ArrivesOnce'
  BY DEF WifiTypeOK, OutIsEmpty, GensInOrder, ArrivesOnce, Arriving, Places, TypeAt, GenAt
<1>5. StageInStep'
  BY DEF WifiTypeOK, OutIsEmpty, GensInOrder, StageInStep, Arriving, Clear, Places, TypeAt, GenAt
<1>6. SkipInStep'
  BY DEF WifiTypeOK, OutIsEmpty, GensInOrder, ArrivesOnce, StageInStep, SkipInStep, Arriving, Clear, Places, TypeAt, GenAt
<1>7. MsaInStep'
  BY DEF WifiTypeOK, OutIsEmpty, MsaInStep, ExitOwed, Arriving, Clear, Places, TypeAt, GenAt
<1>8. StopsInStep'
  BY DEF WifiTypeOK, OutIsEmpty, GensInOrder, StopsInStep, Clear, Places, TypeAt, GenAt
<1>9. WlanInStep'
  BY DEF WifiTypeOK, OutIsEmpty, WlanInStep, Clear, WifiFlags
<1>10. SkipOnlyIfReady'
  BY DEF WifiTypeOK, SkipInStep, SkipOnlyIfReady, Clear
<1>11. FirmwareHasMsa'
  BY DEF WifiTypeOK, StageInStep, MsaInStep, FirmwareHasMsa, Clear
<1> QED BY <1>1, <1>2, <1>3, <1>4, <1>5, <1>6, <1>7, <1>8, <1>9, <1>10, <1>11 DEF WifiInv

\* Unmap keeps the invariant of the Wi-Fi driver.
LEMMA WifiUnmapInv == ASSUME WifiInv, Unmap PROVE WifiInv'
<1>0. /\ WifiTypeOK /\ OutIsEmpty /\ GensInOrder /\ ArrivesOnce /\ StageInStep /\ SkipInStep
      /\ MsaInStep /\ StopsInStep /\ WlanInStep /\ SkipOnlyIfReady /\ FirmwareHasMsa
  BY DEF WifiInv
<1> USE <1>0 DEF Unmap, aroundWorker, NoWork, Stages, WorkerSteps, EventTypes
<1>1. WifiTypeOK'
  BY DEF WifiTypeOK, WifiFlags
<1>2. OutIsEmpty'
  BY DEF WifiTypeOK, OutIsEmpty
<1>3. GensInOrder'
  BY DEF WifiTypeOK, OutIsEmpty, GensInOrder, Places, TypeAt, GenAt
<1>4. ArrivesOnce'
  BY DEF WifiTypeOK, OutIsEmpty, GensInOrder, ArrivesOnce, Arriving, Places, TypeAt, GenAt
<1>5. StageInStep'
  BY DEF WifiTypeOK, OutIsEmpty, GensInOrder, StageInStep, Arriving, Clear, Places, TypeAt, GenAt
<1>6. SkipInStep'
  BY DEF WifiTypeOK, OutIsEmpty, GensInOrder, ArrivesOnce, StageInStep, SkipInStep, Arriving, Clear, Places, TypeAt, GenAt
<1>7. MsaInStep'
  BY DEF WifiTypeOK, OutIsEmpty, MsaInStep, ExitOwed, Arriving, Clear, Places, TypeAt, GenAt
<1>8. StopsInStep'
  BY DEF WifiTypeOK, OutIsEmpty, GensInOrder, StopsInStep, Clear, Places, TypeAt, GenAt
<1>9. WlanInStep'
  BY DEF WifiTypeOK, OutIsEmpty, WlanInStep, Clear, WifiFlags
<1>10. SkipOnlyIfReady'
  BY DEF WifiTypeOK, SkipInStep, SkipOnlyIfReady, Clear
<1>11. FirmwareHasMsa'
  BY DEF WifiTypeOK, StageInStep, MsaInStep, FirmwareHasMsa, Clear
<1> QED BY <1>1, <1>2, <1>3, <1>4, <1>5, <1>6, <1>7, <1>8, <1>9, <1>10, <1>11 DEF WifiInv

\* ServerExit keeps the invariant of the Wi-Fi driver.
LEMMA WifiServerExitInv == ASSUME WifiInv, ServerExit PROVE WifiInv'
<1>0. /\ WifiTypeOK /\ OutIsEmpty /\ GensInOrder /\ ArrivesOnce /\ StageInStep /\ SkipInStep
      /\ MsaInStep /\ StopsInStep /\ WlanInStep /\ SkipOnlyIfReady /\ FirmwareHasMsa
  BY DEF WifiInv
<1> USE <1>0 DEF ServerExit, aroundWorker, NoWork, Stages, WorkerSteps, EventTypes
<1>1. WifiTypeOK'
  BY DEF WifiTypeOK, WifiFlags
<1>2. OutIsEmpty'
  BY DEF WifiTypeOK, OutIsEmpty
<1>3. GensInOrder'
  BY DEF WifiTypeOK, OutIsEmpty, GensInOrder, Places, TypeAt, GenAt
<1>4. ArrivesOnce'
  BY DEF WifiTypeOK, OutIsEmpty, GensInOrder, ArrivesOnce, Arriving, Places, TypeAt, GenAt
<1>5. StageInStep'
  BY DEF WifiTypeOK, OutIsEmpty, GensInOrder, StageInStep, Arriving, Clear, Places, TypeAt, GenAt
<1>6. SkipInStep'
  BY DEF WifiTypeOK, OutIsEmpty, GensInOrder, ArrivesOnce, StageInStep, SkipInStep, Arriving, Clear, Places, TypeAt, GenAt
<1>7. MsaInStep'
  BY DEF WifiTypeOK, OutIsEmpty, MsaInStep, ExitOwed, Arriving, Clear, Places, TypeAt, GenAt
<1>8. StopsInStep'
  BY DEF WifiTypeOK, OutIsEmpty, GensInOrder, StopsInStep, Clear, Places, TypeAt, GenAt
<1>9. WlanInStep'
  BY DEF WifiTypeOK, OutIsEmpty, WlanInStep, Clear, WifiFlags
<1>10. SkipOnlyIfReady'
  BY DEF WifiTypeOK, SkipInStep, SkipOnlyIfReady, Clear
<1>11. FirmwareHasMsa'
  BY DEF WifiTypeOK, StageInStep, MsaInStep, FirmwareHasMsa, Clear
<1> QED BY <1>1, <1>2, <1>3, <1>4, <1>5, <1>6, <1>7, <1>8, <1>9, <1>10, <1>11 DEF WifiInv

\* Indicate keeps the invariant of the Wi-Fi driver.
LEMMA WifiIndicateInv == ASSUME WifiInv, Indicate PROVE WifiInv'
<1>0. /\ WifiTypeOK /\ OutIsEmpty /\ GensInOrder /\ ArrivesOnce /\ StageInStep /\ SkipInStep
      /\ MsaInStep /\ StopsInStep /\ WlanInStep /\ SkipOnlyIfReady /\ FirmwareHasMsa
  BY DEF WifiInv
<1> USE <1>0 DEF Indicate, aroundWorker, NoWork, Stages, WorkerSteps, EventTypes
<1>1. WifiTypeOK'
  BY DEF WifiTypeOK, WifiFlags
<1>2. OutIsEmpty'
  BY DEF WifiTypeOK, OutIsEmpty
<1>3. GensInOrder'
  BY DEF WifiTypeOK, OutIsEmpty, GensInOrder, Places, TypeAt, GenAt
<1>4. ArrivesOnce'
  BY DEF WifiTypeOK, OutIsEmpty, GensInOrder, ArrivesOnce, Arriving, Places, TypeAt, GenAt
<1>5. StageInStep'
  BY DEF WifiTypeOK, OutIsEmpty, GensInOrder, StageInStep, Arriving, Clear, Places, TypeAt, GenAt
<1>6. SkipInStep'
  BY DEF WifiTypeOK, OutIsEmpty, GensInOrder, ArrivesOnce, StageInStep, SkipInStep, Arriving, Clear, Places, TypeAt, GenAt
<1>7. MsaInStep'
  BY DEF WifiTypeOK, OutIsEmpty, MsaInStep, ExitOwed, Arriving, Clear, Places, TypeAt, GenAt
<1>8. StopsInStep'
  BY DEF WifiTypeOK, OutIsEmpty, GensInOrder, StopsInStep, Clear, Places, TypeAt, GenAt
<1>9. WlanInStep'
  BY DEF WifiTypeOK, OutIsEmpty, WlanInStep, Clear, WifiFlags
<1>10. SkipOnlyIfReady'
  BY DEF WifiTypeOK, SkipInStep, SkipOnlyIfReady, Clear
<1>11. FirmwareHasMsa'
  BY DEF WifiTypeOK, StageInStep, MsaInStep, FirmwareHasMsa, Clear
<1> QED BY <1>1, <1>2, <1>3, <1>4, <1>5, <1>6, <1>7, <1>8, <1>9, <1>10, <1>11 DEF WifiInv

\* Register keeps the invariant of the Wi-Fi driver.
LEMMA WifiRegisterInv == ASSUME WifiInv, NEW b \in BOOLEAN, Register(b) PROVE WifiInv'
<1>0. /\ WifiTypeOK /\ OutIsEmpty /\ GensInOrder /\ ArrivesOnce /\ StageInStep /\ SkipInStep
      /\ MsaInStep /\ StopsInStep /\ WlanInStep /\ SkipOnlyIfReady /\ FirmwareHasMsa
  BY DEF WifiInv
<1> USE <1>0 DEF Register, aroundWorker, NoWork, Stages, WorkerSteps, EventTypes
<1>1. WifiTypeOK'
  BY DEF WifiTypeOK, WifiFlags
<1>2. OutIsEmpty'
  BY DEF WifiTypeOK, OutIsEmpty
<1>3. GensInOrder'
  BY DEF WifiTypeOK, OutIsEmpty, GensInOrder, Places, TypeAt, GenAt
<1>4. ArrivesOnce'
  BY DEF WifiTypeOK, OutIsEmpty, GensInOrder, ArrivesOnce, Arriving, Places, TypeAt, GenAt
<1>5. StageInStep'
  BY DEF WifiTypeOK, OutIsEmpty, GensInOrder, StageInStep, Arriving, Clear, Places, TypeAt, GenAt
<1>6. SkipInStep'
  BY DEF WifiTypeOK, OutIsEmpty, GensInOrder, ArrivesOnce, StageInStep, SkipInStep, Arriving, Clear, Places, TypeAt, GenAt
<1>7. MsaInStep'
  BY DEF WifiTypeOK, OutIsEmpty, MsaInStep, ExitOwed, Arriving, Clear, Places, TypeAt, GenAt
<1>8. StopsInStep'
  BY DEF WifiTypeOK, OutIsEmpty, GensInOrder, StopsInStep, Clear, Places, TypeAt, GenAt
<1>9. WlanInStep'
  BY DEF WifiTypeOK, OutIsEmpty, WlanInStep, Clear, WifiFlags
<1>10. SkipOnlyIfReady'
  BY DEF WifiTypeOK, SkipInStep, SkipOnlyIfReady, Clear
<1>11. FirmwareHasMsa'
  BY DEF WifiTypeOK, StageInStep, MsaInStep, FirmwareHasMsa, Clear
<1> QED BY <1>1, <1>2, <1>3, <1>4, <1>5, <1>6, <1>7, <1>8, <1>9, <1>10, <1>11 DEF WifiInv

\* WifiProbe keeps the invariant of the Wi-Fi driver.
LEMMA WifiWifiProbeInv == ASSUME WifiInv, WifiProbe PROVE WifiInv'
<1>0. /\ WifiTypeOK /\ OutIsEmpty /\ GensInOrder /\ ArrivesOnce /\ StageInStep /\ SkipInStep
      /\ MsaInStep /\ StopsInStep /\ WlanInStep /\ SkipOnlyIfReady /\ FirmwareHasMsa
  BY DEF WifiInv
<1> USE <1>0 DEF WifiProbe, aroundWorker, NoWork, Stages, WorkerSteps, EventTypes
<1>1. WifiTypeOK'
  BY DEF WifiTypeOK, WifiFlags
<1>2. OutIsEmpty'
  BY DEF WifiTypeOK, OutIsEmpty
<1>3. GensInOrder'
  BY DEF WifiTypeOK, OutIsEmpty, GensInOrder, Places, TypeAt, GenAt
<1>4. ArrivesOnce'
  BY DEF WifiTypeOK, OutIsEmpty, GensInOrder, ArrivesOnce, Arriving, Places, TypeAt, GenAt
<1>5. StageInStep'
  BY DEF WifiTypeOK, OutIsEmpty, GensInOrder, StageInStep, Arriving, Clear, Places, TypeAt, GenAt
<1>6. SkipInStep'
  BY DEF WifiTypeOK, OutIsEmpty, GensInOrder, ArrivesOnce, StageInStep, SkipInStep, Arriving, Clear, Places, TypeAt, GenAt
<1>7. MsaInStep'
  BY DEF WifiTypeOK, OutIsEmpty, MsaInStep, ExitOwed, Arriving, Clear, Places, TypeAt, GenAt
<1>8. StopsInStep'
  BY DEF WifiTypeOK, OutIsEmpty, GensInOrder, StopsInStep, Clear, Places, TypeAt, GenAt
<1>9. WlanInStep'
  BY DEF WifiTypeOK, OutIsEmpty, WlanInStep, Clear, WifiFlags
<1>10. SkipOnlyIfReady'
  BY DEF WifiTypeOK, SkipInStep, SkipOnlyIfReady, Clear
<1>11. FirmwareHasMsa'
  BY DEF WifiTypeOK, StageInStep, MsaInStep, FirmwareHasMsa, Clear
<1> QED BY <1>1, <1>2, <1>3, <1>4, <1>5, <1>6, <1>7, <1>8, <1>9, <1>10, <1>11 DEF WifiInv

\* WifiProbeStep keeps the invariant of the Wi-Fi driver.
LEMMA WifiWifiProbeStepInv == ASSUME WifiInv, WifiProbeStep PROVE WifiInv'
<1>0. /\ WifiTypeOK /\ OutIsEmpty /\ GensInOrder /\ ArrivesOnce /\ StageInStep /\ SkipInStep
      /\ MsaInStep /\ StopsInStep /\ WlanInStep /\ SkipOnlyIfReady /\ FirmwareHasMsa
  BY DEF WifiInv
<1> USE <1>0 DEF WifiProbeStep, aroundWorker, NoWork, Stages, WorkerSteps, EventTypes
<1>1. WifiTypeOK'
  BY DEF WifiTypeOK, WifiFlags
<1>2. OutIsEmpty'
  BY DEF WifiTypeOK, OutIsEmpty
<1>3. GensInOrder'
  BY DEF WifiTypeOK, OutIsEmpty, GensInOrder, Places, TypeAt, GenAt
<1>4. ArrivesOnce'
  BY DEF WifiTypeOK, OutIsEmpty, GensInOrder, ArrivesOnce, Arriving, Places, TypeAt, GenAt
<1>5. StageInStep'
  BY DEF WifiTypeOK, OutIsEmpty, GensInOrder, StageInStep, Arriving, Clear, Places, TypeAt, GenAt
<1>6. SkipInStep'
  BY DEF WifiTypeOK, OutIsEmpty, GensInOrder, ArrivesOnce, StageInStep, SkipInStep, Arriving, Clear, Places, TypeAt, GenAt
<1>7. MsaInStep'
  BY DEF WifiTypeOK, OutIsEmpty, MsaInStep, ExitOwed, Arriving, Clear, Places, TypeAt, GenAt
<1>8. StopsInStep'
  BY DEF WifiTypeOK, OutIsEmpty, GensInOrder, StopsInStep, Clear, Places, TypeAt, GenAt
<1>9. WlanInStep'
  BY DEF WifiTypeOK, OutIsEmpty, WlanInStep, Clear, WifiFlags
<1>10. SkipOnlyIfReady'
  BY DEF WifiTypeOK, SkipInStep, SkipOnlyIfReady, Clear
<1>11. FirmwareHasMsa'
  BY DEF WifiTypeOK, StageInStep, MsaInStep, FirmwareHasMsa, Clear
<1> QED BY <1>1, <1>2, <1>3, <1>4, <1>5, <1>6, <1>7, <1>8, <1>9, <1>10, <1>11 DEF WifiInv

\* ModemInitFails keeps the invariant of the Wi-Fi driver.
LEMMA WifiModemInitFailsInv == ASSUME WifiInv, ModemInitFails PROVE WifiInv'
<1>0. /\ WifiTypeOK /\ OutIsEmpty /\ GensInOrder /\ ArrivesOnce /\ StageInStep /\ SkipInStep
      /\ MsaInStep /\ StopsInStep /\ WlanInStep /\ SkipOnlyIfReady /\ FirmwareHasMsa
  BY DEF WifiInv
<1> USE <1>0 DEF ModemInitFails, aroundWorker, NoWork, Stages, WorkerSteps, EventTypes
<1>1. WifiTypeOK'
  BY DEF WifiTypeOK, WifiFlags
<1>2. OutIsEmpty'
  BY DEF WifiTypeOK, OutIsEmpty
<1>3. GensInOrder'
  BY DEF WifiTypeOK, OutIsEmpty, GensInOrder, Places, TypeAt, GenAt
<1>4. ArrivesOnce'
  BY DEF WifiTypeOK, OutIsEmpty, GensInOrder, ArrivesOnce, Arriving, Places, TypeAt, GenAt
<1>5. StageInStep'
  BY DEF WifiTypeOK, OutIsEmpty, GensInOrder, StageInStep, Arriving, Clear, Places, TypeAt, GenAt
<1>6. SkipInStep'
  BY DEF WifiTypeOK, OutIsEmpty, GensInOrder, ArrivesOnce, StageInStep, SkipInStep, Arriving, Clear, Places, TypeAt, GenAt
<1>7. MsaInStep'
  BY DEF WifiTypeOK, OutIsEmpty, MsaInStep, ExitOwed, Arriving, Clear, Places, TypeAt, GenAt
<1>8. StopsInStep'
  BY DEF WifiTypeOK, OutIsEmpty, GensInOrder, StopsInStep, Clear, Places, TypeAt, GenAt
<1>9. WlanInStep'
  BY DEF WifiTypeOK, OutIsEmpty, WlanInStep, Clear, WifiFlags
<1>10. SkipOnlyIfReady'
  BY DEF WifiTypeOK, SkipInStep, SkipOnlyIfReady, Clear
<1>11. FirmwareHasMsa'
  BY DEF WifiTypeOK, StageInStep, MsaInStep, FirmwareHasMsa, Clear
<1> QED BY <1>1, <1>2, <1>3, <1>4, <1>5, <1>6, <1>7, <1>8, <1>9, <1>10, <1>11 DEF WifiInv

\* FreeResources keeps the invariant of the Wi-Fi driver.
LEMMA WifiFreeResourcesInv == ASSUME WifiInv, FreeResources PROVE WifiInv'
<1>0. /\ WifiTypeOK /\ OutIsEmpty /\ GensInOrder /\ ArrivesOnce /\ StageInStep /\ SkipInStep
      /\ MsaInStep /\ StopsInStep /\ WlanInStep /\ SkipOnlyIfReady /\ FirmwareHasMsa
  BY DEF WifiInv
<1> USE <1>0 DEF FreeResources, aroundWorker, NoWork, Stages, WorkerSteps, EventTypes
<1>1. WifiTypeOK'
  BY DEF WifiTypeOK, WifiFlags
<1>2. OutIsEmpty'
  BY DEF WifiTypeOK, OutIsEmpty
<1>3. GensInOrder'
  BY DEF WifiTypeOK, OutIsEmpty, GensInOrder, Places, TypeAt, GenAt
<1>4. ArrivesOnce'
  BY DEF WifiTypeOK, OutIsEmpty, GensInOrder, ArrivesOnce, Arriving, Places, TypeAt, GenAt
<1>5. StageInStep'
  BY DEF WifiTypeOK, OutIsEmpty, GensInOrder, StageInStep, Arriving, Clear, Places, TypeAt, GenAt
<1>6. SkipInStep'
  BY DEF WifiTypeOK, OutIsEmpty, GensInOrder, ArrivesOnce, StageInStep, SkipInStep, Arriving, Clear, Places, TypeAt, GenAt
<1>7. MsaInStep'
  BY DEF WifiTypeOK, OutIsEmpty, MsaInStep, ExitOwed, Arriving, Clear, Places, TypeAt, GenAt
<1>8. StopsInStep'
  BY DEF WifiTypeOK, OutIsEmpty, GensInOrder, StopsInStep, Clear, Places, TypeAt, GenAt
<1>9. WlanInStep'
  BY DEF WifiTypeOK, OutIsEmpty, WlanInStep, Clear, WifiFlags
<1>10. SkipOnlyIfReady'
  BY DEF WifiTypeOK, SkipInStep, SkipOnlyIfReady, Clear
<1>11. FirmwareHasMsa'
  BY DEF WifiTypeOK, StageInStep, MsaInStep, FirmwareHasMsa, Clear
<1> QED BY <1>1, <1>2, <1>3, <1>4, <1>5, <1>6, <1>7, <1>8, <1>9, <1>10, <1>11 DEF WifiInv

\* CoreUnregister keeps the invariant of the Wi-Fi driver.
LEMMA WifiCoreUnregisterInv == ASSUME WifiInv, CoreUnregister PROVE WifiInv'
<1>0. /\ WifiTypeOK /\ OutIsEmpty /\ GensInOrder /\ ArrivesOnce /\ StageInStep /\ SkipInStep
      /\ MsaInStep /\ StopsInStep /\ WlanInStep /\ SkipOnlyIfReady /\ FirmwareHasMsa
  BY DEF WifiInv
<1> USE <1>0 DEF CoreUnregister, aroundWorker, NoWork, Stages, WorkerSteps, EventTypes
<1>1. WifiTypeOK'
  BY DEF WifiTypeOK, WifiFlags
<1>2. OutIsEmpty'
  BY DEF WifiTypeOK, OutIsEmpty
<1>3. GensInOrder'
  BY DEF WifiTypeOK, OutIsEmpty, GensInOrder, Places, TypeAt, GenAt
<1>4. ArrivesOnce'
  BY DEF WifiTypeOK, OutIsEmpty, GensInOrder, ArrivesOnce, Arriving, Places, TypeAt, GenAt
<1>5. StageInStep'
  BY DEF WifiTypeOK, OutIsEmpty, GensInOrder, StageInStep, Arriving, Clear, Places, TypeAt, GenAt
<1>6. SkipInStep'
  BY DEF WifiTypeOK, OutIsEmpty, GensInOrder, ArrivesOnce, StageInStep, SkipInStep, Arriving, Clear, Places, TypeAt, GenAt
<1>7. MsaInStep'
  BY DEF WifiTypeOK, OutIsEmpty, MsaInStep, ExitOwed, Arriving, Clear, Places, TypeAt, GenAt
<1>8. StopsInStep'
  BY DEF WifiTypeOK, OutIsEmpty, GensInOrder, StopsInStep, Clear, Places, TypeAt, GenAt
<1>9. WlanInStep'
  BY DEF WifiTypeOK, OutIsEmpty, WlanInStep, Clear, WifiFlags
<1>10. SkipOnlyIfReady'
  BY DEF WifiTypeOK, SkipInStep, SkipOnlyIfReady, Clear
<1>11. FirmwareHasMsa'
  BY DEF WifiTypeOK, StageInStep, MsaInStep, FirmwareHasMsa, Clear
<1> QED BY <1>1, <1>2, <1>3, <1>4, <1>5, <1>6, <1>7, <1>8, <1>9, <1>10, <1>11 DEF WifiInv

\* QmiDeinit keeps the invariant of the Wi-Fi driver.
LEMMA WifiQmiDeinitInv == ASSUME WifiInv, QmiDeinit PROVE WifiInv'
<1>0. /\ WifiTypeOK /\ OutIsEmpty /\ GensInOrder /\ ArrivesOnce /\ StageInStep /\ SkipInStep
      /\ MsaInStep /\ StopsInStep /\ WlanInStep /\ SkipOnlyIfReady /\ FirmwareHasMsa
  BY DEF WifiInv
<1> USE <1>0 DEF QmiDeinit, aroundWorker, NoWork, Stages, WorkerSteps, EventTypes
<1>1. WifiTypeOK'
  <2> USE DEF WifiTypeOK
  <2>1. /\ snoc' \in {"out", "lookup", "init_done", "up", "unregister", "deinit", "release", "cancel"}
        /\ lives' \in Nat /\ told' \in Nat /\ orderly' \subseteq Nat
    OBVIOUS
  <2>2. fw' \in [gen : Nat, live : BOOLEAN, stage : Stages]
    OBVIOUS
  <2>3. events' \in Seq(EventTypes \X Nat)
    OBVIOUS
  <2>4. wk' \in [pc : WorkerSteps, gen : Nat, ready : BOOLEAN]
    OBVIOUS
  <2>5. fwReady' \in BOOLEAN
    OBVIOUS
  <2>6. msa' \in BOOLEAN
    OBVIOUS
  <2>7. flags' \subseteq WifiFlags /\ wlan' \in {"out", "up"}
    OBVIOUS
  <2>8. windows' \subseteq {"restarted", "ready", "dropped", "crossed", "taken_back", "left", "late",
                            "probe_failed"}
    OBVIOUS
  <2> QED BY <2>1, <2>2, <2>3, <2>4, <2>5, <2>6, <2>7, <2>8 DEF WifiTypeOK
<1>2. OutIsEmpty'
  BY DEF WifiTypeOK, OutIsEmpty
<1>3. GensInOrder'
  BY DEF WifiTypeOK, OutIsEmpty, GensInOrder, Places, TypeAt, GenAt
<1>4. ArrivesOnce'
  BY DEF WifiTypeOK, OutIsEmpty, GensInOrder, ArrivesOnce, Arriving, Places, TypeAt, GenAt
<1>5. StageInStep'
  BY DEF WifiTypeOK, OutIsEmpty, GensInOrder, StageInStep, Arriving, Clear, Places, TypeAt, GenAt
<1>6. SkipInStep'
  BY DEF WifiTypeOK, OutIsEmpty, GensInOrder, ArrivesOnce, StageInStep, SkipInStep, Arriving, Clear, Places, TypeAt, GenAt
<1>7. MsaInStep'
  BY DEF WifiTypeOK, OutIsEmpty, MsaInStep, ExitOwed, Arriving, Clear, Places, TypeAt, GenAt
<1>8. StopsInStep'
  BY DEF WifiTypeOK, OutIsEmpty, GensInOrder, StopsInStep, Clear, Places, TypeAt, GenAt
<1>9. WlanInStep'
  BY DEF WifiTypeOK, OutIsEmpty, WlanInStep, Clear, WifiFlags
<1>10. SkipOnlyIfReady'
  BY DEF WifiTypeOK, SkipInStep, SkipOnlyIfReady, Clear
<1>11. FirmwareHasMsa'
  BY DEF WifiTypeOK, StageInStep, MsaInStep, FirmwareHasMsa, Clear
<1> QED BY <1>1, <1>2, <1>3, <1>4, <1>5, <1>6, <1>7, <1>8, <1>9, <1>10, <1>11 DEF WifiInv

\* CancelWork keeps the invariant of the Wi-Fi driver.
LEMMA WifiCancelWorkInv == ASSUME WifiInv, CancelWork PROVE WifiInv'
<1>0. /\ WifiTypeOK /\ OutIsEmpty /\ GensInOrder /\ ArrivesOnce /\ StageInStep /\ SkipInStep
      /\ MsaInStep /\ StopsInStep /\ WlanInStep /\ SkipOnlyIfReady /\ FirmwareHasMsa
  BY DEF WifiInv
<1> USE <1>0 DEF CancelWork, aroundWorker, NoWork, Stages, WorkerSteps, EventTypes
<1>1. WifiTypeOK'
  <2> USE DEF WifiTypeOK
  <2>1. /\ snoc' \in {"out", "lookup", "init_done", "up", "unregister", "deinit", "release", "cancel"}
        /\ lives' \in Nat /\ told' \in Nat /\ orderly' \subseteq Nat
    OBVIOUS
  <2>2. fw' \in [gen : Nat, live : BOOLEAN, stage : Stages]
    OBVIOUS
  <2>3. events' \in Seq(EventTypes \X Nat)
    OBVIOUS
  <2>4. wk' \in [pc : WorkerSteps, gen : Nat, ready : BOOLEAN]
    OBVIOUS
  <2>5. fwReady' \in BOOLEAN
    OBVIOUS
  <2>6. msa' \in BOOLEAN
    OBVIOUS
  <2>7. flags' \subseteq WifiFlags /\ wlan' \in {"out", "up"}
    OBVIOUS
  <2>8. windows' \subseteq {"restarted", "ready", "dropped", "crossed", "taken_back", "left", "late",
                            "probe_failed"}
    OBVIOUS
  <2> QED BY <2>1, <2>2, <2>3, <2>4, <2>5, <2>6, <2>7, <2>8 DEF WifiTypeOK
<1>2. OutIsEmpty'
  BY DEF WifiTypeOK, OutIsEmpty
<1>3. GensInOrder'
  BY DEF WifiTypeOK, OutIsEmpty, GensInOrder, Places, TypeAt, GenAt
<1>4. ArrivesOnce'
  BY DEF WifiTypeOK, OutIsEmpty, GensInOrder, ArrivesOnce, Arriving, Places, TypeAt, GenAt
<1>5. StageInStep'
  BY DEF WifiTypeOK, OutIsEmpty, GensInOrder, StageInStep, Arriving, Clear, Places, TypeAt, GenAt
<1>6. SkipInStep'
  BY DEF WifiTypeOK, OutIsEmpty, GensInOrder, ArrivesOnce, StageInStep, SkipInStep, Arriving, Clear, Places, TypeAt, GenAt
<1>7. MsaInStep'
  BY DEF WifiTypeOK, OutIsEmpty, MsaInStep, ExitOwed, Arriving, Clear, Places, TypeAt, GenAt
<1>8. StopsInStep'
  BY DEF WifiTypeOK, OutIsEmpty, GensInOrder, StopsInStep, Clear, Places, TypeAt, GenAt
<1>9. WlanInStep'
  BY DEF WifiTypeOK, OutIsEmpty, WlanInStep, Clear, WifiFlags
<1>10. SkipOnlyIfReady'
  BY DEF WifiTypeOK, SkipInStep, SkipOnlyIfReady, Clear
<1>11. FirmwareHasMsa'
  BY DEF WifiTypeOK, StageInStep, MsaInStep, FirmwareHasMsa, Clear
<1> QED BY <1>1, <1>2, <1>3, <1>4, <1>5, <1>6, <1>7, <1>8, <1>9, <1>10, <1>11 DEF WifiInv

\* The Wi-Fi driver keeps its promises, for any number of servers and of lives of the
\* driver: the MSA memory is where it is used and comes back, the bring-up is skipped only
\* for firmware that is ready, a dump means a crash, and no wireless device outlives it.
THEOREM WifiIsSafe == WifiSpec => []WifiSafe
<1>1. WifiInit => WifiInv
  <2> SUFFICES ASSUME WifiInit PROVE WifiInv
    OBVIOUS
  <2> USE DEF WifiInit, NoWork
  <2>1. WifiTypeOK
    <3>1. fwReady \in BOOLEAN /\ msa \in BOOLEAN
      OBVIOUS
    <3>2. events \in Seq(EventTypes \X Nat)
      OBVIOUS
    <3>3. fw \in [gen : Nat, live : BOOLEAN, stage : Stages] /\ wk \in [pc : WorkerSteps, gen : Nat, ready : BOOLEAN]
      BY DEF Stages, WorkerSteps
    <3> QED BY <3>1, <3>2, <3>3 DEF WifiTypeOK
  <2>2. OutIsEmpty /\ GensInOrder /\ ArrivesOnce /\ StageInStep /\ SkipInStep
    BY DEF OutIsEmpty, GensInOrder, ArrivesOnce, StageInStep, SkipInStep, Places, Arriving
  <2>3. MsaInStep /\ StopsInStep /\ WlanInStep /\ SkipOnlyIfReady /\ FirmwareHasMsa
    BY DEF MsaInStep, StopsInStep, WlanInStep, SkipOnlyIfReady, FirmwareHasMsa, Places, Arriving
  <2> QED BY <2>1, <2>2, <2>3 DEF WifiInv
<1>2. WifiInv /\ [WifiNext]_wifiVars => WifiInv'
  <2>1. CASE UNCHANGED wifiVars
    BY <2>1 DEF wifiVars, aroundWorker, WifiInv, WifiTypeOK, OutIsEmpty, GensInOrder, ArrivesOnce, StageInStep,
       SkipInStep, MsaInStep, ExitOwed, StopsInStep, WlanInStep, SkipOnlyIfReady, FirmwareHasMsa, Places, TypeAt,
       GenAt, Arriving, Clear
  <2>2. /\ Indication("msa", "announced", "msa_ready") /\ WifiInv => WifiInv'
        /\ Indication("board", "ready", "fw_ready") /\ WifiInv => WifiInv'
    BY WifiIndicationInv DEF Stages, EventTypes
  <2> QED BY <2>1, <2>2, WifiServerAppearsInv, WifiModemShutdownInv, WifiNewServerInv, WifiDelServerInv,
     WifiIndicationInv, WifiTakeEventInv, WifiRequestFailsInv, WifiIndRegisterInv,
     WifiFwStatusInv, WifiSkipInv, WifiMsaInfoInv, WifiMapInv, WifiMsaReadyInv,
     WifiCapabilitiesInv, WifiSetupFailsInv, WifiBoardDataInv, WifiUnmapInv,
     WifiServerExitInv, WifiIndicateInv, WifiRegisterInv, WifiWifiProbeInv,
     WifiWifiProbeStepInv, WifiModemInitFailsInv, WifiFreeResourcesInv,
     WifiCoreUnregisterInv, WifiQmiDeinitInv, WifiCancelWorkInv
     DEF WifiNext
<1>3. WifiInv => WifiSafe
  <2> SUFFICES ASSUME WifiInv PROVE MsaComesBack /\ DumpMeansCrash /\ CoreGone
    BY DEF WifiInv, WifiSafe
  <2>1. MsaComesBack
    BY DEF WifiInv, WifiTypeOK, MsaInStep, ExitOwed, Places, MsaComesBack, Clear, NoWork
  <2>2. DumpMeansCrash
    BY DEF WifiInv, WifiTypeOK, StopsInStep, DumpMeansCrash, Dumps, Clear
  <2>3. CoreGone
    BY DEF WifiInv, WifiTypeOK, WlanInStep, CoreGone, Clear
  <2> QED BY <2>1, <2>2, <2>3
<1> QED BY <1>1, <1>2, <1>3, PTL DEF WifiSpec

-----------------------------------------------------------------------------
(* A GPIO line                                                             *)

(* A consumer takes the flag. *)
LEMMA LineRequestInv == ASSUME LineInv, NEW c \in Consumers, Request(c) PROVE LineInv'
<1>0. /\ LineTypeOK /\ GuardHolds /\ OneOwner /\ FreeLineFree /\ (lost \/ FlagsTell)
      /\ chip # "up" /\ linePc["irq"] # "idle" => late \/ lost
  BY DEF LineInv
<1> USE LineAssumption, <1>0 DEF Request, ChipThere, Go, Threads, LineFlags, IrqHeld
<1>1. LineTypeOK'
  BY DEF LineTypeOK
<1>2. GuardHolds'
  BY DEF LineTypeOK, GuardHolds, Guarded
<1>3. OneOwner'
  BY DEF LineTypeOK, OneOwner, FlagsTell
<1>4. FreeLineFree'
  BY DEF LineTypeOK, FreeLineFree, OneOwner, FlagsTell
<1>5. lost' \/ FlagsTell'
  BY DEF LineTypeOK, FlagsTell, OneOwner
<1>6. chip' # "up" /\ linePc'["irq"] # "idle" => late' \/ lost'
  BY DEF LineTypeOK, FlagsTell
<1> QED BY <1>1, <1>2, <1>3, <1>4, <1>5, <1>6 DEF LineInv

(* The chip agrees. *)
LEMMA LineChipRequestInv == ASSUME LineInv, NEW c \in Consumers, ChipRequest(c) PROVE LineInv'
<1>0. /\ LineTypeOK /\ GuardHolds /\ OneOwner /\ FreeLineFree /\ (lost \/ FlagsTell)
      /\ chip # "up" /\ linePc["irq"] # "idle" => late \/ lost
  BY DEF LineInv
<1> USE LineAssumption, <1>0 DEF ChipRequest, Go, Threads, LineFlags, IrqHeld
<1>1. LineTypeOK'
  BY DEF LineTypeOK
<1>2. GuardHolds'
  BY DEF LineTypeOK, GuardHolds, Guarded
<1>3. OneOwner'
  BY DEF LineTypeOK, OneOwner, FlagsTell
<1>4. FreeLineFree'
  BY DEF LineTypeOK, FreeLineFree, OneOwner, FlagsTell
<1>5. lost' \/ FlagsTell'
  BY DEF LineTypeOK, FlagsTell, OneOwner
<1>6. chip' # "up" /\ linePc'["irq"] # "idle" => late' \/ lost'
  BY DEF LineTypeOK, FlagsTell
<1> QED BY <1>1, <1>2, <1>3, <1>4, <1>5, <1>6 DEF LineInv

(* A request that fails gives the flag back. *)
LEMMA LineRequestRefusedInv == ASSUME LineInv, NEW c \in Consumers, RequestRefused(c) PROVE LineInv'
<1>0. /\ LineTypeOK /\ GuardHolds /\ OneOwner /\ FreeLineFree /\ (lost \/ FlagsTell)
      /\ chip # "up" /\ linePc["irq"] # "idle" => late \/ lost
  BY DEF LineInv
<1> USE LineAssumption, <1>0 DEF RequestRefused, Go, Threads, LineFlags, IrqHeld
<1>1. LineTypeOK'
  BY DEF LineTypeOK
<1>2. GuardHolds'
  BY DEF LineTypeOK, GuardHolds, Guarded
<1>3. OneOwner'
  BY DEF LineTypeOK, OneOwner, FlagsTell
<1>4. FreeLineFree'
  BY DEF LineTypeOK, FreeLineFree, OneOwner, FlagsTell
<1>5. lost' \/ FlagsTell'
  BY DEF LineTypeOK, FlagsTell, OneOwner
<1>6. chip' # "up" /\ linePc'["irq"] # "idle" => late' \/ lost'
  BY DEF LineTypeOK, FlagsTell
<1> QED BY <1>1, <1>2, <1>3, <1>4, <1>5, <1>6 DEF LineInv

(* The consumer has the line. *)
LEMMA LineRequestedInv == ASSUME LineInv, NEW c \in Consumers, Requested(c) PROVE LineInv'
<1>0. /\ LineTypeOK /\ GuardHolds /\ OneOwner /\ FreeLineFree /\ (lost \/ FlagsTell)
      /\ chip # "up" /\ linePc["irq"] # "idle" => late \/ lost
  BY DEF LineInv
<1> USE LineAssumption, <1>0 DEF Requested, Go, Threads, LineFlags, IrqHeld
<1>1. LineTypeOK'
  BY DEF LineTypeOK
<1>2. GuardHolds'
  BY DEF LineTypeOK, GuardHolds, Guarded
<1>3. OneOwner'
  BY DEF LineTypeOK, OneOwner, FlagsTell
<1>4. FreeLineFree'
  BY DEF LineTypeOK, FreeLineFree, OneOwner, FlagsTell
<1>5. lost' \/ FlagsTell'
  BY DEF LineTypeOK, FlagsTell, OneOwner
<1>6. chip' # "up" /\ linePc'["irq"] # "idle" => late' \/ lost'
  BY DEF LineTypeOK, FlagsTell
<1> QED BY <1>1, <1>2, <1>3, <1>4, <1>5, <1>6 DEF LineInv

(* An output is allowed. *)
LEMMA LineDirectionOutputInv == ASSUME LineInv, NEW c \in Consumers, DirectionOutput(c) PROVE LineInv'
<1>0. /\ LineTypeOK /\ GuardHolds /\ OneOwner /\ FreeLineFree /\ (lost \/ FlagsTell)
      /\ chip # "up" /\ linePc["irq"] # "idle" => late \/ lost
  BY DEF LineInv
<1> USE LineAssumption, <1>0 DEF DirectionOutput, ChipThere, Go, Threads, LineFlags, IrqHeld
<1>1. LineTypeOK'
  BY DEF LineTypeOK
<1>2. GuardHolds'
  BY DEF LineTypeOK, GuardHolds, Guarded
<1>3. OneOwner'
  BY DEF LineTypeOK, OneOwner, FlagsTell
<1>4. FreeLineFree'
  BY DEF LineTypeOK, FreeLineFree, OneOwner, FlagsTell
<1>5. lost' \/ FlagsTell'
  BY DEF LineTypeOK, FlagsTell, OneOwner
<1>6. chip' # "up" /\ linePc'["irq"] # "idle" => late' \/ lost'
  BY DEF LineTypeOK, FlagsTell
<1> QED BY <1>1, <1>2, <1>3, <1>4, <1>5, <1>6 DEF LineInv

(* The pin is driven. *)
LEMMA LineDriveInv == ASSUME LineInv, NEW c \in Consumers, Drive(c) PROVE LineInv'
<1>0. /\ LineTypeOK /\ GuardHolds /\ OneOwner /\ FreeLineFree /\ (lost \/ FlagsTell)
      /\ chip # "up" /\ linePc["irq"] # "idle" => late \/ lost
  BY DEF LineInv
<1> USE LineAssumption, <1>0 DEF Drive, Go, Threads, LineFlags, IrqHeld
<1>1. LineTypeOK'
  BY DEF LineTypeOK
<1>2. GuardHolds'
  BY DEF LineTypeOK, GuardHolds, Guarded
<1>3. OneOwner'
  BY DEF LineTypeOK, OneOwner, FlagsTell
<1>4. FreeLineFree'
  BY DEF LineTypeOK, FreeLineFree, OneOwner, FlagsTell
<1>5. lost' \/ FlagsTell'
  BY DEF LineTypeOK, FlagsTell, OneOwner
<1>6. chip' # "up" /\ linePc'["irq"] # "idle" => late' \/ lost'
  BY DEF LineTypeOK, FlagsTell
<1> QED BY <1>1, <1>2, <1>3, <1>4, <1>5, <1>6 DEF LineInv

(* The direction is flagged. *)
LEMMA LineFlagOutputInv == ASSUME LineInv, NEW c \in Consumers, FlagOutput(c) PROVE LineInv'
<1>0. /\ LineTypeOK /\ GuardHolds /\ OneOwner /\ FreeLineFree /\ (lost \/ FlagsTell)
      /\ chip # "up" /\ linePc["irq"] # "idle" => late \/ lost
  BY DEF LineInv
<1> USE LineAssumption, <1>0 DEF FlagOutput, Go, Threads, LineFlags, IrqHeld
<1>1. LineTypeOK'
  BY DEF LineTypeOK
<1>2. GuardHolds'
  BY DEF LineTypeOK, GuardHolds, Guarded
<1>3. OneOwner'
  BY DEF LineTypeOK, OneOwner, FlagsTell
<1>4. FreeLineFree'
  BY DEF LineTypeOK, FreeLineFree, OneOwner, FlagsTell
<1>5. lost' \/ FlagsTell'
  BY DEF LineTypeOK, FlagsTell, OneOwner
<1>6. chip' # "up" /\ linePc'["irq"] # "idle" => late' \/ lost'
  BY DEF LineTypeOK, FlagsTell
<1> QED BY <1>1, <1>2, <1>3, <1>4, <1>5, <1>6 DEF LineInv

(* The pin becomes an input. *)
LEMMA LineDirectionInputInv == ASSUME LineInv, NEW c \in Consumers, DirectionInput(c) PROVE LineInv'
<1>0. /\ LineTypeOK /\ GuardHolds /\ OneOwner /\ FreeLineFree /\ (lost \/ FlagsTell)
      /\ chip # "up" /\ linePc["irq"] # "idle" => late \/ lost
  BY DEF LineInv
<1> USE LineAssumption, <1>0 DEF DirectionInput, ChipThere, Go, Threads, LineFlags, IrqHeld
<1>1. LineTypeOK'
  BY DEF LineTypeOK
<1>2. GuardHolds'
  BY DEF LineTypeOK, GuardHolds, Guarded
<1>3. OneOwner'
  BY DEF LineTypeOK, OneOwner, FlagsTell
<1>4. FreeLineFree'
  BY DEF LineTypeOK, FreeLineFree, OneOwner, FlagsTell
<1>5. lost' \/ FlagsTell'
  BY DEF LineTypeOK, FlagsTell, OneOwner
<1>6. chip' # "up" /\ linePc'["irq"] # "idle" => late' \/ lost'
  BY DEF LineTypeOK, FlagsTell
<1> QED BY <1>1, <1>2, <1>3, <1>4, <1>5, <1>6 DEF LineInv

(* The consumer gives the line up. *)
LEMMA LineFreeInv == ASSUME LineInv, NEW c \in Consumers, Free(c) PROVE LineInv'
<1>0. /\ LineTypeOK /\ GuardHolds /\ OneOwner /\ FreeLineFree /\ (lost \/ FlagsTell)
      /\ chip # "up" /\ linePc["irq"] # "idle" => late \/ lost
  BY DEF LineInv
<1> USE LineAssumption, <1>0 DEF Free, ChipThere, Read, Go, Threads, LineFlags, IrqHeld
<1>1. LineTypeOK'
  <2>1. linePc' \in [Threads -> {"idle", "request", "direction", "write_back", "label", "owner", "drive",
                                "flag", "free", "on", "off"}]
        /\ linePc'["irq"] = linePc["irq"] /\ \A d \in Consumers : linePc'[d] \notin {"on", "off"}
    BY DEF LineTypeOK
  <2>2. snap' \in [Threads -> SUBSET LineFlags]
    <3>1. lineFlags \in SUBSET LineFlags /\ snap \in [Threads -> SUBSET LineFlags]
      BY DEF LineTypeOK
    <3>2. snap' = [snap EXCEPT ![c] = lineFlags] \/ snap' = snap
      OBVIOUS
    <3> HIDE DEF LineFlags, Free, Threads
    <3> QED BY <3>1, <3>2
  <2> QED BY <2>1, <2>2 DEF LineTypeOK
<1>2. GuardHolds'
  BY DEF LineTypeOK, GuardHolds, Guarded
<1>3. OneOwner'
  BY DEF LineTypeOK, OneOwner, FlagsTell
<1>4. FreeLineFree'
  BY DEF LineTypeOK, FreeLineFree, OneOwner, FlagsTell
<1>5. lost' \/ FlagsTell'
  BY DEF LineTypeOK, FlagsTell, OneOwner
<1>6. chip' # "up" /\ linePc'["irq"] # "idle" => late' \/ lost'
  BY DEF LineTypeOK, FlagsTell
<1> QED BY <1>1, <1>2, <1>3, <1>4, <1>5, <1>6 DEF LineInv

(* The flags are written back without the request. *)
LEMMA LineFreeWriteInv == ASSUME LineInv, NEW c \in Consumers, FreeWrite(c) PROVE LineInv'
<1>0. /\ LineTypeOK /\ GuardHolds /\ OneOwner /\ FreeLineFree /\ (lost \/ FlagsTell)
      /\ chip # "up" /\ linePc["irq"] # "idle" => late \/ lost
  BY DEF LineInv
<1> USE LineAssumption, <1>0 DEF FreeWrite, WriteBack, Go, Threads, LineFlags, IrqHeld
<1>1. LineTypeOK'
  BY DEF LineTypeOK
<1>2. GuardHolds'
  BY DEF LineTypeOK, GuardHolds, Guarded
<1>3. OneOwner'
  BY DEF LineTypeOK, OneOwner, FlagsTell
<1>4. FreeLineFree'
  BY DEF LineTypeOK, FreeLineFree, OneOwner, FlagsTell
<1>5. lost' \/ FlagsTell'
  BY DEF LineTypeOK, FlagsTell, OneOwner
<1>6. chip' # "up" /\ linePc'["irq"] # "idle" => late' \/ lost'
  BY DEF LineTypeOK, FlagsTell
<1> QED BY <1>1, <1>2, <1>3, <1>4, <1>5, <1>6 DEF LineInv

(* A thread reads the flags and the direction. *)
LEMMA LineGetDirectionInv == ASSUME LineInv, NEW t \in Threads, GetDirection(t) PROVE LineInv'
<1>0. /\ LineTypeOK /\ GuardHolds /\ OneOwner /\ FreeLineFree /\ (lost \/ FlagsTell)
      /\ chip # "up" /\ linePc["irq"] # "idle" => late \/ lost
  BY DEF LineInv
<1> USE LineAssumption, <1>0 DEF GetDirection, ChipThere, Read, Go, Threads, LineFlags, IrqHeld
<1>1. LineTypeOK'
  BY DEF LineTypeOK
<1>2. GuardHolds'
  BY DEF LineTypeOK, GuardHolds, Guarded
<1>3. OneOwner'
  BY DEF LineTypeOK, OneOwner, FlagsTell
<1>4. FreeLineFree'
  BY DEF LineTypeOK, FreeLineFree, OneOwner, FlagsTell
<1>5. lost' \/ FlagsTell'
  BY DEF LineTypeOK, FlagsTell, OneOwner
<1>6. chip' # "up" /\ linePc'["irq"] # "idle" => late' \/ lost'
  BY DEF LineTypeOK, FlagsTell
<1> QED BY <1>1, <1>2, <1>3, <1>4, <1>5, <1>6 DEF LineInv

(* A thread writes the flags back with the direction. *)
LEMMA LineWriteDirectionInv == ASSUME LineInv, NEW t \in Threads, WriteDirection(t) PROVE LineInv'
<1>0. /\ LineTypeOK /\ GuardHolds /\ OneOwner /\ FreeLineFree /\ (lost \/ FlagsTell)
      /\ chip # "up" /\ linePc["irq"] # "idle" => late \/ lost
  BY DEF LineInv
<1> USE LineAssumption, <1>0 DEF WriteDirection, WriteBack, Go, Threads, LineFlags, IrqHeld
<1>1. LineTypeOK'
  BY DEF LineTypeOK
<1>2. GuardHolds'
  BY DEF LineTypeOK, GuardHolds, Guarded
<1>3. OneOwner'
  BY DEF LineTypeOK, OneOwner, FlagsTell
<1>4. FreeLineFree'
  BY DEF LineTypeOK, FreeLineFree, OneOwner, FlagsTell
<1>5. lost' \/ FlagsTell'
  BY DEF LineTypeOK, FlagsTell, OneOwner
<1>6. chip' # "up" /\ linePc'["irq"] # "idle" => late' \/ lost'
  BY DEF LineTypeOK, FlagsTell
<1> QED BY <1>1, <1>2, <1>3, <1>4, <1>5, <1>6 DEF LineInv

(* The interrupt is requested. *)
LEMMA LineIrqRequestInv == ASSUME LineInv, IrqRequest PROVE LineInv'
<1>0. /\ LineTypeOK /\ GuardHolds /\ OneOwner /\ FreeLineFree /\ (lost \/ FlagsTell)
      /\ chip # "up" /\ linePc["irq"] # "idle" => late \/ lost
  BY DEF LineInv
<1> USE LineAssumption, <1>0 DEF IrqRequest, ChipThere, Go, Threads, LineFlags, IrqHeld
<1>1. LineTypeOK'
  BY DEF LineTypeOK
<1>2. GuardHolds'
  BY DEF LineTypeOK, GuardHolds, Guarded
<1>3. OneOwner'
  BY DEF LineTypeOK, OneOwner, FlagsTell
<1>4. FreeLineFree'
  BY DEF LineTypeOK, FreeLineFree, OneOwner, FlagsTell
<1>5. lost' \/ FlagsTell'
  BY DEF LineTypeOK, FlagsTell, OneOwner
<1>6. chip' # "up" /\ linePc'["irq"] # "idle" => late' \/ lost'
  BY DEF LineTypeOK, FlagsTell
<1> QED BY <1>1, <1>2, <1>3, <1>4, <1>5, <1>6 DEF LineInv

(* The chip went away before the lock. *)
LEMMA LineLockFailsInv == ASSUME LineInv, LockFails PROVE LineInv'
<1>0. /\ LineTypeOK /\ GuardHolds /\ OneOwner /\ FreeLineFree /\ (lost \/ FlagsTell)
      /\ chip # "up" /\ linePc["irq"] # "idle" => late \/ lost
  BY DEF LineInv
<1> USE LineAssumption, <1>0 DEF LockFails, ChipThere, Go, Threads, LineFlags, IrqHeld
<1>1. LineTypeOK'
  BY DEF LineTypeOK
<1>2. GuardHolds'
  BY DEF LineTypeOK, GuardHolds, Guarded
<1>3. OneOwner'
  BY DEF LineTypeOK, OneOwner, FlagsTell
<1>4. FreeLineFree'
  BY DEF LineTypeOK, FreeLineFree, OneOwner, FlagsTell
<1>5. lost' \/ FlagsTell'
  BY DEF LineTypeOK, FlagsTell, OneOwner
<1>6. chip' # "up" /\ linePc'["irq"] # "idle" => late' \/ lost'
  BY DEF LineTypeOK, FlagsTell
<1> QED BY <1>1, <1>2, <1>3, <1>4, <1>5, <1>6 DEF LineInv

(* The line is locked as an interrupt. *)
LEMMA LineLockAsIrqInv == ASSUME LineInv, LockAsIrq PROVE LineInv'
<1>0. /\ LineTypeOK /\ GuardHolds /\ OneOwner /\ FreeLineFree /\ (lost \/ FlagsTell)
      /\ chip # "up" /\ linePc["irq"] # "idle" => late \/ lost
  BY DEF LineInv
<1> USE LineAssumption, <1>0 DEF LockAsIrq, Go, Threads, LineFlags, IrqHeld
<1>1. LineTypeOK'
  <2>1. linePc' \in [Threads -> {"idle", "request", "direction", "write_back", "label", "owner", "drive",
                                "flag", "free", "on", "off"}]
        /\ linePc'["irq"] \in {"idle", "on"} /\ \A d \in Consumers : linePc'[d] = linePc[d]
    BY DEF LineTypeOK
  <2>2. lineFlags' \subseteq LineFlags
    BY ZenonT(40) DEF LineTypeOK
  <2> QED BY <2>1, <2>2 DEF LineTypeOK
<1>2. GuardHolds'
  BY DEF LineTypeOK, GuardHolds, Guarded
<1>3. OneOwner'
  BY DEF LineTypeOK, OneOwner, FlagsTell
<1>4. FreeLineFree'
  BY DEF LineTypeOK, FreeLineFree, OneOwner, FlagsTell
<1>5. lost' \/ FlagsTell'
  BY DEF LineTypeOK, FlagsTell, OneOwner
<1>6. chip' # "up" /\ linePc'["irq"] # "idle" => late' \/ lost'
  BY DEF LineTypeOK, FlagsTell
<1> QED BY <1>1, <1>2, <1>3, <1>4, <1>5, <1>6 DEF LineInv

(* The interrupt is disabled. *)
LEMMA LineIrqDisableInv == ASSUME LineInv, IrqDisable PROVE LineInv'
<1>0. /\ LineTypeOK /\ GuardHolds /\ OneOwner /\ FreeLineFree /\ (lost \/ FlagsTell)
      /\ chip # "up" /\ linePc["irq"] # "idle" => late \/ lost
  BY DEF LineInv
<1> USE LineAssumption, <1>0 DEF IrqDisable, Go, Threads, LineFlags, IrqHeld
<1>1. LineTypeOK'
  BY DEF LineTypeOK
<1>2. GuardHolds'
  BY DEF LineTypeOK, GuardHolds, Guarded
<1>3. OneOwner'
  BY DEF LineTypeOK, OneOwner, FlagsTell
<1>4. FreeLineFree'
  BY DEF LineTypeOK, FreeLineFree, OneOwner, FlagsTell
<1>5. lost' \/ FlagsTell'
  BY DEF LineTypeOK, FlagsTell, OneOwner
<1>6. chip' # "up" /\ linePc'["irq"] # "idle" => late' \/ lost'
  BY DEF LineTypeOK, FlagsTell
<1> QED BY <1>1, <1>2, <1>3, <1>4, <1>5, <1>6 DEF LineInv

(* The interrupt is enabled. *)
LEMMA LineIrqEnableInv == ASSUME LineInv, IrqEnable PROVE LineInv'
<1>0. /\ LineTypeOK /\ GuardHolds /\ OneOwner /\ FreeLineFree /\ (lost \/ FlagsTell)
      /\ chip # "up" /\ linePc["irq"] # "idle" => late \/ lost
  BY DEF LineInv
<1> USE LineAssumption, <1>0 DEF IrqEnable, Go, Threads, LineFlags, IrqHeld
<1>1. LineTypeOK'
  BY DEF LineTypeOK
<1>2. GuardHolds'
  BY DEF LineTypeOK, GuardHolds, Guarded
<1>3. OneOwner'
  BY DEF LineTypeOK, OneOwner, FlagsTell
<1>4. FreeLineFree'
  BY DEF LineTypeOK, FreeLineFree, OneOwner, FlagsTell
<1>5. lost' \/ FlagsTell'
  BY DEF LineTypeOK, FlagsTell, OneOwner
<1>6. chip' # "up" /\ linePc'["irq"] # "idle" => late' \/ lost'
  BY DEF LineTypeOK, FlagsTell
<1> QED BY <1>1, <1>2, <1>3, <1>4, <1>5, <1>6 DEF LineInv

(* The interrupt is freed. *)
LEMMA LineIrqFreeInv == ASSUME LineInv, IrqFree PROVE LineInv'
<1>0. /\ LineTypeOK /\ GuardHolds /\ OneOwner /\ FreeLineFree /\ (lost \/ FlagsTell)
      /\ chip # "up" /\ linePc["irq"] # "idle" => late \/ lost
  BY DEF LineInv
<1> USE LineAssumption, <1>0 DEF IrqFree, Go, Threads, LineFlags, IrqHeld
<1>1. LineTypeOK'
  BY DEF LineTypeOK
<1>2. GuardHolds'
  BY DEF LineTypeOK, GuardHolds, Guarded
<1>3. OneOwner'
  BY DEF LineTypeOK, OneOwner, FlagsTell
<1>4. FreeLineFree'
  BY DEF LineTypeOK, FreeLineFree, OneOwner, FlagsTell
<1>5. lost' \/ FlagsTell'
  BY DEF LineTypeOK, FlagsTell, OneOwner
<1>6. chip' # "up" /\ linePc'["irq"] # "idle" => late' \/ lost'
  BY DEF LineTypeOK, FlagsTell
<1> QED BY <1>1, <1>2, <1>3, <1>4, <1>5, <1>6 DEF LineInv

(* Removal frees the interrupts it finds. *)
LEMMA LineFreeRemainingIrqsInv == ASSUME LineInv, FreeRemainingIrqs PROVE LineInv'
<1>0. /\ LineTypeOK /\ GuardHolds /\ OneOwner /\ FreeLineFree /\ (lost \/ FlagsTell)
      /\ chip # "up" /\ linePc["irq"] # "idle" => late \/ lost
  BY DEF LineInv
<1> USE LineAssumption, <1>0 DEF FreeRemainingIrqs, Go, Threads, LineFlags, IrqHeld
<1>1. LineTypeOK'
  BY ZenonT(40) DEF LineTypeOK
<1>2. GuardHolds'
  BY DEF LineTypeOK, GuardHolds, Guarded
<1>3. OneOwner'
  BY DEF LineTypeOK, OneOwner, FlagsTell
<1>4. FreeLineFree'
  BY DEF LineTypeOK, FreeLineFree, OneOwner, FlagsTell
<1>5. lost' \/ FlagsTell'
  BY DEF LineTypeOK, FlagsTell, OneOwner
<1>6. chip' # "up" /\ linePc'["irq"] # "idle" => late' \/ lost'
  BY DEF LineTypeOK, FlagsTell
<1> QED BY <1>1, <1>2, <1>3, <1>4, <1>5, <1>6 DEF LineInv

(* Removal hides the chip. *)
LEMMA LineNumbInv == ASSUME LineInv, Numb PROVE LineInv'
<1>0. /\ LineTypeOK /\ GuardHolds /\ OneOwner /\ FreeLineFree /\ (lost \/ FlagsTell)
      /\ chip # "up" /\ linePc["irq"] # "idle" => late \/ lost
  BY DEF LineInv
<1> USE LineAssumption, <1>0 DEF Numb, Go, Threads, LineFlags, IrqHeld
<1>1. LineTypeOK'
  BY DEF LineTypeOK
<1>2. GuardHolds'
  BY DEF LineTypeOK, GuardHolds, Guarded
<1>3. OneOwner'
  BY DEF LineTypeOK, OneOwner, FlagsTell
<1>4. FreeLineFree'
  BY DEF LineTypeOK, FreeLineFree, OneOwner, FlagsTell
<1>5. lost' \/ FlagsTell'
  BY DEF LineTypeOK, FlagsTell, OneOwner
<1>6. chip' # "up" /\ linePc'["irq"] # "idle" => late' \/ lost'
  BY DEF LineTypeOK, FlagsTell
<1> QED BY <1>1, <1>2, <1>3, <1>4, <1>5, <1>6 DEF LineInv

(* Removal waits for who uses the chip. *)
LEMMA LineSynchronizeInv == ASSUME LineInv, Synchronize PROVE LineInv'
<1>0. /\ LineTypeOK /\ GuardHolds /\ OneOwner /\ FreeLineFree /\ (lost \/ FlagsTell)
      /\ chip # "up" /\ linePc["irq"] # "idle" => late \/ lost
  BY DEF LineInv
<1> USE LineAssumption, <1>0 DEF Synchronize, Go, Threads, LineFlags, IrqHeld
<1>1. LineTypeOK'
  BY DEF LineTypeOK
<1>2. GuardHolds'
  BY DEF LineTypeOK, GuardHolds, Guarded
<1>3. OneOwner'
  BY DEF LineTypeOK, OneOwner, FlagsTell
<1>4. FreeLineFree'
  BY DEF LineTypeOK, FreeLineFree, OneOwner, FlagsTell
<1>5. lost' \/ FlagsTell'
  BY DEF LineTypeOK, FlagsTell, OneOwner
<1>6. chip' # "up" /\ linePc'["irq"] # "idle" => late' \/ lost'
  BY DEF LineTypeOK, FlagsTell
<1> QED BY <1>1, <1>2, <1>3, <1>4, <1>5, <1>6 DEF LineInv

(* The line starts with no flag and no user. *)
LEMMA LineInitInv == LineInit => LineInv
<1> SUFFICES ASSUME LineInit PROVE LineInv
  OBVIOUS
<1> USE LineAssumption DEF LineInit, Threads, LineFlags, IrqHeld
<1>1. LineTypeOK
  <2>1. {valid, oe, lost, late} \subseteq BOOLEAN
    BY Zenon
  <2> QED BY <2>1 DEF LineTypeOK
<1>2. GuardHolds /\ OneOwner /\ FreeLineFree /\ FlagsTell
  BY DEF GuardHolds, OneOwner, FreeLineFree, FlagsTell
<1> QED BY <1>1, <1>2 DEF LineInv

(* For any number of consumers: a line has one owner and is free when it   *)
(* has none, removal waits for everybody who works on the chip and leaves  *)
(* no interrupt behind, unless a write back undid a change or the          *)
(* interrupt came late.                                                    *)
THEOREM LineIsSafe == LineSpec => []LineSafe
<1>1. LineInv /\ [LineNext]_lineVars => LineInv'
  <2> SUFFICES ASSUME LineInv, [LineNext]_lineVars PROVE LineInv'
    OBVIOUS
  <2>1. CASE UNCHANGED lineVars
    BY <2>1 DEF lineVars, LineInv, LineTypeOK, GuardHolds, Guarded, OneOwner, FreeLineFree, FlagsTell, IrqHeld
  <2> QED BY <2>1, LineRequestInv, LineChipRequestInv, LineRequestRefusedInv, LineRequestedInv, LineDirectionOutputInv,
        LineDriveInv, LineFlagOutputInv, LineDirectionInputInv, LineFreeInv, LineFreeWriteInv,
        LineGetDirectionInv, LineWriteDirectionInv, LineIrqRequestInv, LineLockFailsInv, LineLockAsIrqInv,
        LineIrqDisableInv, LineIrqEnableInv, LineIrqFreeInv, LineFreeRemainingIrqsInv, LineNumbInv,
        LineSynchronizeInv DEF LineNext
<1>2. LineInv => LineSafe
  BY DEF LineInv, LineTypeOK, LineSafe, IrqGoneWithChip, IrqFlagged, FlagsTell, IrqHeld
<1> QED BY <1>1, <1>2, LineInitInv, PTL DEF LineSpec

-----------------------------------------------------------------------------
(* A TLMM interrupt                                                        *)

(* The line moves. *)
LEMMA TlmmLineMovesInv == ASSUME TlmmInv, LineMoves PROVE TlmmInv'
<1>0. /\ TlmmTypeOK /\ EdgesPrimed /\ LevelLatched /\ (~mux => irqPc = "wait" /\ muxed)
  BY DEF TlmmInv
<1> USE TlmmAssumption, <1>0 DEF LineMoves
<1>1. TlmmTypeOK'
  BY DEF TlmmTypeOK
<1>2. EdgesPrimed'
  BY DEF TlmmTypeOK, EdgesPrimed, Excused
<1>3. LevelLatched'
  BY DEF TlmmTypeOK, LevelLatched
<1>4. ~mux' => irqPc' = "wait" /\ muxed'
  BY DEF TlmmTypeOK
<1> QED BY <1>1, <1>2, <1>3, <1>4 DEF TlmmInv

(* The type is set. *)
LEMMA TlmmSetTypeInv == ASSUME TlmmInv, SetType PROVE TlmmInv'
<1>0. /\ TlmmTypeOK /\ EdgesPrimed /\ LevelLatched /\ (~mux => irqPc = "wait" /\ muxed)
  BY DEF TlmmInv
<1> USE TlmmAssumption, <1>0 DEF SetType
<1>1. TlmmTypeOK'
  <2>1. tries' \in 0 .. LoopLimit
    BY DEF TlmmTypeOK
  <2>2. /\ gaveUp' \in BOOLEAN /\ blind' \in BOOLEAN /\ muxed' \in BOOLEAN
        /\ latch' \in BOOLEAN /\ pol' \in BOOLEAN
    BY DEF TlmmTypeOK
  <2>3. UNCHANGED <<kind, level, raw, val, seen, mux, fresh>>
    OBVIOUS
  <2>4. /\ irqPc' \in CASE kind = "parent" -> {"free", "read", "set", "check", "start", "handle", "wait"}
                       [] kind = "pos" -> {"free", "value", "flip", "compare", "start", "handle", "wait"}
                       [] OTHER -> {"free", "handle", "unmask", "wait"}
        /\ irqPc' \in {"read", "set", "check", "value", "flip", "compare"} => back' \in {"start", "handle"}
    BY DEF TlmmTypeOK
  <2> HIDE DEF SetType
  <2> QED BY <2>1, <2>2, <2>3, <2>4 DEF TlmmTypeOK
<1>2. EdgesPrimed'
  BY DEF TlmmTypeOK, EdgesPrimed, Excused
<1>3. LevelLatched'
  BY DEF TlmmTypeOK, LevelLatched
<1>4. ~mux' => irqPc' = "wait" /\ muxed'
  BY DEF TlmmTypeOK
<1> QED BY <1>1, <1>2, <1>3, <1>4 DEF TlmmInv

(* The loop guesses from the value. *)
LEMMA TlmmParentReadInv == ASSUME TlmmInv, ParentRead PROVE TlmmInv'
<1>0. /\ TlmmTypeOK /\ EdgesPrimed /\ LevelLatched /\ (~mux => irqPc = "wait" /\ muxed)
  BY DEF TlmmInv
<1> USE TlmmAssumption, <1>0 DEF ParentRead
<1>1. TlmmTypeOK'
  BY DEF TlmmTypeOK
<1>2. EdgesPrimed'
  BY DEF TlmmTypeOK, EdgesPrimed, Excused
<1>3. LevelLatched'
  BY DEF TlmmTypeOK, LevelLatched
<1>4. ~mux' => irqPc' = "wait" /\ muxed'
  BY DEF TlmmTypeOK
<1> QED BY <1>1, <1>2, <1>3, <1>4 DEF TlmmInv

(* The parent gets the type. *)
LEMMA TlmmParentSetInv == ASSUME TlmmInv, ParentSet PROVE TlmmInv'
<1>0. /\ TlmmTypeOK /\ EdgesPrimed /\ LevelLatched /\ (~mux => irqPc = "wait" /\ muxed)
  BY DEF TlmmInv
<1> USE TlmmAssumption, <1>0 DEF ParentSet
<1>1. TlmmTypeOK'
  BY DEF TlmmTypeOK
<1>2. EdgesPrimed'
  BY DEF TlmmTypeOK, EdgesPrimed, Excused
<1>3. LevelLatched'
  BY DEF TlmmTypeOK, LevelLatched
<1>4. ~mux' => irqPc' = "wait" /\ muxed'
  BY DEF TlmmTypeOK
<1> QED BY <1>1, <1>2, <1>3, <1>4 DEF TlmmInv

(* The loop looks again. *)
LEMMA TlmmParentCheckInv == ASSUME TlmmInv, ParentCheck PROVE TlmmInv'
<1>0. /\ TlmmTypeOK /\ EdgesPrimed /\ LevelLatched /\ (~mux => irqPc = "wait" /\ muxed)
  BY DEF TlmmInv
<1> USE TlmmAssumption, <1>0 DEF ParentCheck
<1>1. TlmmTypeOK'
  <2>1. tries' \in 0 .. LoopLimit
    BY DEF TlmmTypeOK
  <2>2. /\ gaveUp' \in BOOLEAN /\ blind' \in BOOLEAN /\ muxed' \in BOOLEAN
        /\ latch' \in BOOLEAN /\ pol' \in BOOLEAN
    BY DEF TlmmTypeOK
  <2>3. UNCHANGED <<kind, level, raw, seen, mux, fresh>> /\ val' \in BOOLEAN
    BY DEF TlmmTypeOK
  <2>4. /\ irqPc' \in CASE kind = "parent" -> {"free", "read", "set", "check", "start", "handle", "wait"}
                       [] kind = "pos" -> {"free", "value", "flip", "compare", "start", "handle", "wait"}
                       [] OTHER -> {"free", "handle", "unmask", "wait"}
        /\ irqPc' \in {"read", "set", "check", "value", "flip", "compare"} => back' \in {"start", "handle"}
    BY DEF TlmmTypeOK
  <2> HIDE DEF ParentCheck
  <2> QED BY <2>1, <2>2, <2>3, <2>4 DEF TlmmTypeOK
<1>2. EdgesPrimed'
  BY DEF TlmmTypeOK, EdgesPrimed, Excused
<1>3. LevelLatched'
  BY DEF TlmmTypeOK, LevelLatched
<1>4. ~mux' => irqPc' = "wait" /\ muxed'
  BY DEF TlmmTypeOK
<1> QED BY <1>1, <1>2, <1>3, <1>4 DEF TlmmInv

(* The loop reads the value. *)
LEMMA TlmmPosValueInv == ASSUME TlmmInv, PosValue PROVE TlmmInv'
<1>0. /\ TlmmTypeOK /\ EdgesPrimed /\ LevelLatched /\ (~mux => irqPc = "wait" /\ muxed)
  BY DEF TlmmInv
<1> USE TlmmAssumption, <1>0 DEF PosValue
<1>1. TlmmTypeOK'
  BY DEF TlmmTypeOK
<1>2. EdgesPrimed'
  BY DEF TlmmTypeOK, EdgesPrimed, Excused
<1>3. LevelLatched'
  BY DEF TlmmTypeOK, LevelLatched
<1>4. ~mux' => irqPc' = "wait" /\ muxed'
  BY DEF TlmmTypeOK
<1> QED BY <1>1, <1>2, <1>3, <1>4 DEF TlmmInv

(* The polarity is flipped. *)
LEMMA TlmmPosFlipInv == ASSUME TlmmInv, PosFlip PROVE TlmmInv'
<1>0. /\ TlmmTypeOK /\ EdgesPrimed /\ LevelLatched /\ (~mux => irqPc = "wait" /\ muxed)
  BY DEF TlmmInv
<1> USE TlmmAssumption, <1>0 DEF PosFlip
<1>1. TlmmTypeOK'
  BY DEF TlmmTypeOK
<1>2. EdgesPrimed'
  BY DEF TlmmTypeOK, EdgesPrimed, Excused
<1>3. LevelLatched'
  BY DEF TlmmTypeOK, LevelLatched
<1>4. ~mux' => irqPc' = "wait" /\ muxed'
  BY DEF TlmmTypeOK
<1> QED BY <1>1, <1>2, <1>3, <1>4 DEF TlmmInv

(* The loop compares. *)
LEMMA TlmmPosCompareInv == ASSUME TlmmInv, PosCompare PROVE TlmmInv'
<1>0. /\ TlmmTypeOK /\ EdgesPrimed /\ LevelLatched /\ (~mux => irqPc = "wait" /\ muxed)
  BY DEF TlmmInv
<1> USE TlmmAssumption, <1>0 DEF PosCompare
<1>1. TlmmTypeOK'
  <2>1. tries' \in 0 .. LoopLimit
    BY DEF TlmmTypeOK
  <2>2. /\ gaveUp' \in BOOLEAN /\ blind' \in BOOLEAN /\ muxed' \in BOOLEAN
        /\ latch' \in BOOLEAN /\ pol' \in BOOLEAN
    BY DEF TlmmTypeOK
  <2>3. UNCHANGED <<kind, level, raw, val, seen, mux, fresh>>
    OBVIOUS
  <2>4. /\ irqPc' \in CASE kind = "parent" -> {"free", "read", "set", "check", "start", "handle", "wait"}
                       [] kind = "pos" -> {"free", "value", "flip", "compare", "start", "handle", "wait"}
                       [] OTHER -> {"free", "handle", "unmask", "wait"}
        /\ irqPc' \in {"read", "set", "check", "value", "flip", "compare"} => back' \in {"start", "handle"}
    BY DEF TlmmTypeOK
  <2> HIDE DEF PosCompare
  <2> QED BY <2>1, <2>2, <2>3, <2>4 DEF TlmmTypeOK
<1>2. EdgesPrimed'
  BY DEF TlmmTypeOK, EdgesPrimed, Excused
<1>3. LevelLatched'
  BY DEF TlmmTypeOK, LevelLatched
<1>4. ~mux' => irqPc' = "wait" /\ muxed'
  BY DEF TlmmTypeOK
<1> QED BY <1>1, <1>2, <1>3, <1>4 DEF TlmmInv

(* The driver starts. *)
LEMMA TlmmStartInv == ASSUME TlmmInv, Start PROVE TlmmInv'
<1>0. /\ TlmmTypeOK /\ EdgesPrimed /\ LevelLatched /\ (~mux => irqPc = "wait" /\ muxed)
  BY DEF TlmmInv
<1> USE TlmmAssumption, <1>0 DEF Start
<1>1. TlmmTypeOK'
  BY DEF TlmmTypeOK
<1>2. EdgesPrimed'
  BY DEF TlmmTypeOK, EdgesPrimed, Excused
<1>3. LevelLatched'
  BY DEF TlmmTypeOK, LevelLatched
<1>4. ~mux' => irqPc' = "wait" /\ muxed'
  BY DEF TlmmTypeOK
<1> QED BY <1>1, <1>2, <1>3, <1>4 DEF TlmmInv

(* An edge is taken. *)
LEMMA TlmmFireEdgeInv == ASSUME TlmmInv, FireEdge PROVE TlmmInv'
<1>0. /\ TlmmTypeOK /\ EdgesPrimed /\ LevelLatched /\ (~mux => irqPc = "wait" /\ muxed)
  BY DEF TlmmInv
<1> USE TlmmAssumption, <1>0 DEF FireEdge
<1>1. TlmmTypeOK'
  <2>1. tries' \in 0 .. LoopLimit
    BY DEF TlmmTypeOK
  <2>2. /\ gaveUp' \in BOOLEAN /\ blind' \in BOOLEAN /\ muxed' \in BOOLEAN
        /\ latch' \in BOOLEAN /\ pol' \in BOOLEAN
    BY DEF TlmmTypeOK
  <2>3. UNCHANGED <<kind, level, raw, val, seen, mux, fresh>>
    OBVIOUS
  <2>4. /\ irqPc' \in CASE kind = "parent" -> {"free", "read", "set", "check", "start", "handle", "wait"}
                       [] kind = "pos" -> {"free", "value", "flip", "compare", "start", "handle", "wait"}
                       [] OTHER -> {"free", "handle", "unmask", "wait"}
        /\ irqPc' \in {"read", "set", "check", "value", "flip", "compare"} => back' \in {"start", "handle"}
    BY DEF TlmmTypeOK
  <2> HIDE DEF FireEdge
  <2> QED BY <2>1, <2>2, <2>3, <2>4 DEF TlmmTypeOK
<1>2. EdgesPrimed'
  BY DEF TlmmTypeOK, EdgesPrimed, Excused
<1>3. LevelLatched'
  BY DEF TlmmTypeOK, LevelLatched
<1>4. ~mux' => irqPc' = "wait" /\ muxed'
  BY DEF TlmmTypeOK
<1> QED BY <1>1, <1>2, <1>3, <1>4 DEF TlmmInv

(* A level is taken. *)
LEMMA TlmmFireLevelInv == ASSUME TlmmInv, FireLevel PROVE TlmmInv'
<1>0. /\ TlmmTypeOK /\ EdgesPrimed /\ LevelLatched /\ (~mux => irqPc = "wait" /\ muxed)
  BY DEF TlmmInv
<1> USE TlmmAssumption, <1>0 DEF FireLevel
<1>1. TlmmTypeOK'
  BY DEF TlmmTypeOK
<1>2. EdgesPrimed'
  BY DEF TlmmTypeOK, EdgesPrimed, Excused
<1>3. LevelLatched'
  BY DEF TlmmTypeOK, LevelLatched
<1>4. ~mux' => irqPc' = "wait" /\ muxed'
  BY DEF TlmmTypeOK
<1> QED BY <1>1, <1>2, <1>3, <1>4 DEF TlmmInv

(* The handler reads the line. *)
LEMMA TlmmHandleInv == ASSUME TlmmInv, Handle PROVE TlmmInv'
<1>0. /\ TlmmTypeOK /\ EdgesPrimed /\ LevelLatched /\ (~mux => irqPc = "wait" /\ muxed)
  BY DEF TlmmInv
<1> USE TlmmAssumption, <1>0 DEF Handle
<1>1. TlmmTypeOK'
  BY DEF TlmmTypeOK
<1>2. EdgesPrimed'
  BY DEF TlmmTypeOK, EdgesPrimed, Excused
<1>3. LevelLatched'
  BY DEF TlmmTypeOK, LevelLatched
<1>4. ~mux' => irqPc' = "wait" /\ muxed'
  BY DEF TlmmTypeOK
<1> QED BY <1>1, <1>2, <1>3, <1>4 DEF TlmmInv

(* The level is unmasked. *)
LEMMA TlmmUnmaskInv == ASSUME TlmmInv, Unmask PROVE TlmmInv'
<1>0. /\ TlmmTypeOK /\ EdgesPrimed /\ LevelLatched /\ (~mux => irqPc = "wait" /\ muxed)
  BY DEF TlmmInv
<1> USE TlmmAssumption, <1>0 DEF Unmask
<1>1. TlmmTypeOK'
  BY DEF TlmmTypeOK
<1>2. EdgesPrimed'
  BY DEF TlmmTypeOK, EdgesPrimed, Excused
<1>3. LevelLatched'
  BY DEF TlmmTypeOK, LevelLatched
<1>4. ~mux' => irqPc' = "wait" /\ muxed'
  BY DEF TlmmTypeOK
<1> QED BY <1>1, <1>2, <1>3, <1>4 DEF TlmmInv

(* The pin is muxed away. *)
LEMMA TlmmMuxAwayInv == ASSUME TlmmInv, MuxAway PROVE TlmmInv'
<1>0. /\ TlmmTypeOK /\ EdgesPrimed /\ LevelLatched /\ (~mux => irqPc = "wait" /\ muxed)
  BY DEF TlmmInv
<1> USE TlmmAssumption, <1>0 DEF MuxAway
<1>1. TlmmTypeOK'
  BY ZenonT(40) DEF TlmmTypeOK
<1>2. EdgesPrimed'
  BY DEF TlmmTypeOK, EdgesPrimed, Excused
<1>3. LevelLatched'
  BY DEF TlmmTypeOK, LevelLatched
<1>4. ~mux' => irqPc' = "wait" /\ muxed'
  BY DEF TlmmTypeOK
<1> QED BY <1>1, <1>2, <1>3, <1>4 DEF TlmmInv

(* The pin is muxed back. *)
LEMMA TlmmMuxBackInv == ASSUME TlmmInv, MuxBack PROVE TlmmInv'
<1>0. /\ TlmmTypeOK /\ EdgesPrimed /\ LevelLatched /\ (~mux => irqPc = "wait" /\ muxed)
  BY DEF TlmmInv
<1> USE TlmmAssumption, <1>0 DEF MuxBack
<1>1. TlmmTypeOK'
  BY ZenonT(40) DEF TlmmTypeOK
<1>2. EdgesPrimed'
  BY DEF TlmmTypeOK, EdgesPrimed, Excused
<1>3. LevelLatched'
  BY DEF TlmmTypeOK, LevelLatched
<1>4. ~mux' => irqPc' = "wait" /\ muxed'
  BY DEF TlmmTypeOK
<1> QED BY <1>1, <1>2, <1>3, <1>4 DEF TlmmInv

(* The interrupt starts free, its pin muxed and nothing latched. *)
LEMMA TlmmInitInv == TlmmInit => TlmmInv
<1> SUFFICES ASSUME TlmmInit PROVE TlmmInv
  OBVIOUS
<1> USE TlmmAssumption DEF TlmmInit
<1>1. TlmmTypeOK
  <2>1. /\ level \in BOOLEAN /\ pol \in BOOLEAN /\ latch \in BOOLEAN /\ raw \in BOOLEAN
        /\ val \in BOOLEAN /\ seen \in BOOLEAN /\ blind \in BOOLEAN /\ gaveUp \in BOOLEAN
        /\ mux \in BOOLEAN /\ muxed \in BOOLEAN /\ fresh \in BOOLEAN
    BY Zenon
  <2>2. kind \in {"parent", "pos", "level"} /\ irqPc = "free" /\ tries = 0
    OBVIOUS
  <2> HIDE DEF TlmmInit
  <2> QED BY <2>1, <2>2 DEF TlmmTypeOK
<1>2. EdgesPrimed /\ LevelLatched
  BY DEF EdgesPrimed, LevelLatched
<1> QED BY <1>1, <1>2 DEF TlmmInv

(* For any limit of the loop: with nothing pending the driver has seen the *)
(* line as it is and the hardware waits for the edge away from it, but for *)
(* the excuses the properties name, and a level is pending exactly while   *)
(* it is active.                                                           *)
THEOREM TlmmIsSafe == TlmmSpec => []TlmmSafe
<1>1. TlmmInv /\ [TlmmNext]_tlmmVars => TlmmInv'
  <2> SUFFICES ASSUME TlmmInv, [TlmmNext]_tlmmVars PROVE TlmmInv'
    OBVIOUS
  <2>1. CASE UNCHANGED tlmmVars
    BY <2>1 DEF tlmmVars, TlmmInv, TlmmTypeOK, EdgesPrimed, Excused, LevelLatched
  <2> QED BY <2>1, TlmmLineMovesInv, TlmmSetTypeInv, TlmmParentReadInv, TlmmParentSetInv, TlmmParentCheckInv,
        TlmmPosValueInv, TlmmPosFlipInv, TlmmPosCompareInv, TlmmStartInv, TlmmFireEdgeInv,
        TlmmFireLevelInv, TlmmHandleInv, TlmmUnmaskInv, TlmmMuxAwayInv, TlmmMuxBackInv DEF TlmmNext
<1>2. TlmmInv => TlmmSafe
  BY DEF TlmmInv, TlmmTypeOK, EdgesPrimed, Excused, LevelLatched, TlmmSafe, ParentEdgesSeen, PosEdgesSeen,
     LevelExact, Quiet
<1> QED BY <1>1, <1>2, TlmmInitInv, PTL DEF TlmmSpec

-----------------------------------------------------------------------------
(* The modem's file server                                                 *)

\* The handle no client holds is none of the table.
LEMMA RmtfsFacts ==
    /\ NoFd \notin Handles
    /\ Zeros \in Nat
    /\ \A c \in Clients : NodeOf[c] \in Nodes
BY RmtfsAssumption DEF NoFd, Handles, Zeros, Nodes

\* What the steps make of a handle's state is such a state.
LEMMA HandleFacts ==
    /\ \A r \in HandleStates :
         /\ [Closed EXCEPT !.node = r.node] \in HandleStates
         /\ ~[Closed EXCEPT !.node = r.node].live
    /\ \A r \in HandleStates, k \in Nat :
         /\ Stored(r, k) \in HandleStates
         /\ Stored(r, k).live /\ Stored(r, k).shadow = k
         /\ Stored(r, k).node = r.node /\ Stored(r, k).part = r.part
BY RmtfsFacts DEF HandleStates, Closed, Stored

\* What storage_open leaves in a handle it has just taken.
LEMMA PopulatedFacts ==
    ASSUME RmtfsTypeOK, NEW n \in Nodes, NEW p \in Partitions
    PROVE  /\ Populated(n, p) \in HandleStates
           /\ Populated(n, p).live /\ Populated(n, p).node = n /\ Populated(n, p).part = p
BY RmtfsFacts DEF HandleStates, Populated, RmtfsTypeOK

\* RmtfsOpen keeps the invariant of the file server.
LEMMA RmtfsOpenKeepsInv == ASSUME RmtfsInv, NEW c \in Clients, NEW p \in Partitions, NEW h \in Handles, RmtfsOpen(c, p, h) PROVE RmtfsInv'
<1>0. /\ RmtfsTypeOK /\ HandleNamesItsFile /\ RevivedWasClosed /\ HandlesDistinct
      /\ ShadowsInStep /\ ServerSurvives /\ WriteIsStable
  BY DEF RmtfsInv
<1> USE <1>0
<1>a. h \in Handles /\ NodeOf[c] \in Nodes /\ rmtfds \in [Handles -> HandleStates]
  BY RmtfsFacts DEF RmtfsTypeOK
<1>b. \/ h \in Existing(NodeOf[c], p) /\ rmtfds' = rmtfds
      \/ /\ Existing(NodeOf[c], p) = {} /\ ~rmtfds[h].live
         /\ rmtfds' = [rmtfds EXCEPT ![h] = Populated(NodeOf[c], p)]
  BY DEF RmtfsOpen, StorageOpen, FirstHandle, Unused
<1>f. /\ rmtfds' \in [Handles -> HandleStates]
      /\ fds' = [fds EXCEPT ![c] = [fds[c] EXCEPT ![p] = h]]
      /\ \A d \in Clients, q \in Partitions :
           fds'[d][q] = IF d = c /\ q = p THEN h ELSE fds[d][q]
      /\ rmtfds'[h].live /\ rmtfds'[h].node = NodeOf[c] /\ rmtfds'[h].part = p
      /\ \A g \in Handles : g # h => rmtfds'[g] = rmtfds[g]
      /\ \/ rmtfds'[h] = rmtfds[h]
         \/ /\ ~rmtfds[h].live
            /\ \A g \in Handles : ~(rmtfds[g].live /\ rmtfds[g].node = NodeOf[c] /\ rmtfds[g].part = p)
      /\ answer' = NoAnswer
      /\ UNCHANGED <<ro, verbose, server, disk, expect, writes, upset>>
  <2>1. UNCHANGED <<ro, verbose, server, disk, expect, writes, upset>> /\ answer' = NoAnswer
        /\ fds' = [fds EXCEPT ![c] = [fds[c] EXCEPT ![p] = h]]
    BY DEF RmtfsOpen
  <2>2. \A d \in Clients, q \in Partitions : fds'[d][q] = IF d = c /\ q = p THEN h ELSE fds[d][q]
    BY <2>1 DEF RmtfsTypeOK
  <2>3. CASE h \in Existing(NodeOf[c], p) /\ rmtfds' = rmtfds
    BY <1>a, <2>1, <2>2, <2>3 DEF Existing
  <2>4. CASE /\ Existing(NodeOf[c], p) = {} /\ ~rmtfds[h].live
             /\ rmtfds' = [rmtfds EXCEPT ![h] = Populated(NodeOf[c], p)]
    <3>1. /\ Populated(NodeOf[c], p) \in HandleStates
          /\ Populated(NodeOf[c], p).live
          /\ Populated(NodeOf[c], p).node = NodeOf[c] /\ Populated(NodeOf[c], p).part = p
      BY <1>a, PopulatedFacts
    <3>2. \A g \in Handles : ~(rmtfds[g].live /\ rmtfds[g].node = NodeOf[c] /\ rmtfds[g].part = p)
      BY <2>4 DEF Existing
    <3> QED BY <1>a, <2>1, <2>2, <2>4, <3>1, <3>2
  <2> QED BY <1>b, <2>3, <2>4
<1> USE <1>a, RmtfsFacts
<1>1. RmtfsTypeOK'
  <2> USE DEF RmtfsTypeOK, NoAnswer
  <2>1. ro' \in BOOLEAN
    BY <1>f
  <2>2. verbose' \in BOOLEAN
    BY <1>f
  <2>3. server' \in {"up", "crashed"}
    BY <1>f
  <2>4. rmtfds' \in [Handles -> HandleStates]
    BY <1>f
  <2>5. disk' \in [Partitions -> [cached : Nat, stable : Nat]]
    BY <1>f
  <2>6. fds' \in [Clients -> [Partitions -> Handles \cup {NoFd}]]
    BY <1>f
  <2>7. expect' \in [Nodes -> [Partitions -> Nat]]
    BY <1>f
  <2>8. answer' \in [ok : BOOLEAN, part : Partitions \cup {"none"}, data : Nat]
    BY <1>f
  <2>9. writes' \in Nat
    BY <1>f
  <2>10. upset' \subseteq {"closed_for_another", "revived", "unsynced"}
    BY <1>f
  <2> QED BY <2>1, <2>2, <2>3, <2>4, <2>5, <2>6, <2>7, <2>8, <2>9, <2>10 DEF RmtfsTypeOK
<1>2. HandleNamesItsFile'
  BY <1>f DEF RmtfsTypeOK, HandleNamesItsFile
<1>3. RevivedWasClosed'
  BY <1>f DEF RmtfsTypeOK, RevivedWasClosed, HandleNamesItsFile
<1>4. HandlesDistinct'
  BY <1>f DEF RmtfsTypeOK, HandlesDistinct
<1>5. ShadowsInStep'
  <2> SUFFICES ASSUME ro', "closed_for_another" \notin upset',
                      NEW m \in Nodes, NEW q \in Partitions, expect'[m][q] # 0
               PROVE  \E g \in Handles :
                          /\ rmtfds'[g].live /\ rmtfds'[g].node = m /\ rmtfds'[g].part = q
                          /\ rmtfds'[g].shadow = expect'[m][q]
    BY DEF ShadowsInStep
  <2>1. PICK g \in Handles : /\ rmtfds[g].live /\ rmtfds[g].node = m /\ rmtfds[g].part = q
                             /\ rmtfds[g].shadow = expect[m][q]
    BY <1>f DEF ShadowsInStep
  <2>2. rmtfds'[g] = rmtfds[g] /\ expect' = expect
    BY <1>f, <2>1
  <2> QED BY <2>1, <2>2
<1>6. ServerSurvives'
  BY <1>f DEF RmtfsTypeOK, ServerSurvives, HandleNamesItsFile, StorageGet
<1>7. WriteIsStable'
  BY <1>f DEF RmtfsTypeOK, WriteIsStable, HandleNamesItsFile, NoAnswer
<1> QED BY <1>1, <1>2, <1>3, <1>4, <1>5, <1>6, <1>7 DEF RmtfsInv

\* RmtfsClose keeps the invariant of the file server.
LEMMA RmtfsCloseKeepsInv == ASSUME RmtfsInv, NEW c \in Clients, NEW p \in Partitions, RmtfsClose(c, p) PROVE RmtfsInv'
<1>0. /\ RmtfsTypeOK /\ HandleNamesItsFile /\ RevivedWasClosed /\ HandlesDistinct
      /\ ShadowsInStep /\ ServerSurvives /\ WriteIsStable
  BY DEF RmtfsInv
<1> USE <1>0
<1>a. fds[c][p] \in Handles /\ NodeOf[c] \in Nodes /\ rmtfds \in [Handles -> HandleStates]
  BY RmtfsFacts DEF RmtfsTypeOK, RmtfsClose
<1>f. /\ rmtfds' \in [Handles -> HandleStates]
      /\ fds' = [fds EXCEPT ![c] = [fds[c] EXCEPT ![p] = NoFd]]
      /\ \A d \in Clients, q \in Partitions :
           fds'[d][q] = IF d = c /\ q = p THEN NoFd ELSE fds[d][q]
      /\ expect' = [expect EXCEPT ![NodeOf[c]] = [expect[NodeOf[c]] EXCEPT ![p] = 0]]
      /\ \A n \in Nodes, q \in Partitions :
           expect'[n][q] = IF n = NodeOf[c] /\ q = p THEN 0 ELSE expect[n][q]
      /\ \A g \in Handles : g # fds[c][p] => rmtfds'[g] = rmtfds[g]
      /\ \/ rmtfds'[fds[c][p]] = rmtfds[fds[c][p]]
         \/ ~rmtfds'[fds[c][p]].live
      /\ upset' = IF \E d \in Clients \ {c}, q \in Partitions : fds[d][q] = fds[c][p]
                  THEN upset \cup {"closed_for_another"} ELSE upset
      /\ server' = "up" \/ (server' = "crashed" /\ verbose)
      /\ answer' = NoAnswer
      /\ UNCHANGED <<ro, verbose, disk, writes>>
  <2>1. /\ UNCHANGED <<ro, verbose, disk, writes>> /\ answer' = NoAnswer
        /\ fds' = [fds EXCEPT ![c] = [fds[c] EXCEPT ![p] = NoFd]]
        /\ expect' = [expect EXCEPT ![NodeOf[c]] = [expect[NodeOf[c]] EXCEPT ![p] = 0]]
        /\ server' = "up" \/ (server' = "crashed" /\ verbose)
        /\ upset' = IF \E d \in Clients \ {c}, q \in Partitions : fds[d][q] = fds[c][p]
                    THEN upset \cup {"closed_for_another"} ELSE upset
    BY DEF RmtfsClose, TraceCrashes
  <2>2. \A d \in Clients, q \in Partitions : fds'[d][q] = IF d = c /\ q = p THEN NoFd ELSE fds[d][q]
    BY <2>1 DEF RmtfsTypeOK
  <2>3. \A n \in Nodes, q \in Partitions : expect'[n][q] = IF n = NodeOf[c] /\ q = p THEN 0 ELSE expect[n][q]
    BY <1>a, <2>1 DEF RmtfsTypeOK
  <2>4. CASE rmtfds' = rmtfds
    BY <1>a, <2>1, <2>2, <2>3, <2>4
  <2>5. CASE rmtfds' = [rmtfds EXCEPT ![fds[c][p]] = [Closed EXCEPT !.node = rmtfds[fds[c][p]].node]]
    <3>1. rmtfds[fds[c][p]] \in HandleStates
      BY <1>a
    <3>2. /\ [Closed EXCEPT !.node = rmtfds[fds[c][p]].node] \in HandleStates
          /\ ~[Closed EXCEPT !.node = rmtfds[fds[c][p]].node].live
      BY <3>1, HandleFacts
    <3> QED BY <1>a, <2>1, <2>2, <2>3, <2>5, <3>2
  <2> QED BY <2>4, <2>5 DEF RmtfsClose, StorageClose
<1> USE <1>a, RmtfsFacts
<1>1. RmtfsTypeOK'
  <2> USE DEF RmtfsTypeOK, NoAnswer
  <2>1. ro' \in BOOLEAN
    BY <1>f
  <2>2. verbose' \in BOOLEAN
    BY <1>f
  <2>3. server' \in {"up", "crashed"}
    BY <1>f
  <2>4. rmtfds' \in [Handles -> HandleStates]
    BY <1>f
  <2>5. disk' \in [Partitions -> [cached : Nat, stable : Nat]]
    BY <1>f
  <2>6. fds' \in [Clients -> [Partitions -> Handles \cup {NoFd}]]
    BY <1>f
  <2>7. expect' \in [Nodes -> [Partitions -> Nat]]
    BY <1>f
  <2>8. answer' \in [ok : BOOLEAN, part : Partitions \cup {"none"}, data : Nat]
    BY <1>f
  <2>9. writes' \in Nat
    BY <1>f
  <2>10. upset' \subseteq {"closed_for_another", "revived", "unsynced"}
    BY <1>f
  <2> QED BY <2>1, <2>2, <2>3, <2>4, <2>5, <2>6, <2>7, <2>8, <2>9, <2>10 DEF RmtfsTypeOK
<1>2. HandleNamesItsFile'
  BY <1>f DEF RmtfsTypeOK, HandleNamesItsFile
<1>3. RevivedWasClosed'
  BY <1>f DEF RmtfsTypeOK, RevivedWasClosed, HandleNamesItsFile
<1>4. HandlesDistinct'
  <2>1. \A g \in Handles : rmtfds'[g].live => rmtfds'[g] = rmtfds[g]
    BY <1>f
  <2>2. upset \subseteq upset'
    BY <1>f
  <2> QED BY <2>1, <2>2 DEF HandlesDistinct
<1>5. ShadowsInStep'
  <2> SUFFICES ASSUME ro', "closed_for_another" \notin upset',
                      NEW m \in Nodes, NEW q \in Partitions, expect'[m][q] # 0
               PROVE  \E g \in Handles :
                          /\ rmtfds'[g].live /\ rmtfds'[g].node = m /\ rmtfds'[g].part = q
                          /\ rmtfds'[g].shadow = expect'[m][q]
    BY DEF ShadowsInStep
  <2>1. expect'[m][q] = expect[m][q] /\ ~(m = NodeOf[c] /\ q = p) /\ ro /\ "closed_for_another" \notin upset
    BY <1>f
  <2>2. PICK g \in Handles : /\ rmtfds[g].live /\ rmtfds[g].node = m /\ rmtfds[g].part = q
                             /\ rmtfds[g].shadow = expect[m][q]
    BY <2>1 DEF ShadowsInStep
  <2>3. g # fds[c][p]
    BY <2>1, <2>2 DEF HandleNamesItsFile
  <2>4. rmtfds'[g] = rmtfds[g]
    BY <1>f, <2>3
  <2> QED BY <2>1, <2>2, <2>4
<1>6. ServerSurvives'
  BY <1>f DEF RmtfsTypeOK, ServerSurvives, HandleNamesItsFile, StorageGet
<1>7. WriteIsStable'
  BY <1>f DEF RmtfsTypeOK, WriteIsStable, HandleNamesItsFile, NoAnswer
<1> QED BY <1>1, <1>2, <1>3, <1>4, <1>5, <1>6, <1>7 DEF RmtfsInv

\* IovecWrite keeps the invariant of the file server.
LEMMA IovecWriteKeepsInv == ASSUME RmtfsInv, NEW c \in Clients, NEW p \in Partitions, IovecWrite(c, p) PROVE RmtfsInv'
<1>0. /\ RmtfsTypeOK /\ HandleNamesItsFile /\ RevivedWasClosed /\ HandlesDistinct
      /\ ShadowsInStep /\ ServerSurvives /\ WriteIsStable
  BY DEF RmtfsInv
<1> USE <1>0
<1>a. /\ fds[c][p] \in Handles /\ NodeOf[c] \in Nodes /\ rmtfds \in [Handles -> HandleStates]
      /\ writes + 1 \in Nat /\ writes + 1 # 0
  BY RmtfsFacts DEF RmtfsTypeOK, IovecWrite, IovecWriteTo
<1>f. /\ rmtfds' \in [Handles -> HandleStates]
      /\ disk' \in [Partitions -> [cached : Nat, stable : Nat]]
      /\ expect' \in [Nodes -> [Partitions -> Nat]]
      /\ writes' = writes + 1 /\ writes + 1 \in Nat
      /\ \A g \in Handles : g # fds[c][p] => rmtfds'[g] = rmtfds[g]
      /\ \/ /\ answer' = [ok |-> FALSE, part |-> p, data |-> writes + 1]
            /\ rmtfds' = rmtfds /\ expect' = expect /\ upset' = upset
         \/ /\ answer' = [ok |-> TRUE, part |-> p, data |-> writes + 1]
            /\ ro /\ rmtfds'[fds[c][p]].live /\ rmtfds'[fds[c][p]].shadow = writes + 1
            /\ rmtfds'[fds[c][p]].node = rmtfds[fds[c][p]].node
            /\ rmtfds'[fds[c][p]].part = rmtfds[fds[c][p]].part
            /\ \A n \in Nodes, q \in Partitions :
                 expect'[n][q] = IF n = NodeOf[c] /\ q = p THEN writes + 1 ELSE expect[n][q]
            /\ upset' = IF ~rmtfds[fds[c][p]].live THEN upset \cup {"revived"} ELSE upset
         \/ /\ answer' = [ok |-> TRUE, part |-> p, data |-> writes + 1]
            /\ ~ro /\ rmtfds' = rmtfds /\ upset' = upset
            /\ rmtfds[fds[c][p]].part = p => disk'[p].stable = writes + 1
      /\ server' = IF ro \/ StorageGet(NodeOf[c], fds[c][p]) THEN "up" ELSE "crashed"
      /\ UNCHANGED <<ro, verbose, fds>>
  <2>1. /\ UNCHANGED <<ro, verbose, fds>> /\ writes' = writes + 1
        /\ server' = IF ro \/ StorageGet(NodeOf[c], fds[c][p]) THEN "up" ELSE "crashed"
    BY DEF IovecWrite, IovecWriteTo
  <2>2. rmtfds[fds[c][p]] \in HandleStates /\ ro \in BOOLEAN
    BY <1>a DEF RmtfsTypeOK
  <2>3. CASE /\ answer' = [ok |-> FALSE, part |-> p, data |-> writes + 1]
             /\ rmtfds' = rmtfds /\ expect' = expect /\ upset' = upset /\ disk' = disk
    BY <1>a, <2>1, <2>3 DEF RmtfsTypeOK
  <2>4. CASE /\ answer' = [ok |-> TRUE, part |-> p, data |-> writes + 1]
             /\ ro /\ disk' = disk
             /\ rmtfds' = [rmtfds EXCEPT ![fds[c][p]] = Stored(rmtfds[fds[c][p]], writes + 1)]
             /\ expect' = [expect EXCEPT ![NodeOf[c]] = [expect[NodeOf[c]] EXCEPT ![p] = writes + 1]]
             /\ upset' = IF ~rmtfds[fds[c][p]].live THEN upset \cup {"revived"} ELSE upset
    <3>1. /\ Stored(rmtfds[fds[c][p]], writes + 1) \in HandleStates
          /\ Stored(rmtfds[fds[c][p]], writes + 1).live
          /\ Stored(rmtfds[fds[c][p]], writes + 1).shadow = writes + 1
          /\ Stored(rmtfds[fds[c][p]], writes + 1).node = rmtfds[fds[c][p]].node
          /\ Stored(rmtfds[fds[c][p]], writes + 1).part = rmtfds[fds[c][p]].part
      BY <1>a, <2>2, HandleFacts
    <3>2. /\ rmtfds' \in [Handles -> HandleStates]
          /\ \A g \in Handles : g # fds[c][p] => rmtfds'[g] = rmtfds[g]
          /\ rmtfds'[fds[c][p]] = Stored(rmtfds[fds[c][p]], writes + 1)
      BY <1>a, <2>4, <3>1
    <3>3. /\ expect' \in [Nodes -> [Partitions -> Nat]]
          /\ \A n \in Nodes, q \in Partitions :
               expect'[n][q] = IF n = NodeOf[c] /\ q = p THEN writes + 1 ELSE expect[n][q]
      BY <1>a, <2>4 DEF RmtfsTypeOK
    <3>4. disk' \in [Partitions -> [cached : Nat, stable : Nat]]
      BY <2>4 DEF RmtfsTypeOK
    <3> QED BY <1>a, <2>1, <2>4, <3>1, <3>2, <3>3, <3>4
  <2>5. CASE /\ answer' = [ok |-> TRUE, part |-> p, data |-> writes + 1]
             /\ ~ro /\ rmtfds' = rmtfds /\ upset' = upset
             /\ disk' = [disk EXCEPT ![rmtfds[fds[c][p]].part] = [cached |-> writes + 1, stable |-> writes + 1]]
             /\ expect' = [expect EXCEPT ![NodeOf[c]] = [expect[NodeOf[c]] EXCEPT ![p] = writes + 1]]
    <3>1. expect' \in [Nodes -> [Partitions -> Nat]]
      BY <1>a, <2>5 DEF RmtfsTypeOK
    <3>2. disk' \in [Partitions -> [cached : Nat, stable : Nat]]
      BY <1>a, <2>5 DEF RmtfsTypeOK
    <3>3. rmtfds[fds[c][p]].part = p => disk'[p].stable = writes + 1
      BY <2>5 DEF RmtfsTypeOK
    <3> QED BY <1>a, <2>1, <2>5, <3>1, <3>2, <3>3
  <2> QED BY <2>2, <2>3, <2>4, <2>5 DEF IovecWrite, IovecWriteTo, Synced, Writable
<1> USE <1>a, RmtfsFacts
<1>1. RmtfsTypeOK'
  <2> USE DEF RmtfsTypeOK, NoAnswer
  <2>1. ro' \in BOOLEAN
    BY <1>f
  <2>2. verbose' \in BOOLEAN
    BY <1>f
  <2>3. server' \in {"up", "crashed"}
    BY <1>f
  <2>4. rmtfds' \in [Handles -> HandleStates]
    BY <1>f
  <2>5. disk' \in [Partitions -> [cached : Nat, stable : Nat]]
    BY <1>f
  <2>6. fds' \in [Clients -> [Partitions -> Handles \cup {NoFd}]]
    BY <1>f
  <2>7. expect' \in [Nodes -> [Partitions -> Nat]]
    BY <1>f
  <2>8. answer' \in [ok : BOOLEAN, part : Partitions \cup {"none"}, data : Nat]
    <3>1. \A b \in BOOLEAN :
            [ok |-> b, part |-> p, data |-> writes + 1]
                \in [ok : BOOLEAN, part : Partitions \cup {"none"}, data : Nat]
      OBVIOUS
    <3> QED BY <1>f, <3>1
  <2>9. writes' \in Nat
    BY <1>f
  <2>10. upset' \subseteq {"closed_for_another", "revived", "unsynced"}
    BY <1>f
  <2> QED BY <2>1, <2>2, <2>3, <2>4, <2>5, <2>6, <2>7, <2>8, <2>9, <2>10 DEF RmtfsTypeOK
<1>g. \A g \in Handles : rmtfds'[g].node = rmtfds[g].node /\ rmtfds'[g].part = rmtfds[g].part
  BY <1>f DEF RmtfsTypeOK
<1>h. \A g \in Handles : rmtfds[g].live => rmtfds'[g].live
  BY <1>f DEF RmtfsTypeOK
<1>i. \A g \in Handles : "revived" \notin upset' => (rmtfds'[g].live => rmtfds[g].live)
  BY <1>f DEF RmtfsTypeOK
<1>u. upset \subseteq upset' /\ upset' \subseteq upset \cup {"revived"} /\ UNCHANGED <<ro, fds>>
  BY <1>f
<1>2. HandleNamesItsFile'
  <2> SUFFICES ASSUME NEW d \in Clients, NEW q \in Partitions,
                      fds[d][q] # NoFd, "closed_for_another" \notin upset
               PROVE  /\ rmtfds'[fds[d][q]].live
                      /\ rmtfds'[fds[d][q]].node = NodeOf[d] /\ rmtfds'[fds[d][q]].part = q
    BY <1>u DEF HandleNamesItsFile
  <2>1. fds[d][q] \in Handles
    BY DEF RmtfsTypeOK
  <2>2. /\ rmtfds[fds[d][q]].live
        /\ rmtfds[fds[d][q]].node = NodeOf[d] /\ rmtfds[fds[d][q]].part = q
    BY DEF HandleNamesItsFile
  <2> QED BY <1>g, <1>h, <2>1, <2>2
<1>3. RevivedWasClosed'
  BY <1>f DEF RmtfsTypeOK, RevivedWasClosed, HandleNamesItsFile
<1>4. HandlesDistinct'
  <2> SUFFICES ASSUME "revived" \notin upset', NEW g \in Handles, NEW h \in Handles,
                      rmtfds'[g].live, rmtfds'[h].live,
                      rmtfds'[g].node = rmtfds'[h].node, rmtfds'[g].part = rmtfds'[h].part
               PROVE  g = h
    BY DEF HandlesDistinct
  <2>1. rmtfds[g].live /\ rmtfds[h].live
    BY <1>i
  <2>2. rmtfds[g].node = rmtfds[h].node /\ rmtfds[g].part = rmtfds[h].part
    BY <1>g
  <2> QED BY <1>u, <2>1, <2>2 DEF HandlesDistinct
<1>5. ShadowsInStep'
  <2> SUFFICES ASSUME ro', "closed_for_another" \notin upset',
                      NEW m \in Nodes, NEW q \in Partitions, expect'[m][q] # 0
               PROVE  \E g \in Handles :
                          /\ rmtfds'[g].live /\ rmtfds'[g].node = m /\ rmtfds'[g].part = q
                          /\ rmtfds'[g].shadow = expect'[m][q]
    BY DEF ShadowsInStep
  <2>1. ro /\ "closed_for_another" \notin upset
    BY <1>u
  <2>2. CASE rmtfds' = rmtfds /\ expect' = expect
    BY <2>1, <2>2 DEF ShadowsInStep
  <2>3. CASE /\ rmtfds'[fds[c][p]].live /\ rmtfds'[fds[c][p]].shadow = writes + 1
             /\ \A n \in Nodes, r \in Partitions :
                  expect'[n][r] = IF n = NodeOf[c] /\ r = p THEN writes + 1 ELSE expect[n][r]
    <3>1. rmtfds[fds[c][p]].node = NodeOf[c] /\ rmtfds[fds[c][p]].part = p
      BY <2>1 DEF HandleNamesItsFile
    <3>2. CASE m = NodeOf[c] /\ q = p
      <4>1. rmtfds'[fds[c][p]].node = m /\ rmtfds'[fds[c][p]].part = q
        BY <1>g, <3>1, <3>2
      <4>2. rmtfds'[fds[c][p]].shadow = expect'[m][q]
        BY <2>3, <3>2
      <4> QED BY <2>3, <4>1, <4>2
    <3>3. CASE ~(m = NodeOf[c] /\ q = p)
      <4>1. expect'[m][q] = expect[m][q]
        BY <2>3, <3>3
      <4>2. PICK g \in Handles : /\ rmtfds[g].live /\ rmtfds[g].node = m /\ rmtfds[g].part = q
                                 /\ rmtfds[g].shadow = expect[m][q]
        BY <2>1, <4>1 DEF ShadowsInStep
      <4>3. rmtfds'[g] = rmtfds[g]
        BY <1>f, <3>1, <3>3, <4>2
      <4> QED BY <4>1, <4>2, <4>3
    <3> QED BY <3>2, <3>3
  <2> QED BY <1>f, <2>1, <2>2, <2>3
<1>6. ServerSurvives'
  BY <1>f, SMTT(40) DEF RmtfsTypeOK, ServerSurvives, HandleNamesItsFile, StorageGet
<1>7. WriteIsStable'
  <2> SUFFICES ASSUME answer'.ok, ~ro', upset' = {} PROVE disk'[answer'.part].stable = answer'.data
    BY DEF WriteIsStable
  <2>1. answer' = [ok |-> TRUE, part |-> p, data |-> writes + 1] /\ (rmtfds[fds[c][p]].part = p => disk'[p].stable = writes + 1)
    BY <1>f
  <2>2. rmtfds[fds[c][p]].part = p
    BY <1>u DEF HandleNamesItsFile
  <2> QED BY <2>1, <2>2
<1> QED BY <1>1, <1>2, <1>3, <1>4, <1>5, <1>6, <1>7 DEF RmtfsInv

\* IovecFails keeps the invariant of the file server.
LEMMA IovecFailsKeepsInv == ASSUME RmtfsInv, NEW c \in Clients, NEW p \in Partitions, IovecFails(c, p) PROVE RmtfsInv'
<1>0. /\ RmtfsTypeOK /\ HandleNamesItsFile /\ RevivedWasClosed /\ HandlesDistinct
      /\ ShadowsInStep /\ ServerSurvives /\ WriteIsStable
  BY DEF RmtfsInv
<1> USE <1>0
<1>a. /\ fds[c][p] \in Handles /\ NodeOf[c] \in Nodes /\ rmtfds \in [Handles -> HandleStates]
      /\ writes + 1 \in Nat /\ writes + 1 # 0
  BY RmtfsFacts DEF RmtfsTypeOK, IovecFails, IovecWriteTo
<1>f. /\ answer' = [ok |-> FALSE, part |-> p, data |-> writes + 1]
      /\ writes' = writes + 1 /\ writes + 1 \in Nat
      /\ server' = IF ro \/ StorageGet(NodeOf[c], fds[c][p]) THEN "up" ELSE "crashed"
      /\ UNCHANGED <<ro, verbose, rmtfds, disk, fds, expect, upset>>
  BY <1>a DEF IovecFails, IovecWriteTo
<1> USE <1>a, RmtfsFacts
<1>1. RmtfsTypeOK'
  <2> USE DEF RmtfsTypeOK, NoAnswer
  <2>1. ro' \in BOOLEAN
    BY <1>f
  <2>2. verbose' \in BOOLEAN
    BY <1>f
  <2>3. server' \in {"up", "crashed"}
    BY <1>f
  <2>4. rmtfds' \in [Handles -> HandleStates]
    BY <1>f
  <2>5. disk' \in [Partitions -> [cached : Nat, stable : Nat]]
    BY <1>f
  <2>6. fds' \in [Clients -> [Partitions -> Handles \cup {NoFd}]]
    BY <1>f
  <2>7. expect' \in [Nodes -> [Partitions -> Nat]]
    BY <1>f
  <2>8. answer' \in [ok : BOOLEAN, part : Partitions \cup {"none"}, data : Nat]
    BY <1>f
  <2>9. writes' \in Nat
    BY <1>f
  <2>10. upset' \subseteq {"closed_for_another", "revived", "unsynced"}
    BY <1>f
  <2> QED BY <2>1, <2>2, <2>3, <2>4, <2>5, <2>6, <2>7, <2>8, <2>9, <2>10 DEF RmtfsTypeOK
<1>2. HandleNamesItsFile'
  BY <1>f DEF RmtfsTypeOK, HandleNamesItsFile
<1>3. RevivedWasClosed'
  BY <1>f DEF RmtfsTypeOK, RevivedWasClosed, HandleNamesItsFile
<1>4. HandlesDistinct'
  BY <1>f DEF RmtfsTypeOK, HandlesDistinct
<1>5. ShadowsInStep'
  BY <1>f DEF RmtfsTypeOK, ShadowsInStep, HandleNamesItsFile
<1>6. ServerSurvives'
  BY <1>f DEF RmtfsTypeOK, ServerSurvives, HandleNamesItsFile, StorageGet
<1>7. WriteIsStable'
  BY <1>f DEF RmtfsTypeOK, WriteIsStable, HandleNamesItsFile, NoAnswer
<1> QED BY <1>1, <1>2, <1>3, <1>4, <1>5, <1>6, <1>7 DEF RmtfsInv

\* IovecUnsynced keeps the invariant of the file server.
LEMMA IovecUnsyncedKeepsInv == ASSUME RmtfsInv, NEW c \in Clients, NEW p \in Partitions, IovecUnsynced(c, p) PROVE RmtfsInv'
<1>0. /\ RmtfsTypeOK /\ HandleNamesItsFile /\ RevivedWasClosed /\ HandlesDistinct
      /\ ShadowsInStep /\ ServerSurvives /\ WriteIsStable
  BY DEF RmtfsInv
<1> USE <1>0
<1>a. /\ fds[c][p] \in Handles /\ NodeOf[c] \in Nodes /\ writes + 1 \in Nat
  BY RmtfsFacts DEF RmtfsTypeOK, IovecUnsynced, UnsyncedTo
<1>f. /\ ~ro /\ disk' \in [Partitions -> [cached : Nat, stable : Nat]]
      /\ expect' \in [Nodes -> [Partitions -> Nat]]
      /\ writes' \in Nat /\ upset' = upset \cup {"unsynced"}
      /\ answer' = [ok |-> TRUE, part |-> p, data |-> writes + 1] /\ writes + 1 \in Nat
      /\ UNCHANGED <<ro, verbose, server, rmtfds, fds>>
  <2>1. expect' \in [Nodes -> [Partitions -> Nat]]
    <3>1. expect' = [expect EXCEPT ![NodeOf[c]] = [expect[NodeOf[c]] EXCEPT ![p] = writes + 1]]
      BY DEF IovecUnsynced, UnsyncedTo
    <3> QED BY <1>a, <3>1 DEF RmtfsTypeOK
  <2>2. disk' \in [Partitions -> [cached : Nat, stable : Nat]]
    <3>1. disk' = [disk EXCEPT ![rmtfds[fds[c][p]].part] = [disk[rmtfds[fds[c][p]].part] EXCEPT !.cached = writes + 1]]
      BY DEF IovecUnsynced, UnsyncedTo
    <3> QED BY <1>a, <3>1 DEF RmtfsTypeOK
  <2> QED BY <1>a, <2>1, <2>2 DEF IovecUnsynced, UnsyncedTo
<1> USE <1>a, RmtfsFacts
<1>1. RmtfsTypeOK'
  <2> USE DEF RmtfsTypeOK, NoAnswer
  <2>1. ro' \in BOOLEAN
    BY <1>f
  <2>2. verbose' \in BOOLEAN
    BY <1>f
  <2>3. server' \in {"up", "crashed"}
    BY <1>f
  <2>4. rmtfds' \in [Handles -> HandleStates]
    BY <1>f
  <2>5. disk' \in [Partitions -> [cached : Nat, stable : Nat]]
    BY <1>f
  <2>6. fds' \in [Clients -> [Partitions -> Handles \cup {NoFd}]]
    BY <1>f
  <2>7. expect' \in [Nodes -> [Partitions -> Nat]]
    BY <1>f
  <2>8. answer' \in [ok : BOOLEAN, part : Partitions \cup {"none"}, data : Nat]
    BY <1>f
  <2>9. writes' \in Nat
    BY <1>f
  <2>10. upset' \subseteq {"closed_for_another", "revived", "unsynced"}
    BY <1>f
  <2> QED BY <2>1, <2>2, <2>3, <2>4, <2>5, <2>6, <2>7, <2>8, <2>9, <2>10 DEF RmtfsTypeOK
<1>2. HandleNamesItsFile'
  BY <1>f DEF RmtfsTypeOK, HandleNamesItsFile
<1>3. RevivedWasClosed'
  BY <1>f DEF RmtfsTypeOK, RevivedWasClosed, HandleNamesItsFile
<1>4. HandlesDistinct'
  BY <1>f DEF RmtfsTypeOK, HandlesDistinct
<1>5. ShadowsInStep'
  BY <1>f DEF RmtfsTypeOK, ShadowsInStep, HandleNamesItsFile
<1>6. ServerSurvives'
  BY <1>f DEF RmtfsTypeOK, ServerSurvives, HandleNamesItsFile, StorageGet
<1>7. WriteIsStable'
  BY <1>f DEF RmtfsTypeOK, WriteIsStable, HandleNamesItsFile, NoAnswer
<1> QED BY <1>1, <1>2, <1>3, <1>4, <1>5, <1>6, <1>7 DEF RmtfsInv

\* GetDevError keeps the invariant of the file server.
LEMMA GetDevErrorKeepsInv == ASSUME RmtfsInv, NEW c \in Clients, NEW p \in Partitions, GetDevError(c, p) PROVE RmtfsInv'
<1>0. /\ RmtfsTypeOK /\ HandleNamesItsFile /\ RevivedWasClosed /\ HandlesDistinct
      /\ ShadowsInStep /\ ServerSurvives /\ WriteIsStable
  BY DEF RmtfsInv
<1> USE <1>0
<1>a. fds[c][p] \in Handles /\ NodeOf[c] \in Nodes
  BY RmtfsFacts DEF RmtfsTypeOK, GetDevError
<1>f. /\ server' = IF StorageGet(NodeOf[c], fds[c][p]) THEN "up" ELSE "crashed"
      /\ answer' = NoAnswer
      /\ UNCHANGED <<ro, verbose, rmtfds, disk, fds, expect, writes, upset>>
  BY DEF GetDevError
<1> USE <1>a, RmtfsFacts
<1>1. RmtfsTypeOK'
  <2> USE DEF RmtfsTypeOK, NoAnswer
  <2>1. ro' \in BOOLEAN
    BY <1>f
  <2>2. verbose' \in BOOLEAN
    BY <1>f
  <2>3. server' \in {"up", "crashed"}
    BY <1>f
  <2>4. rmtfds' \in [Handles -> HandleStates]
    BY <1>f
  <2>5. disk' \in [Partitions -> [cached : Nat, stable : Nat]]
    BY <1>f
  <2>6. fds' \in [Clients -> [Partitions -> Handles \cup {NoFd}]]
    BY <1>f
  <2>7. expect' \in [Nodes -> [Partitions -> Nat]]
    BY <1>f
  <2>8. answer' \in [ok : BOOLEAN, part : Partitions \cup {"none"}, data : Nat]
    BY <1>f
  <2>9. writes' \in Nat
    BY <1>f
  <2>10. upset' \subseteq {"closed_for_another", "revived", "unsynced"}
    BY <1>f
  <2> QED BY <2>1, <2>2, <2>3, <2>4, <2>5, <2>6, <2>7, <2>8, <2>9, <2>10 DEF RmtfsTypeOK
<1>2. HandleNamesItsFile'
  BY <1>f DEF RmtfsTypeOK, HandleNamesItsFile
<1>3. RevivedWasClosed'
  BY <1>f DEF RmtfsTypeOK, RevivedWasClosed, HandleNamesItsFile
<1>4. HandlesDistinct'
  BY <1>f DEF RmtfsTypeOK, HandlesDistinct
<1>5. ShadowsInStep'
  BY <1>f DEF RmtfsTypeOK, ShadowsInStep, HandleNamesItsFile
<1>6. ServerSurvives'
  BY <1>f DEF RmtfsTypeOK, ServerSurvives, HandleNamesItsFile, StorageGet
<1>7. WriteIsStable'
  BY <1>f DEF RmtfsTypeOK, WriteIsStable, HandleNamesItsFile, NoAnswer
<1> QED BY <1>1, <1>2, <1>3, <1>4, <1>5, <1>6, <1>7 DEF RmtfsInv

\* Bye keeps the invariant of the file server.
LEMMA ByeKeepsInv == ASSUME RmtfsInv, NEW n \in Nodes, Bye(n) PROVE RmtfsInv'
<1>0. /\ RmtfsTypeOK /\ HandleNamesItsFile /\ RevivedWasClosed /\ HandlesDistinct
      /\ ShadowsInStep /\ ServerSurvives /\ WriteIsStable
  BY DEF RmtfsInv
<1> USE <1>0
<1>a. TRUE
  OBVIOUS
<1>f. /\ fds' \in [Clients -> [Partitions -> Handles \cup {NoFd}]]
      /\ \A d \in Clients, q \in Partitions : fds'[d][q] = NoFd \/ fds'[d][q] = fds[d][q]
      /\ answer' = NoAnswer
      /\ UNCHANGED <<ro, verbose, server, rmtfds, disk, expect, writes, upset>>
  <2>1. fds' = [c \in Clients |-> IF NodeOf[c] = n THEN [p \in Partitions |-> NoFd] ELSE fds[c]]
    BY DEF Bye
  <2> QED BY <2>1 DEF Bye, RmtfsTypeOK
<1> USE <1>a, RmtfsFacts
<1>1. RmtfsTypeOK'
  <2> USE DEF RmtfsTypeOK, NoAnswer
  <2>1. ro' \in BOOLEAN
    BY <1>f
  <2>2. verbose' \in BOOLEAN
    BY <1>f
  <2>3. server' \in {"up", "crashed"}
    BY <1>f
  <2>4. rmtfds' \in [Handles -> HandleStates]
    BY <1>f
  <2>5. disk' \in [Partitions -> [cached : Nat, stable : Nat]]
    BY <1>f
  <2>6. fds' \in [Clients -> [Partitions -> Handles \cup {NoFd}]]
    BY <1>f
  <2>7. expect' \in [Nodes -> [Partitions -> Nat]]
    BY <1>f
  <2>8. answer' \in [ok : BOOLEAN, part : Partitions \cup {"none"}, data : Nat]
    BY <1>f
  <2>9. writes' \in Nat
    BY <1>f
  <2>10. upset' \subseteq {"closed_for_another", "revived", "unsynced"}
    BY <1>f
  <2> QED BY <2>1, <2>2, <2>3, <2>4, <2>5, <2>6, <2>7, <2>8, <2>9, <2>10 DEF RmtfsTypeOK
<1>2. HandleNamesItsFile'
  BY <1>f DEF RmtfsTypeOK, HandleNamesItsFile
<1>3. RevivedWasClosed'
  BY <1>f DEF RmtfsTypeOK, RevivedWasClosed, HandleNamesItsFile
<1>4. HandlesDistinct'
  BY <1>f DEF RmtfsTypeOK, HandlesDistinct
<1>5. ShadowsInStep'
  BY <1>f DEF RmtfsTypeOK, ShadowsInStep, HandleNamesItsFile
<1>6. ServerSurvives'
  BY <1>f DEF RmtfsTypeOK, ServerSurvives, HandleNamesItsFile, StorageGet
<1>7. WriteIsStable'
  BY <1>f DEF RmtfsTypeOK, WriteIsStable, HandleNamesItsFile, NoAnswer
<1> QED BY <1>1, <1>2, <1>3, <1>4, <1>5, <1>6, <1>7 DEF RmtfsInv

\* The file server keeps its promises: handles name their files, a node reads what it
\* wrote, what it was told is written is on the medium, and neither handles nor the
\* server are lost, for any clients, partitions, handles and number of writes.
THEOREM RmtfsIsSafe == RmtfsSpec => []RmtfsSafe
<1>1. RmtfsInit => RmtfsInv
  <2> SUFFICES ASSUME RmtfsInit PROVE RmtfsInv
    OBVIOUS
  <2> USE RmtfsAssumption DEF RmtfsInit, Closed, NoAnswer, NoFd, Zeros, Handles
  <2>1. RmtfsTypeOK
    BY DEF RmtfsTypeOK, HandleStates
  <2>2. HandleNamesItsFile /\ RevivedWasClosed /\ ServerSurvives /\ WriteIsStable
    BY DEF HandleNamesItsFile, RevivedWasClosed, ServerSurvives, WriteIsStable
  <2>3. HandlesDistinct /\ ShadowsInStep
    BY DEF HandlesDistinct, ShadowsInStep
  <2> QED BY <2>1, <2>2, <2>3 DEF RmtfsInv
<1>2. RmtfsInv /\ [RmtfsNext]_rmtfsVars => RmtfsInv'
  <2>1. CASE UNCHANGED rmtfsVars
    BY <2>1 DEF rmtfsVars, RmtfsInv, RmtfsTypeOK, HandleNamesItsFile, RevivedWasClosed, HandlesDistinct,
       ShadowsInStep, ServerSurvives, WriteIsStable
  <2> QED BY <2>1, RmtfsOpenKeepsInv, RmtfsCloseKeepsInv, IovecWriteKeepsInv, IovecFailsKeepsInv,
     IovecUnsyncedKeepsInv, GetDevErrorKeepsInv, ByeKeepsInv
     DEF RmtfsNext
<1>3. RmtfsInv => RmtfsSafe
  <2> SUFFICES ASSUME RmtfsInv PROVE RmtfsSafe
    OBVIOUS
  <2>1. NoHandleLost
    BY DEF RmtfsInv, RmtfsTypeOK, HandlesDistinct, NoHandleLost, Existing
  <2>2. ReadsBack
    <3> SUFFICES ASSUME NEW c \in Clients, NEW p \in Partitions,
                        ro, fds[c][p] # NoFd, "closed_for_another" \notin upset, expect[NodeOf[c]][p] # 0
                 PROVE  IovecRead(NodeOf[c], fds[c][p]) = [ok |-> TRUE, data |-> expect[NodeOf[c]][p]]
      BY DEF ReadsBack
    <3>1. /\ fds[c][p] \in Handles /\ rmtfds[fds[c][p]].live
          /\ rmtfds[fds[c][p]].node = NodeOf[c] /\ rmtfds[fds[c][p]].part = p
      BY DEF RmtfsInv, RmtfsTypeOK, HandleNamesItsFile
    <3>2. PICK h \in Handles : /\ rmtfds[h].live /\ rmtfds[h].node = NodeOf[c] /\ rmtfds[h].part = p
                               /\ rmtfds[h].shadow = expect[NodeOf[c]][p]
      BY RmtfsFacts DEF RmtfsInv, ShadowsInStep
    <3>3. h = fds[c][p]
      BY <3>1, <3>2 DEF RmtfsInv, RevivedWasClosed, HandlesDistinct
    <3> QED BY <3>1, <3>2, <3>3 DEF IovecRead, StorageGet
  <2> QED BY <2>1, <2>2 DEF RmtfsInv, RmtfsSafe
<1> QED BY <1>1, <1>2, <1>3, PTL DEF RmtfsSpec

-----------------------------------------------------------------------------
(* PMIC bus adapter                                                        *)

(* The lines of the two orders. *)
LEMMA SpmiLines ==
    /\ Len(AcquireOrder) = 14 /\ DOMAIN AcquireOrder = 1 .. 14 /\ Len(ReleaseOrder) = 14
    /\ AcquireOrder[1] = "pdc" /\ AcquireOrder[2] = "mapping" /\ AcquireOrder[3] = "node"
    /\ AcquireOrder[4] = "child" /\ AcquireOrder[5] = "ctrl" /\ AcquireOrder[6] = "pmic_node0"
    /\ AcquireOrder[7] = "pmic0" /\ AcquireOrder[8] = "pmic_node1" /\ AcquireOrder[9] = "pmic1"
    /\ AcquireOrder[10] = "lpg_node" /\ AcquireOrder[11] = "lpg" /\ AcquireOrder[12] = "pwm_consumer_node"
    /\ AcquireOrder[13] = "pwm_consumer" /\ AcquireOrder[14] = "pwm"
    /\ ReleaseOrder[1] = "pwm" /\ ReleaseOrder[2] = "pwm_consumer" /\ ReleaseOrder[3] = "pwm_consumer_node"
    /\ ReleaseOrder[4] = "lpg" /\ ReleaseOrder[5] = "lpg_node" /\ ReleaseOrder[6] = "pmic1"
    /\ ReleaseOrder[7] = "pmic_node1" /\ ReleaseOrder[8] = "pmic0" /\ ReleaseOrder[9] = "pmic_node0"
    /\ ReleaseOrder[10] = "ctrl" /\ ReleaseOrder[11] = "child" /\ ReleaseOrder[12] = "node"
    /\ ReleaseOrder[13] = "mapping" /\ ReleaseOrder[14] = "pdc"
BY DEF AcquireOrder, ReleaseOrder

\* The resources, listed.
LEMMA SpmiResources ==
    Resources = {"pdc", "mapping", "node", "child", "ctrl", "pmic_node0", "pmic0", "pmic_node1", "pmic1",
                 "lpg_node", "lpg", "pwm_consumer_node", "pwm_consumer", "pwm"}
BY SpmiLines DEF Resources

(* What the bind has acquired after n steps. *)
Acquired(n) == {AcquireOrder[i] : i \in 1 .. n}

\* No resource is acquired twice in one bind.
LEMMA AcquireDistinct == \A i, j \in 1 .. 14 : i # j => AcquireOrder[i] # AcquireOrder[j]
BY SpmiLines, SMTT(60)

\* One step more acquires one resource more.
LEMMA AcquiredNext ==
    /\ Acquired(0) = {} /\ Acquired(14) = Resources
    /\ \A n \in 0 .. 13 : /\ Acquired(n + 1) = Acquired(n) \cup {AcquireOrder[n + 1]}
                          /\ AcquireOrder[n + 1] \notin Acquired(n)
<1>1. Acquired(0) = {} /\ Acquired(14) = Resources
  BY SpmiLines DEF Acquired, Resources
<1>2. ASSUME NEW n \in 0 .. 13
      PROVE  /\ Acquired(n + 1) = Acquired(n) \cup {AcquireOrder[n + 1]} /\ AcquireOrder[n + 1] \notin Acquired(n)
  <2>1. 1 .. n + 1 = (1 .. n) \cup {n + 1} /\ n + 1 \in 1 .. 14
    OBVIOUS
  <2>2. Acquired(n + 1) = Acquired(n) \cup {AcquireOrder[n + 1]}
    BY <2>1 DEF Acquired
  <2>3. \A i \in 1 .. n : AcquireOrder[i] # AcquireOrder[n + 1]
    BY <2>1, AcquireDistinct
  <2> QED BY <2>2, <2>3 DEF Acquired
<1> QED BY <1>1, <1>2

\* After n steps, n resources are acquired.
LEMMA AcquiredCount == \A n \in 0 .. 14 : IsFiniteSet(Acquired(n)) /\ Cardinality(Acquired(n)) = n
<1> DEFINE C(n) == IsFiniteSet(Acquired(n)) /\ Cardinality(Acquired(n)) = n
<1>1. C(0)
  BY AcquiredNext, FS_EmptySet
<1>2. ASSUME NEW n \in 0 .. 13, C(n) PROVE C(n + 1)
  <2>1. /\ Acquired(n + 1) = Acquired(n) \cup {AcquireOrder[n + 1]} /\ AcquireOrder[n + 1] \notin Acquired(n)
    BY AcquiredNext
  <2>2. /\ IsFiniteSet(Acquired(n) \cup {AcquireOrder[n + 1]})
        /\ Cardinality(Acquired(n) \cup {AcquireOrder[n + 1]}) = Cardinality(Acquired(n)) + 1
    BY <1>2, <2>1, FS_AddElement
  <2> QED BY <1>2, <2>1, <2>2
<1> HIDE DEF C
<1>3. C(1) /\ C(2) /\ C(3) /\ C(4) /\ C(5)
  BY <1>1, <1>2
<1>4. C(6) /\ C(7) /\ C(8) /\ C(9) /\ C(10)
  BY <1>2, <1>3
<1>5. C(11) /\ C(12) /\ C(13) /\ C(14)
  BY <1>2, <1>4
<1>6. \A n \in 0 .. 14 : n \in {0, 1, 2, 3, 4, 5, 6, 7, 8, 9, 10, 11, 12, 13, 14}
  OBVIOUS
<1>7. \A n \in 0 .. 14 : C(n)
  BY <1>1, <1>3, <1>4, <1>5, <1>6
<1> QED BY <1>7 DEF C

(* What a resource needs is acquired before it and released after it. *)
LEMMA SpmiNeeds ==
    /\ Needs["pdc"] = {} /\ Needs["mapping"] = {"pdc"} /\ Needs["node"] = {} /\ Needs["child"] = {"node", "mapping"}
    /\ Needs["ctrl"] = {"child"} /\ Needs["pmic_node0"] = {} /\ Needs["pmic0"] = {"pmic_node0", "ctrl"}
    /\ Needs["pmic_node1"] = {} /\ Needs["pmic1"] = {"pmic_node1", "ctrl"} /\ Needs["lpg_node"] = {}
    /\ Needs["lpg"] = {"lpg_node", "pmic1"} /\ Needs["pwm_consumer_node"] = {"lpg_node"}
    /\ Needs["pwm_consumer"] = {"pwm_consumer_node", "lpg"} /\ Needs["pwm"] = {"pwm_consumer", "lpg"}
BY SpmiResources DEF Needs

\* What a resource needs is acquired before it.
LEMMA NeedsBefore == \A n \in 1 .. 14 : Needs[AcquireOrder[n]] \subseteq Acquired(n - 1)
<1> SUFFICES ASSUME NEW n \in 1 .. 14 PROVE Needs[AcquireOrder[n]] \subseteq Acquired(n - 1)
  OBVIOUS
<1>1. \A x \in Needs[AcquireOrder[n]] : \E i \in 1 .. n - 1 : x = AcquireOrder[i]
  BY SpmiLines, SpmiNeeds, SMTT(60)
<1> QED BY <1>1 DEF Acquired

\* What a resource needs is released after it.
LEMMA NeedsAfter ==
    \A r \in Resources : \A k \in 1 .. 14 : ReleaseOrder[k] \in Needs[r] => \E i \in 1 .. k - 1 : r = ReleaseOrder[i]
<1> SUFFICES ASSUME NEW r \in Resources, NEW k \in 1 .. 14, ReleaseOrder[k] \in Needs[r]
             PROVE  \E i \in 1 .. k - 1 : r = ReleaseOrder[i]
  OBVIOUS
<1>1. CASE k \in 1 .. 5
  BY <1>1, SpmiLines, SpmiNeeds, SpmiResources, SMTT(60)
<1>2. CASE k \in 6 .. 10
  BY <1>2, SpmiLines, SpmiNeeds, SpmiResources, SMTT(60)
<1>3. CASE k \in 11 .. 14
  BY <1>3, SpmiLines, SpmiNeeds, SpmiResources, SMTT(60)
<1> QED BY <1>1, <1>2, <1>3

\* The release order leaves nothing out.
LEMMA ReleasedAll == \A r \in Resources : \E i \in 1 .. 14 : r = ReleaseOrder[i]
BY SpmiLines, SpmiResources, SMTT(30)

-----------------------------------------------------------------------------
SpmiTypes ==
    /\ present \subseteq Participants /\ stage \in {"idle", "acquire", "release"} /\ who \in Participants
    /\ owned \subseteq Resources /\ at \in 1 .. 15 /\ onBus \subseteq Pmics
    /\ pushed \in BOOLEAN /\ irqPushed \in BOOLEAN /\ kept \in BOOLEAN
    /\ bound \in BOOLEAN /\ byHand \in BOOLEAN

(* A bind holds what it has acquired so far; it began on an interrupt        *)
(* without a mapping, so that a mapping there is its own.                    *)
AcquireInStep ==
    stage = "acquire" =>
      /\ \E n \in 0 .. 14 : owned = Acquired(n)
      /\ present = Participants /\ ~bound /\ ~kept
      /\ (pushed <=> irqPushed) /\ (irqPushed <=> "mapping" \in owned)

(* A release is past what it has released, and its mapping is its own until  *)
(* it is taken off or left.                                                  *)
ReleaseInStep ==
    stage = "release" =>
      /\ \A i \in 1 .. at - 1 : ReleaseOrder[i] \notin owned
      /\ at <= 13 => (pushed <=> irqPushed) /\ (irqPushed <=> "mapping" \in owned) /\ ~kept
      /\ at > 13 => (irqPushed <=> kept) /\ (pushed => kept)

(* Between two operations all or nothing is held, and the driver believes a  *)
(* mapping its own only while it is bound or has left it.                    *)
IdleInStep ==
    stage = "idle" =>
      /\ owned = (IF bound THEN Resources ELSE {})
      /\ irqPushed <=> bound \/ kept
      /\ bound => present = Participants
      /\ bound => pushed /\ ~kept
      /\ pushed => bound \/ kept

SpmiInv == SpmiTypes /\ AcquireInStep /\ ReleaseInStep /\ IdleInStep /\ ChainHeld /\ PmicsRemovedOnce

\* Nothing is held at the start.
LEMMA SpmiInitInv == SpmiInit => SpmiInv
<1> SUFFICES ASSUME SpmiInit PROVE SpmiInv
  OBVIOUS
<1>1. SpmiTypes
  <2>1. at \in 1 .. 15 /\ who \in Participants
    BY DEF SpmiInit, Participants
  <2> QED BY <2>1 DEF SpmiInit, SpmiTypes
<1>2. AcquireInStep /\ ReleaseInStep /\ IdleInStep
  BY DEF SpmiInit, AcquireInStep, ReleaseInStep, IdleInStep
<1> QED BY <1>1, <1>2 DEF SpmiInit, SpmiInv, ChainHeld, PmicsRemovedOnce

\* A probe keeps the invariant.
LEMMA SpmiArriveInv == ASSUME SpmiInv, NEW q \in Participants, Arrive(q) PROVE SpmiInv'
<1>1. UNCHANGED <<owned, at, irqPushed, kept, bound, onBus, byHand>> /\ stage = "idle" /\ ~bound /\ owned = {}
  BY DEF Arrive, SpmiInv, IdleInStep
<1>2. SpmiTypes'
  BY <1>1 DEF Arrive, SpmiInv, SpmiTypes, Participants
<1>3. AcquireInStep'
  <2>1. owned' = Acquired(0) /\ "mapping" \notin owned'
    BY <1>1, AcquiredNext
  <2> QED BY <1>1, <2>1 DEF Arrive, ComponentBinds, SpmiInv, SpmiTypes, AcquireInStep, IdleInStep
<1>4. ReleaseInStep' /\ IdleInStep' /\ ChainHeld' /\ PmicsRemovedOnce'
  BY <1>1 DEF Arrive, SpmiInv, SpmiTypes, ReleaseInStep, IdleInStep, ChainHeld, PmicsRemovedOnce
<1> QED BY <1>2, <1>3, <1>4 DEF SpmiInv

\* A step of the bind keeps the invariant.
LEMMA SpmiAcquireInv == ASSUME SpmiInv, NEW r \in Resources, SpmiAcquire(r) PROVE SpmiInv'
<1>1. PICK n \in 0 .. 14 : owned = Acquired(n)
  BY DEF SpmiInv, AcquireInStep, SpmiAcquire
<1>2. n \in 0 .. 13 /\ r = AcquireOrder[n + 1]
  BY <1>1, AcquiredCount, SpmiLines DEF SpmiAcquire
<1>3. owned' = Acquired(n + 1) /\ r \notin owned /\ owned' = owned \cup {r} /\ n + 1 \in 0 .. 14 /\ (n + 1) - 1 = n
  <2>1. Acquired(n + 1) = Acquired(n) \cup {AcquireOrder[n + 1]} /\ AcquireOrder[n + 1] \notin Acquired(n)
    BY <1>2, AcquiredNext
  <2>2. owned' = owned \cup {r}
    BY DEF SpmiAcquire
  <2>3. n + 1 \in 0 .. 14 /\ (n + 1) - 1 = n
    BY <1>2
  <2> QED BY <1>1, <1>2, <2>1, <2>2, <2>3
<1>4. stage = "acquire" /\ UNCHANGED <<present, stage, who, at, kept, bound>>
  BY DEF SpmiAcquire
<1>5. SpmiTypes'
  BY <1>3, <1>4 DEF SpmiAcquire, SpmiInv, SpmiTypes
<1>6. AcquireInStep'
  <2>1. (pushed' <=> irqPushed') /\ (irqPushed' <=> "mapping" \in owned')
    BY <1>3, <1>4 DEF SpmiAcquire, SpmiInv, SpmiTypes, AcquireInStep
  <2> QED BY <1>3, <1>4, <2>1 DEF SpmiInv, AcquireInStep
<1>7. ReleaseInStep' /\ IdleInStep'
  BY <1>4 DEF ReleaseInStep, IdleInStep
<1>8. ChainHeld'
  <2>1. Needs[r] \subseteq owned
    BY <1>1, <1>2, <1>3, NeedsBefore
  <2> QED BY <1>3, <2>1 DEF SpmiInv, ChainHeld
<1>9. PmicsRemovedOnce'
  <2>1. r = "child" => owned \cap Pmics = {}
    <3> SUFFICES ASSUME r = "child" PROVE owned \cap Pmics = {}
      OBVIOUS
    <3>1. n + 1 = 4
      BY <1>2, AcquireDistinct, SpmiLines
    <3>2. owned = Acquired(3)
      BY <1>1, <3>1
    <3> QED BY <3>2, SpmiLines DEF Acquired, Pmics
  <2> QED BY <1>3, <2>1 DEF SpmiAcquire, SpmiInv, SpmiTypes, PmicsRemovedOnce, Pmics
<1> QED BY <1>5, <1>6, <1>7, <1>8, <1>9 DEF SpmiInv

\* What every step of a release does to the chain.
LEMMA SpmiReleaseStep ==
    ASSUME SpmiInv, stage = "release", at <= Len(ReleaseOrder), stage' = stage, at' = at + 1,
           owned' = owned \ {ReleaseOrder[at]}
    PROVE  /\ owned' \subseteq Resources /\ at' \in 1 .. 15 /\ ChainHeld'
           /\ \A i \in 1 .. at' - 1 : ReleaseOrder[i] \notin owned'
<1>1. at \in 1 .. 14 /\ owned \subseteq Resources
  BY SpmiLines DEF SpmiInv, SpmiTypes
<1>2. \A i \in 1 .. at' - 1 : ReleaseOrder[i] \notin owned'
  BY <1>1 DEF SpmiInv, ReleaseInStep
<1>3. ChainHeld'
  <2> SUFFICES ASSUME NEW r \in owned', ReleaseOrder[at] \in Needs[r] PROVE FALSE
    BY DEF SpmiInv, ChainHeld
  <2>1. r \in Resources /\ r \in owned
    BY <1>1
  <2>2. PICK i \in 1 .. at - 1 : r = ReleaseOrder[i]
    BY <1>1, <2>1, NeedsAfter
  <2> QED BY <2>1, <2>2 DEF SpmiInv, ReleaseInStep
<1> QED BY <1>1, <1>2, <1>3

\* A release of anything but the mapping keeps the invariant.
LEMMA SpmiGiveUpInv == SpmiInv /\ GiveUp => SpmiInv'
<1> SUFFICES ASSUME SpmiInv, GiveUp PROVE SpmiInv'
  OBVIOUS
<1> DEFINE r == ReleaseOrder[at]
<1>1. /\ stage = "release" /\ at <= Len(ReleaseOrder) /\ r # "mapping" /\ owned' = owned \ {r} /\ at' = at + 1
      /\ onBus' = (IF r = "child" THEN {} ELSE onBus \ {r})
      /\ UNCHANGED <<present, stage, who, pushed, irqPushed, kept, bound, byHand>>
  BY DEF GiveUp
<1>2. /\ owned' \subseteq Resources /\ at' \in 1 .. 15 /\ ChainHeld'
      /\ \A i \in 1 .. at' - 1 : ReleaseOrder[i] \notin owned'
  BY <1>1, SpmiReleaseStep
<1>3. at \in 1 .. 14 /\ at # 13
  BY <1>1, SpmiLines DEF SpmiInv, SpmiTypes
<1>4. SpmiTypes'
  BY <1>1, <1>2 DEF SpmiInv, SpmiTypes
<1>5. AcquireInStep' /\ IdleInStep'
  BY <1>1 DEF AcquireInStep, IdleInStep
<1>6. ReleaseInStep'
  <2>1. at' > 13 => at > 13
    BY <1>1, <1>3
  <2> QED BY <1>1, <1>2, <1>3, <2>1 DEF SpmiInv, ReleaseInStep
<1>7. PmicsRemovedOnce'
  <2>1. r = "child" => owned \cap Pmics = {}
    <3> SUFFICES ASSUME r = "child" PROVE owned \cap Pmics = {}
      OBVIOUS
    <3>1. at = 11
      BY <1>3, SpmiLines
    <3>2. 6 \in 1 .. at - 1 /\ 8 \in 1 .. at - 1
      BY <3>1
    <3> QED BY <1>1, <3>2, SpmiLines DEF SpmiInv, ReleaseInStep, Pmics
  <2> QED BY <1>1, <2>1 DEF SpmiInv, PmicsRemovedOnce
<1> QED BY <1>2, <1>4, <1>5, <1>6, <1>7 DEF SpmiInv

\* owner_pop_pdc keeps the invariant, whether it takes the mapping off or leaves it.
LEMMA SpmiPopInv == SpmiInv /\ Pop => SpmiInv'
<1> SUFFICES ASSUME SpmiInv, Pop PROVE SpmiInv'
  OBVIOUS
<1>1. /\ stage = "release" /\ at <= Len(ReleaseOrder) /\ ReleaseOrder[at] = "mapping" /\ owned' = owned \ {ReleaseOrder[at]}
      /\ at' = at + 1 /\ UNCHANGED <<present, stage, who, bound, onBus, byHand>>
  BY DEF Pop
<1>2. /\ owned' \subseteq Resources /\ at' \in 1 .. 15 /\ ChainHeld'
      /\ \A i \in 1 .. at' - 1 : ReleaseOrder[i] \notin owned'
  BY <1>1, SpmiReleaseStep
<1>3. at = 13
  BY <1>1, SpmiLines DEF SpmiInv, SpmiTypes
<1>4. pushed' \in BOOLEAN /\ irqPushed' \in BOOLEAN /\ kept' \in BOOLEAN /\ (irqPushed' <=> kept') /\ (pushed' => kept')
  <2>1. (pushed <=> irqPushed) /\ ~kept /\ pushed \in BOOLEAN /\ irqPushed \in BOOLEAN /\ kept \in BOOLEAN
    BY <1>1, <1>3 DEF SpmiInv, SpmiTypes, ReleaseInStep
  <2> QED BY <2>1, Zenon DEF Pop
<1>5. SpmiTypes'
  BY <1>1, <1>2, <1>4 DEF SpmiInv, SpmiTypes
<1>6. AcquireInStep' /\ IdleInStep' /\ PmicsRemovedOnce'
  BY <1>1 DEF SpmiInv, AcquireInStep, IdleInStep, PmicsRemovedOnce
<1>7. ReleaseInStep'
  BY <1>1, <1>2, <1>3, <1>4 DEF ReleaseInStep
<1> QED BY <1>2, <1>5, <1>6, <1>7 DEF SpmiInv

\* The end of a release keeps the invariant.
LEMMA SpmiReleasedInv == SpmiInv /\ Released => SpmiInv'
<1> SUFFICES ASSUME SpmiInv, Released PROVE SpmiInv'
  OBVIOUS
<1>1. at = 15
  BY SpmiLines DEF Released, SpmiInv, SpmiTypes
<1>2. owned = {}
  <2>1. \A i \in 1 .. at - 1 : ReleaseOrder[i] \notin owned
    BY DEF Released, SpmiInv, ReleaseInStep
  <2>2. \A i \in 1 .. 14 : i \in 1 .. at - 1
    BY <1>1
  <2>3. \A i \in 1 .. 14 : ReleaseOrder[i] \notin owned
    BY <2>1, <2>2
  <2> QED BY <2>3, ReleasedAll DEF SpmiInv, SpmiTypes
<1>3. /\ stage' = "idle" /\ ~bound' /\ owned' = {} /\ present' \subseteq Participants
      /\ UNCHANGED <<who, at, pushed, irqPushed, kept, onBus, byHand>> /\ bound' \in BOOLEAN
  BY <1>2 DEF Released, SpmiInv, SpmiTypes
<1>4. (irqPushed <=> kept) /\ (pushed => kept)
  BY <1>1 DEF Released, SpmiInv, ReleaseInStep
<1> QED BY <1>3, <1>4 DEF SpmiInv, SpmiTypes, AcquireInStep, ReleaseInStep, IdleInStep, ChainHeld, PmicsRemovedOnce

\* Every step of the adapter keeps the invariant.
LEMMA SpmiNextInv == SpmiInv /\ [SpmiNext]_spmiVars => SpmiInv'
<1> SUFFICES ASSUME SpmiInv, [SpmiNext]_spmiVars PROVE SpmiInv'
  OBVIOUS
<1>1. ASSUME NEW q \in Participants, Depart(q) PROVE SpmiInv'
  <2>1. "mapping" \in Resources
    BY SpmiResources
  <2> QED BY <1>1, <2>1 DEF Depart, SpmiInv, SpmiTypes, AcquireInStep, ReleaseInStep, IdleInStep,
                            ChainHeld, PmicsRemovedOnce
<1>2. CASE Refuse
  BY <1>2 DEF Refuse, SpmiInv, SpmiTypes, AcquireInStep, ReleaseInStep, IdleInStep, ChainHeld, PmicsRemovedOnce
<1>3. CASE Complete
  <2>1. "mapping" \in Resources
    BY SpmiResources
  <2> QED BY <1>3, <2>1 DEF Complete, SpmiInv, SpmiTypes, AcquireInStep, ReleaseInStep, IdleInStep,
                            ChainHeld, PmicsRemovedOnce
<1>4. CASE ArbiterLeaves
  BY <1>4 DEF ArbiterLeaves, SpmiInv, SpmiTypes, AcquireInStep, ReleaseInStep, IdleInStep,
              ChainHeld, PmicsRemovedOnce
<1>5. CASE UNCHANGED spmiVars
  BY <1>5 DEF spmiVars, SpmiInv, SpmiTypes, AcquireInStep, ReleaseInStep, IdleInStep,
              ChainHeld, PmicsRemovedOnce
<1> QED BY <1>1, <1>2, <1>3, <1>4, <1>5, SpmiArriveInv, SpmiAcquireInv, SpmiGiveUpInv, SpmiPopInv,
           SpmiReleasedInv DEF SpmiNext

\* The invariant implies what the adapter promises.
LEMMA SpmiInvSafe == SpmiInv => SpmiSafe
BY DEF SpmiInv, SpmiTypes, AcquireInStep, ReleaseInStep, IdleInStep, SpmiSafe, SettledAllOrNothing, KeptForGood

\* The PMIC bus adapter (qcom-spmi-acpi-pwm.c): what the chain holds refers only to what
\* it holds too, at every point of a bind, a failed bind and an unbind; it is held whole or
\* not at all, PMIC devices are removed once, and a mapping that was left stays.
THEOREM SpmiIsSafe == SpmiSpec => []SpmiSafe
BY SpmiInitInv, SpmiNextInv, SpmiInvSafe, PTL DEF SpmiSpec

=============================================================================
