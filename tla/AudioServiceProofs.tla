------------------------- MODULE AudioServiceProofs --------------------------
(****************************************************************************)
(* Safety of the composed audio service, for any number of devices, buses   *)
(* and clients.  AudioInv is inductive: the invariants of PowerHold and     *)
(* ResetHold carry over because the service changes their variables only by *)
(* their own steps; ScriptInv ties the modules to the commands that wait    *)
(* for them.  The ladder refinement follows step by step.                   *)
(****************************************************************************)
EXTENDS AudioService, PowerHoldProofs

(* The reset module keeps its invariant. *)
LEMMA RsNextInv == RsInv /\ [RsNext]_rsVars => RsInv'
<1> SUFFICES ASSUME RsInv, [RsNext]_rsVars PROVE RsInv'
  OBVIOUS
<1> USE DEF RsInv, RsStates, Pins
<1>1. CASE RsLoad
  BY <1>1 DEF RsLoad
<1>2. CASE RsUnload
  BY <1>2 DEF RsUnload
<1>3. CASE RsCheck
  BY <1>3 DEF RsCheck
<1>4. CASE RsDriveLow
  BY <1>4 DEF RsDriveLow
<1>5. CASE RsMux
  BY <1>5 DEF RsMux
<1>6. CASE RsRelease
  BY <1>6 DEF RsRelease
<1>7. CASE RsRestore
  BY <1>7 DEF RsRestore
<1>8. CASE RsUnmap
  BY <1>8 DEF RsUnmap
<1>9. CASE UNCHANGED rsVars
  BY <1>9 DEF rsVars
<1> QED
  BY <1>1, <1>2, <1>3, <1>4, <1>5, <1>6, <1>7, <1>8, <1>9 DEF RsNext, RsStep

------------------------------------------------------------------------------
(* The scripts keep the types. *)
LEMMA StartScriptType == AudioInv /\ StartScript => AudioTypeOK'
<1> SUFFICES ASSUME AudioInv, StartScript PROVE AudioTypeOK'
  OBVIOUS
<1> USE DEF AudioInv, ScriptInv, AudioTypeOK, Resting, Starting, Stopping, Goto,
            unitVars, adspVars, swrVars, alsaVars
<1>1. CASE StartAdsp
  BY <1>1, ZenonT(40) DEF StartAdsp
<1>2. CASE WaitApr
  BY <1>2, ZenonT(40) DEF WaitApr
<1>3. CASE LoadLpi
  BY <1>3, ZenonT(40) DEF LoadLpi
<1>4. CASE WaitLpi
  <2>1. 1 \in 1..NDev
    BY NDevAssumption
  <2> QED BY <1>4, <2>1, ZenonT(40) DEF WaitLpi
<1>5. CASE RequireDevice
  <2>1. dev' \in 1..NDev
    BY <1>5, NDevAssumption DEF RequireDevice
  <2>2. CASE Goto("s_dev", "failed")
    BY <2>2
  <2>3. CASE UNCHANGED <<bound, status, awake>>
    BY <1>5, <2>1, <2>3, ZenonT(40) DEF RequireDevice
  <2>4. CASE Bind(dev)
    BY <1>5, <2>1, <2>4, BusesAssumption, ZenonT(40) DEF RequireDevice, Bind
  <2> QED BY <1>5, <2>2, <2>3, <2>4 DEF RequireDevice
<1>6. CASE LoadPower
  BY <1>6, ZenonT(40) DEF LoadPower, PwLoad
<1>7. CASE WaitPower
  BY <1>7, ZenonT(40) DEF WaitPower
<1>8. CASE LoadReset
  BY <1>8, ZenonT(40) DEF LoadReset, RsLoad
<1>9. CASE WaitReset
  BY <1>9, ZenonT(40) DEF WaitReset
<1>10. CASE AttachFirst
  BY <1>10, ZenonT(40) DEF AttachFirst
<1>11. CASE WaitAttach
  BY <1>11, ZenonT(40) DEF WaitAttach
<1>12. CASE LoadWcd
  BY <1>12, ZenonT(40) DEF LoadWcd
<1>13. CASE LoadCard
  BY <1>13, ZenonT(40) DEF LoadCard
<1>14. CASE CheckCard
  BY <1>14 DEF CheckCard
<1>15. CASE RestoreMixer
  BY <1>15, ZenonT(40) DEF RestoreMixer
<1> QED
  BY <1>1, <1>2, <1>3, <1>4, <1>5, <1>6, <1>7, <1>8, <1>9, <1>10, <1>11, <1>12,
     <1>13, <1>14, <1>15 DEF StartScript

LEMMA StopScriptType == AudioInv /\ StopScript => AudioTypeOK'
<1> SUFFICES ASSUME AudioInv, StopScript PROVE AudioTypeOK'
  OBVIOUS
<1> USE DEF AudioInv, ScriptInv, AudioTypeOK, Resting, Starting, Stopping, Goto,
            unitVars, adspVars, swrVars, alsaVars
<1>1. CASE CheckPcm
  BY <1>1, ZenonT(40) DEF CheckPcm
<1>2. CASE RemoveCard
  BY <1>2, ZenonT(40) DEF RemoveCard, Closed
<1>3. CASE RemoveWcd
  BY <1>3 DEF RemoveWcd
<1>4. CASE RuntimePmAuto
  BY <1>4 DEF RuntimePmAuto
<1>5. CASE RemoveReset
  BY <1>5 DEF RemoveReset, RsUnload, RsInv
<1>6. CASE WaitResetRemoved
  BY <1>6 DEF WaitResetRemoved
<1>7. CASE RemovePower
  BY <1>7 DEF RemovePower, PwUnload
<1>8. CASE WaitPowerRemoved
  BY <1>8 DEF WaitPowerRemoved
<1> QED
  BY <1>1, <1>2, <1>3, <1>4, <1>5, <1>6, <1>7, <1>8 DEF StopScript

(* Each command of the start script finds what it relies on, and leaves the *)
(* modules in order.                                                        *)
LEMMA StartScriptOrder ==
  AudioInv /\ StartScript => ModprobeWaits' /\ ModulesInOrder' /\ ScriptProgress'
<1> SUFFICES ASSUME AudioInv, StartScript
             PROVE  ModprobeWaits' /\ ModulesInOrder' /\ ScriptProgress'
  OBVIOUS
<1> USE DEF AudioInv, ScriptInv, ModprobeWaits, ModulesInOrder, ScriptProgress, PwVoting,
            Goto, pwVars, rsVars, swrVars, alsaVars
<1>1. CASE StartAdsp
  BY <1>1 DEF StartAdsp
<1>2. CASE WaitApr
  BY <1>2 DEF WaitApr
<1>3. CASE LoadLpi
  BY <1>3 DEF LoadLpi
<1>4. CASE WaitLpi
  BY <1>4 DEF WaitLpi
<1>5. CASE RequireDevice
  BY <1>5 DEF RequireDevice, Bind
<1>6. CASE LoadPower
  BY <1>6 DEF LoadPower, PwLoad
<1>7. CASE WaitPower
  BY <1>7 DEF WaitPower
<1>8. CASE LoadReset
  BY <1>8 DEF LoadReset, RsLoad
<1>9. CASE WaitReset
  BY <1>9 DEF WaitReset
<1>10. CASE AttachFirst
  BY <1>10 DEF AttachFirst
<1>11. CASE WaitAttach
  BY <1>11 DEF WaitAttach
<1>12. CASE LoadWcd
  BY <1>12 DEF LoadWcd
<1>13. CASE LoadCard
  BY <1>13 DEF LoadCard
<1>14. CASE CheckCard
  BY <1>14 DEF CheckCard
<1>15. CASE RestoreMixer
  BY <1>15 DEF RestoreMixer
<1> QED
  BY <1>1, <1>2, <1>3, <1>4, <1>5, <1>6, <1>7, <1>8, <1>9, <1>10, <1>11, <1>12,
     <1>13, <1>14, <1>15 DEF StartScript

(* So does the stop script: it takes a module away only after the ones above *)
(* it, and the card only when no client has it open.                         *)
LEMMA StopScriptOrder ==
  AudioInv /\ StopScript => ModprobeWaits' /\ ModulesInOrder' /\ ScriptProgress'
<1> SUFFICES ASSUME AudioInv, StopScript
             PROVE  ModprobeWaits' /\ ModulesInOrder' /\ ScriptProgress'
  OBVIOUS
<1> USE DEF AudioInv, ScriptInv, ModprobeWaits, ModulesInOrder, ScriptProgress, PwVoting,
            Goto, pwVars, rsVars, swrVars, alsaVars
<1>1. CASE CheckPcm
  BY <1>1 DEF CheckPcm
<1>2. CASE RemoveCard
  BY <1>2 DEF RemoveCard, Closed
<1>3. CASE RemoveWcd
  <2>1. loaded' = {}
    BY <1>3 DEF RemoveWcd, AudioTypeOK
  <2> QED BY <1>3, <2>1 DEF RemoveWcd
<1>4. CASE RuntimePmAuto
  BY <1>4 DEF RuntimePmAuto
<1>5. CASE RemoveReset
  BY <1>5 DEF RemoveReset, RsUnload, RsInv
<1>6. CASE WaitResetRemoved
  BY <1>6 DEF WaitResetRemoved
<1>7. CASE RemovePower
  BY <1>7 DEF RemovePower, PwUnload
<1>8. CASE WaitPowerRemoved
  BY <1>8 DEF WaitPowerRemoved
<1> QED
  BY <1>1, <1>2, <1>3, <1>4, <1>5, <1>6, <1>7, <1>8 DEF StopScript

(* A module in its init or exit is the one modprobe waits for, so its steps *)
(* never disturb the rungs above or below it.                               *)
LEMMA ModuleStepInv == AudioInv /\ ModuleStep => ScriptInv'
<1> SUFFICES ASSUME AudioInv, ModuleStep PROVE ScriptInv'
  OBVIOUS
<1>1. UNCHANGED svcVars
  BY DEF ModuleStep
<1>2. AudioTypeOK'
  BY <1>1 DEF AudioInv, ScriptInv, AudioTypeOK, svcVars, unitVars, adspVars, swrVars, alsaVars
<1> USE DEF AudioInv, ScriptInv, ModprobeWaits, ModulesInOrder, ScriptProgress, PwVoting
<1>3. CASE PwStep /\ UNCHANGED <<rsVars, svcVars>>
  <2>1. pw \notin {"absent", "live"}
    BY <1>3 DEF PwStep, PwFindBanks, PwVotes, PwVote, PwDisableRails, PwOff, PwPutBanks
  <2>2. svc = "t_power_w" => pw' \notin {"find", "live"} \cup PwVoting
    BY <1>3 DEF PwStep, PwFindBanks, PwVotes, PwVote, PwDisableRails, PwOff, PwPutBanks
  <2>3. ModprobeWaits' /\ ModulesInOrder' /\ ScriptProgress'
    BY <1>3, <2>1, <2>2 DEF rsVars, svcVars, swrVars, alsaVars
  <2> QED BY <1>2, <2>3
<1>4. CASE RsStep /\ UNCHANGED <<pwVars, svcVars>>
  <2>1. rs \notin {"absent", "live"}
    BY <1>4 DEF RsStep, RsCheck, RsDriveLow, RsMux, RsRelease, RsRestore, RsUnmap
  <2>2. svc = "t_reset_w" => rs' \in {"restore", "unmap", "absent"}
    BY <1>4 DEF RsStep, RsCheck, RsDriveLow, RsMux, RsRelease, RsRestore, RsUnmap
  <2>3. ModprobeWaits' /\ ModulesInOrder' /\ ScriptProgress'
    BY <1>4, <2>1, <2>2 DEF pwVars, svcVars, swrVars, alsaVars
  <2> QED BY <1>2, <2>3
<1> QED BY <1>3, <1>4 DEF ModuleStep

(* Nothing that runs beside the scripts takes a module away. *)
LEMMA EnvironmentInv == AudioInv /\ Environment => ScriptInv'
<1> SUFFICES ASSUME AudioInv, Environment PROVE ScriptInv'
  OBVIOUS
<1>1. AudioTypeOK'
  <2> USE DEF AudioInv, ScriptInv, AudioTypeOK, Resting, Starting, Stopping,
              unitVars, adspVars, swrVars, alsaVars
  <2>1. CASE ProvidersBind
    BY <2>1 DEF ProvidersBind
  <2>9. CASE AprUp
    BY <2>9 DEF AprUp
  <2>10. CASE LpiBinds
    BY <2>10 DEF LpiBinds
  <2>2. CASE AdspDown
    BY <2>2 DEF AdspDown
  <2>3. CASE CardProbes
    BY <2>3 DEF CardProbes
  <2>4. ASSUME NEW d \in 1..NDev, DeviceBinds(d) PROVE AudioTypeOK'
    BY <2>4, BusesAssumption DEF DeviceBinds, Bind
  <2>5. ASSUME NEW b \in Buses, SlaveAttaches(b) PROVE AudioTypeOK'
    BY <2>5 DEF SlaveAttaches
  <2>6. ASSUME NEW b \in Buses, SlaveDrops(b) PROVE AudioTypeOK'
    BY <2>6 DEF SlaveDrops
  <2>7. ASSUME NEW b \in Buses, BusSuspends(b) PROVE AudioTypeOK'
    BY <2>7 DEF BusSuspends
  <2>11. ASSUME NEW b \in Buses, BusWakes(b) PROVE AudioTypeOK'
    BY <2>11 DEF BusWakes
  <2>8. ASSUME NEW s \in Streams, ClientStep(s) PROVE AudioTypeOK'
    <3>1. ASSUME NEW to \in {"closed", "open", "running"}, NEW from, Client(s, from, to)
          PROVE  AudioTypeOK'
      BY <3>1 DEF Client
    <3> QED BY <2>8, <3>1 DEF ClientStep
  <2> QED
    BY <2>1, <2>2, <2>3, <2>4, <2>5, <2>6, <2>7, <2>8, <2>9, <2>10,
       <2>11 DEF Environment
<1>2. ModprobeWaits' /\ ModulesInOrder' /\ ScriptProgress'
  <2> USE DEF AudioInv, ScriptInv, AudioTypeOK, ModprobeWaits, ModulesInOrder, ScriptProgress,
              pwVars, rsVars, swrVars, alsaVars
  <2>1. CASE ProvidersBind
    BY <2>1 DEF ProvidersBind
  <2>9. CASE AprUp
    BY <2>9 DEF AprUp
  <2>10. CASE LpiBinds
    BY <2>10 DEF LpiBinds
  <2>2. CASE AdspDown
    BY <2>2 DEF AdspDown
  <2>3. CASE CardProbes
    BY <2>3 DEF CardProbes
  <2>4. ASSUME NEW d \in 1..NDev, DeviceBinds(d)
        PROVE  ModprobeWaits' /\ ModulesInOrder' /\ ScriptProgress'
    BY <2>4 DEF DeviceBinds, Bind
  <2>5. ASSUME NEW b \in Buses, SlaveAttaches(b)
        PROVE  ModprobeWaits' /\ ModulesInOrder' /\ ScriptProgress'
    BY <2>5 DEF SlaveAttaches
  <2>7. ASSUME NEW b \in Buses, SlaveDrops(b)
        PROVE  ModprobeWaits' /\ ModulesInOrder' /\ ScriptProgress'
    BY <2>7 DEF SlaveDrops
  <2>8. ASSUME NEW b \in Buses, BusSuspends(b)
        PROVE  ModprobeWaits' /\ ModulesInOrder' /\ ScriptProgress'
    BY <2>8 DEF BusSuspends
  <2>11. ASSUME NEW b \in Buses, BusWakes(b)
        PROVE  ModprobeWaits' /\ ModulesInOrder' /\ ScriptProgress'
    BY <2>11 DEF BusWakes
  <2>6. ASSUME NEW s \in Streams, ClientStep(s)
        PROVE  ModprobeWaits' /\ ModulesInOrder' /\ ScriptProgress'
    BY <2>6 DEF ClientStep, Client
  <2> QED
    BY <2>1, <2>2, <2>3, <2>4, <2>5, <2>6, <2>7, <2>8,
       <2>9, <2>10, <2>11 DEF Environment
<1> QED BY <1>1, <1>2 DEF ScriptInv

(* systemctl and the kill of a script move only the unit. *)
LEMMA UnitInv ==
  AudioInv /\ (Prepare \/ StartUnit \/ StopUnit \/ Kill) => ScriptInv'
<1> SUFFICES ASSUME AudioInv, Prepare \/ StartUnit \/ StopUnit \/ Kill PROVE ScriptInv'
  OBVIOUS
<1>1. AudioTypeOK'
  <2> USE DEF AudioInv, ScriptInv, AudioTypeOK, Resting, Starting, Stopping,
              unitVars, adspVars, swrVars, alsaVars
  <2>1. CASE Prepare
    BY <2>1 DEF Prepare
  <2>2. CASE StartUnit \/ StopUnit \/ Kill
    BY <2>2, ZenonT(40) DEF StartUnit, StopUnit, Kill
  <2> QED BY <2>1, <2>2
<1>2. ModprobeWaits' /\ ModulesInOrder' /\ ScriptProgress'
  BY DEF AudioInv, ScriptInv, ModprobeWaits, ModulesInOrder, ScriptProgress, PwVoting,
         Prepare, StartUnit, StopUnit, Kill, pwVars, rsVars, swrVars, alsaVars
<1> QED BY <1>1, <1>2 DEF ScriptInv

------------------------------------------------------------------------------
(* The service changes the variables of the two hold modules only by their  *)
(* own steps.                                                               *)
LEMMA HoldModulesSteps ==
  [AudioNext]_vars => [PwNext]_pwVars /\ [RsNext]_rsVars
<1> SUFFICES ASSUME [AudioNext]_vars PROVE [PwNext]_pwVars /\ [RsNext]_rsVars
  OBVIOUS
<1>1. CASE Prepare \/ StartUnit \/ StopUnit \/ Kill
  BY <1>1 DEF Prepare, StartUnit, StopUnit, Kill
<1>2. CASE StartScript
  BY <1>2 DEF StartScript, StartAdsp, WaitApr, LoadLpi, WaitLpi, RequireDevice, LoadPower,
       WaitPower, LoadReset, WaitReset, AttachFirst, WaitAttach, LoadWcd, LoadCard,
       CheckCard, RestoreMixer, Goto, PwNext, RsNext
<1>3. CASE StopScript
  BY <1>3 DEF StopScript, CheckPcm, RemoveCard, RemoveWcd, RuntimePmAuto, RemoveReset,
       WaitResetRemoved, RemovePower, WaitPowerRemoved, Goto, PwNext, RsNext
<1>4. CASE ModuleStep
  BY <1>4 DEF ModuleStep, PwNext, RsNext
<1>5. CASE Environment
  BY <1>5 DEF Environment, ProvidersBind, AprUp, LpiBinds, AdspDown, CardProbes, DeviceBinds,
       SlaveAttaches, SlaveDrops, BusSuspends, BusWakes, ClientStep, Client
<1>6. CASE UNCHANGED vars
  BY <1>6 DEF vars
<1> QED BY <1>1, <1>2, <1>3, <1>4, <1>5, <1>6 DEF AudioNext

(* The invariant holds of every behaviour of the service. *)
THEOREM AudioSafe == AudioSpec => []AudioInv
<1>1. AudioInit => AudioInv
  <2> SUFFICES ASSUME AudioInit PROVE AudioInv
    OBVIOUS
  <2>1. PwInv
    BY PwInitInv DEF AudioInit
  <2>2. RsInv
    BY DEF AudioInit, RsInit, RsInv, RsStates, Pins
  <2>3. AudioTypeOK
    <3>1. 1 \in 1..NDev
      BY NDevAssumption
    <3> QED BY <3>1 DEF AudioInit, AudioTypeOK, Resting, Starting, Stopping
  <2>4. ModprobeWaits /\ ModulesInOrder /\ ScriptProgress
    BY DEF AudioInit, PwInit, RsInit, ModprobeWaits, ModulesInOrder, ScriptProgress
  <2> QED BY <2>1, <2>2, <2>3, <2>4 DEF AudioInv, ScriptInv
<1>2. AudioInv /\ [AudioNext]_vars => AudioInv'
  <2> SUFFICES ASSUME AudioInv, [AudioNext]_vars PROVE AudioInv'
    OBVIOUS
  <2>1. PwInv' /\ RsInv'
    BY HoldModulesSteps, PwNextInv, RsNextInv DEF AudioInv
  <2>2. CASE Prepare \/ StartUnit \/ StopUnit \/ Kill
    BY <2>1, <2>2, UnitInv DEF AudioInv
  <2>3. CASE StartScript
    BY <2>1, <2>3, StartScriptType, StartScriptOrder DEF AudioInv, ScriptInv
  <2>4. CASE StopScript
    BY <2>1, <2>4, StopScriptType, StopScriptOrder DEF AudioInv, ScriptInv
  <2>5. CASE ModuleStep
    BY <2>1, <2>5, ModuleStepInv DEF AudioInv
  <2>6. CASE Environment
    BY <2>1, <2>6, EnvironmentInv DEF AudioInv
  <2>7. CASE UNCHANGED vars
    BY <2>1, <2>7 DEF AudioInv, ScriptInv, AudioTypeOK, ModprobeWaits, ModulesInOrder,
         ScriptProgress, vars, pwVars, rsVars, svcVars, unitVars, adspVars, swrVars, alsaVars
  <2> QED BY <2>2, <2>3, <2>4, <2>5, <2>6, <2>7 DEF AudioNext
<1> QED BY <1>1, <1>2, PTL DEF AudioSpec

(* The codec is out of reset only while both rails are on. *)
THEOREM AudioReleasedOnlyPowered == AudioSpec => []ReleasedOnlyPowered
<1>1. AudioInv => ReleasedOnlyPowered
  <2> SUFFICES ASSUME AudioInv, Released, NEW r \in Rails PROVE RailOn(r)
    BY DEF ReleasedOnlyPowered
  <2>1. pw = "live"
    BY DEF AudioInv, ScriptInv, ModulesInOrder, RsInv, Released
  <2> QED
    BY <2>1 DEF AudioInv, PwInv, RailEnabledConfigured, RailOn, Rails, Fields
<1> QED BY <1>1, AudioSafe, PTL

(* A client that holds the card open has a powered codec out of reset. *)
THEOREM AudioStreamsPowered == AudioSpec => []StreamsPowered
<1>1. AudioInv => StreamsPowered
  <2> SUFFICES ASSUME AudioInv, NEW s \in Streams, pcm[s] # "closed"
               PROVE  Released /\ (\A r \in Rails : RailOn(r)) /\ loaded = {"wcd", "card"}
    BY DEF StreamsPowered
  <2>1. rs = "live" /\ pw = "live" /\ "wcd" \in loaded /\ "card" \in loaded
    BY DEF AudioInv, ScriptInv, ModulesInOrder
  <2>2. loaded = {"wcd", "card"}
    BY <2>1 DEF AudioInv, ScriptInv, AudioTypeOK
  <2>3. Released
    BY <2>1 DEF AudioInv, RsInv, Released
  <2>4. \A r \in Rails : RailOn(r)
    BY <2>1 DEF AudioInv, PwInv, RailEnabledConfigured, RailOn, Rails, Fields
  <2> QED BY <2>2, <2>3, <2>4
<1> QED BY <1>1, AudioSafe, PTL

(* A stop script that succeeds has put everything back. *)
THEOREM AudioCleanStop == AudioSpec => CleanStop
<1> DEFINE Clean ==
      /\ pw' = "absent" /\ rs' = "absent" /\ loaded' = {} /\ pm' = "auto"
      /\ \A s \in Streams : pcm'[s] = "closed"
      /\ pin' # "output"
      /\ \A r \in Rails : <<r, "en">> \in hw' => r \in doubt'
<1>1. ASSUME AudioInv, [AudioNext]_vars, svc \in Stopping, svc' = "inactive"
      PROVE  Clean
  <2>1. \/ pw = "absent" /\ Goto("t_power", "inactive")
        \/ pw = "absent" /\ Goto("t_power_w", "inactive")
    <3>1. svc' # svc
      BY <1>1 DEF Stopping
    <3>2. CASE StopScript
      BY <1>1, <3>2 DEF StopScript, CheckPcm, RemoveCard, RemoveWcd, RuntimePmAuto, RemoveReset,
         WaitResetRemoved, RemovePower, WaitPowerRemoved, Goto
    <3>3. ~StartScript
      BY <1>1 DEF Stopping, StartScript, StartAdsp, WaitApr, LoadLpi, WaitLpi, RequireDevice,
         LoadPower, WaitPower, LoadReset, WaitReset, AttachFirst, WaitAttach, LoadWcd,
         LoadCard, CheckCard, RestoreMixer, Goto
    <3>4. ~(Prepare \/ StartUnit \/ StopUnit \/ Kill)
      BY <1>1, <3>1 DEF Stopping, Prepare, StartUnit, StopUnit, Kill
    <3>5. ~ModuleStep /\ ~UNCHANGED vars
      BY <3>1 DEF ModuleStep, vars, svcVars
    <3>6. ~Environment
      BY <3>1 DEF Environment, ProvidersBind, AprUp, LpiBinds, AdspDown, CardProbes, DeviceBinds,
         SlaveAttaches, SlaveDrops, BusSuspends, BusWakes, ClientStep, Client
    <3> QED BY <1>1, <3>2, <3>3, <3>4, <3>5, <3>6 DEF AudioNext
  <2>2. pw = "absent" /\ rs = "absent" /\ loaded = {} /\ pm = "auto"
    BY <1>1, <2>1 DEF Goto, AudioInv, ScriptInv, ScriptProgress
  <2>3. \A s \in Streams : pcm[s] = "closed"
    BY <1>1, <2>2 DEF AudioInv, ScriptInv, ModulesInOrder
  <2>4. pin # "output" /\ \A r \in Rails : <<r, "en">> \in hw => r \in doubt
    BY <1>1, <2>2 DEF AudioInv, RsInv, PwInv, Rails
  <2> QED
    BY <2>1, <2>2, <2>3, <2>4 DEF Goto, pwVars, rsVars, swrVars, alsaVars
<1>2. AudioInv /\ [AudioNext]_vars =>
        [(svc \in Stopping /\ svc' = "inactive") => Clean]_vars
  BY <1>1
<1> QED BY <1>2, AudioSafe, PTL DEF AudioSpec, CleanStop

------------------------------------------------------------------------------
(* Refinement of the ladder. *)

(* A step that keeps the modules and the clients is invisible. *)
LEMMA Invisible ==
  ASSUME UNCHANGED <<loaded, pcm>>, (rs' = "live") <=> (rs = "live"),
         (pw' = "live") <=> (pw = "live")
  PROVE  UNCHANGED <<Rung, OpenStreams>>
BY DEF Rung, OpenStreams

(* The start script climbs at most one rung at a time. *)
LEMMA StartScriptLadder ==
  AudioInv /\ StartScript => Ladder!LadderNext \/ UNCHANGED <<Rung, OpenStreams>>
<1> SUFFICES ASSUME AudioInv, StartScript
             PROVE  Ladder!LadderNext \/ UNCHANGED <<Rung, OpenStreams>>
  OBVIOUS
<1>1. CASE LoadWcd /\ loaded' # loaded
  <2>1. rs = "live" /\ "wcd" \notin loaded /\ "card" \notin loaded
    BY <1>1 DEF LoadWcd, Goto, alsaVars, AudioInv, ScriptInv, ModulesInOrder, ScriptProgress
  <2>2. loaded' = loaded \cup {"wcd"} /\ UNCHANGED <<pcm, rs, pw>>
    BY <1>1 DEF LoadWcd, Goto, alsaVars, pwVars, rsVars
  <2> QED
    BY <2>1, <2>2 DEF Ladder!LadderNext, Ladder!ClimbUp, Ladder!Top, Rung, OpenStreams
<1>2. CASE LoadCard /\ loaded' # loaded
  <2>1. "wcd" \in loaded /\ "card" \notin loaded
    BY <1>2 DEF LoadCard, Goto, alsaVars, AudioInv, ScriptInv, ScriptProgress
  <2>2. loaded' = loaded \cup {"card"} /\ UNCHANGED <<pcm, rs, pw>>
    BY <1>2 DEF LoadCard, Goto, alsaVars, pwVars, rsVars
  <2> QED
    BY <2>1, <2>2 DEF Ladder!LadderNext, Ladder!ClimbUp, Ladder!Top, Rung, OpenStreams
<1>3. CASE loaded' = loaded
  <2>1. UNCHANGED pcm
    BY DEF StartScript, StartAdsp, WaitApr, LoadLpi, WaitLpi, RequireDevice, LoadPower,
       WaitPower, LoadReset, WaitReset, AttachFirst, WaitAttach, LoadWcd, LoadCard,
       CheckCard, RestoreMixer, Goto, alsaVars
  <2>2. /\ (rs' = "live") <=> (rs = "live")
        /\ (pw' = "live") <=> (pw = "live")
    BY DEF StartScript, StartAdsp, WaitApr, LoadLpi, WaitLpi, RequireDevice, LoadPower,
       WaitPower, LoadReset, WaitReset, AttachFirst, WaitAttach, LoadWcd, LoadCard,
       CheckCard, RestoreMixer, Goto, PwLoad, RsLoad, pwVars, rsVars
  <2> QED BY <1>3, <2>1, <2>2, Invisible
<1>4. loaded' # loaded => LoadWcd \/ LoadCard
  BY DEF StartScript, StartAdsp, WaitApr, LoadLpi, WaitLpi, RequireDevice, LoadPower,
     WaitPower, LoadReset, WaitReset, AttachFirst, WaitAttach, CheckCard, RestoreMixer,
     Goto, alsaVars
<1> QED BY <1>1, <1>2, <1>3, <1>4

(* The stop script descends at most one rung at a time, with no client left. *)
LEMMA StopScriptLadder ==
  AudioInv /\ StopScript => Ladder!LadderNext \/ UNCHANGED <<Rung, OpenStreams>>
<1> SUFFICES ASSUME AudioInv, StopScript
             PROVE  Ladder!LadderNext \/ UNCHANGED <<Rung, OpenStreams>>
  OBVIOUS
<1>0. "card" \notin loaded => OpenStreams = {}
  BY DEF AudioInv, ScriptInv, ModulesInOrder, OpenStreams
<1>1. CASE RemoveCard
  <2>1. CASE "card" \in loaded /\ loaded' # loaded
    <3>1. /\ OpenStreams = {} /\ "wcd" \in loaded
          /\ loaded' = loaded \ {"card"} /\ UNCHANGED <<pcm, rs, pw>>
      BY <1>1, <2>1 DEF RemoveCard, Closed, Goto, alsaVars, pwVars, rsVars, OpenStreams,
         AudioInv, ScriptInv, ModulesInOrder
    <3> QED
      BY <2>1, <3>1 DEF Ladder!LadderNext, Ladder!StepDown, Rung, OpenStreams
  <2>2. CASE loaded' = loaded
    BY <1>1, <2>2, Invisible DEF RemoveCard, Goto, alsaVars, pwVars, rsVars
  <2>3. "card" \notin loaded => loaded' = loaded
    BY <1>1 DEF RemoveCard, Goto, alsaVars
  <2> QED BY <2>1, <2>2, <2>3
<1>2. CASE RemoveWcd
  <2>1. /\ "card" \notin loaded /\ loaded' = loaded \ {"wcd"}
        /\ "wcd" \in loaded => rs = "live"
        /\ UNCHANGED <<pcm, rs, pw>>
    BY <1>2 DEF RemoveWcd, pwVars, rsVars, AudioInv, ScriptInv, ModulesInOrder, ScriptProgress
  <2>2. CASE "wcd" \in loaded
    BY <1>0, <2>1, <2>2 DEF Ladder!LadderNext, Ladder!StepDown, Rung, OpenStreams
  <2>3. CASE "wcd" \notin loaded
    <3>1. loaded' = loaded
      BY <2>1, <2>3
    <3> QED BY <2>1, <3>1, Invisible
  <2> QED BY <2>2, <2>3
<1>3. CASE RemoveReset
  <2>1. loaded = {} /\ loaded' = {} /\ UNCHANGED <<pcm, pw>> /\ (rs = "live" => pw = "live")
    BY <1>3 DEF RemoveReset, Goto, alsaVars, pwVars, AudioInv, ScriptInv, ScriptProgress,
       ModulesInOrder
  <2>2. CASE rs = "live" /\ rs' # "live"
    BY <1>0, <2>1, <2>2 DEF Ladder!LadderNext, Ladder!StepDown, Rung, OpenStreams
  <2>3. rs # "live" => rs' = rs
    BY <1>3 DEF RemoveReset, Goto, rsVars
  <2>4. CASE (rs' = "live") <=> (rs = "live")
    BY <2>1, <2>4, Invisible
  <2> QED BY <2>2, <2>3, <2>4
<1>4. CASE RemovePower
  <2>1. /\ loaded = {} /\ loaded' = {} /\ rs = "absent" /\ rs' = "absent"
        /\ UNCHANGED pcm
    BY <1>4 DEF RemovePower, Goto, alsaVars, rsVars, AudioInv, ScriptInv, ScriptProgress
  <2>2. CASE pw = "live" /\ pw' # "live"
    BY <1>0, <2>1, <2>2 DEF Ladder!LadderNext, Ladder!StepDown, Rung, OpenStreams
  <2>3. pw # "live" => pw' = pw
    BY <1>4 DEF RemovePower, Goto, pwVars
  <2>4. CASE (pw' = "live") <=> (pw = "live")
    BY <2>1, <2>4, Invisible
  <2> QED BY <2>2, <2>3, <2>4
<1>5. CASE CheckPcm \/ RuntimePmAuto \/ WaitResetRemoved \/ WaitPowerRemoved
  BY <1>5, Invisible
     DEF CheckPcm, RuntimePmAuto, WaitResetRemoved, WaitPowerRemoved, Goto, alsaVars,
         pwVars, rsVars
<1> QED BY <1>1, <1>2, <1>3, <1>4, <1>5 DEF StopScript

(* The hold modules reach their rung when init ends, and only then. *)
LEMMA ModuleStepLadder ==
  AudioInv /\ ModuleStep => Ladder!LadderNext \/ UNCHANGED <<Rung, OpenStreams>>
<1> SUFFICES ASSUME AudioInv, ModuleStep
             PROVE  Ladder!LadderNext \/ UNCHANGED <<Rung, OpenStreams>>
  OBVIOUS
<1>1. UNCHANGED <<loaded, pcm>>
  BY DEF ModuleStep, svcVars, alsaVars
<1>2. CASE PwStep /\ UNCHANGED <<rsVars, svcVars>>
  <2>1. pw \notin {"absent", "live"} /\ UNCHANGED rs
    BY <1>2 DEF PwStep, PwFindBanks, PwVotes, PwVote, PwDisableRails, PwOff, PwPutBanks, rsVars
  <2>2. loaded = {} /\ rs = "absent"
    BY <2>1 DEF AudioInv, ScriptInv, ModulesInOrder, AudioTypeOK
  <2>3. CASE pw' = "live"
    BY <1>1, <2>1, <2>2, <2>3
       DEF Ladder!LadderNext, Ladder!ClimbUp, Ladder!Top, Rung, OpenStreams
  <2>4. CASE pw' # "live"
    BY <1>1, <2>1, <2>2, <2>4, Invisible
  <2> QED BY <2>3, <2>4
<1>3. CASE RsStep /\ UNCHANGED <<pwVars, svcVars>>
  <2>1. rs \notin {"absent", "live"} /\ UNCHANGED pw
    BY <1>3 DEF RsStep, RsCheck, RsDriveLow, RsMux, RsRelease, RsRestore, RsUnmap, pwVars
  <2>2. loaded = {} /\ pw = "live"
    BY <2>1 DEF AudioInv, ScriptInv, ModulesInOrder, AudioTypeOK
  <2>3. CASE rs' = "live"
    BY <1>1, <2>1, <2>2, <2>3
       DEF Ladder!LadderNext, Ladder!ClimbUp, Ladder!Top, Rung, OpenStreams
  <2>4. CASE rs' # "live"
    BY <1>1, <2>1, <2>2, <2>4, Invisible
  <2> QED BY <2>3, <2>4
<1> QED BY <1>2, <1>3 DEF ModuleStep

(* Beside the scripts only the clients are visible. *)
LEMMA EnvironmentLadder ==
  AudioInv /\ Environment => Ladder!LadderNext \/ UNCHANGED <<Rung, OpenStreams>>
<1> SUFFICES ASSUME AudioInv, Environment
             PROVE  Ladder!LadderNext \/ UNCHANGED <<Rung, OpenStreams>>
  OBVIOUS
<1>1. UNCHANGED <<loaded, pw, rs>>
  BY DEF Environment, ProvidersBind, AprUp, LpiBinds, AdspDown, CardProbes, DeviceBinds,
     SlaveAttaches, SlaveDrops, BusSuspends, BusWakes, ClientStep, Client, alsaVars,
     pwVars, rsVars
<1>2. UNCHANGED Rung
  BY <1>1 DEF Rung
<1>3. ASSUME NEW s \in Streams, ClientStep(s)
      PROVE  Ladder!LadderNext \/ UNCHANGED <<Rung, OpenStreams>>
  <2>1. CASE card /\ Client(s, "closed", "open")
    <3>1. Rung = 4
      BY <2>1 DEF AudioInv, ScriptInv, ModulesInOrder, Rung
    <3>2. OpenStreams' = OpenStreams \cup {s}
      BY <2>1 DEF Client, OpenStreams, AudioInv, ScriptInv, AudioTypeOK
    <3> QED
      BY <1>2, <3>1, <3>2 DEF Ladder!LadderNext, Ladder!UserEnters, Ladder!Top
  <2>2. CASE Client(s, "open", "closed")
    <3>1. OpenStreams' = OpenStreams \ {s}
      BY <2>2 DEF Client, OpenStreams, AudioInv, ScriptInv, AudioTypeOK
    <3> QED
      BY <1>2, <3>1 DEF Ladder!LadderNext, Ladder!UserLeaves
  <2>3. CASE Client(s, "open", "running") \/ Client(s, "running", "open")
    <3>1. OpenStreams' = OpenStreams
      BY <2>3 DEF Client, OpenStreams, AudioInv, ScriptInv, AudioTypeOK
    <3> QED BY <1>2, <3>1
  <2> QED BY <1>3, <2>1, <2>2, <2>3 DEF ClientStep
<1>4. CASE AdspDown
  <2>1. OpenStreams' = OpenStreams
    BY <1>4 DEF AdspDown, OpenStreams, AudioInv, ScriptInv, AudioTypeOK
  <2> QED BY <1>2, <2>1
<1>5. ASSUME UNCHANGED pcm PROVE UNCHANGED <<Rung, OpenStreams>>
  BY <1>2, <1>5 DEF OpenStreams
<1>6. \/ UNCHANGED pcm
      \/ AdspDown
      \/ \E s \in Streams : ClientStep(s)
  BY DEF Environment, ProvidersBind, AprUp, LpiBinds, CardProbes, DeviceBinds,
     SlaveAttaches, SlaveDrops, BusSuspends, BusWakes, alsaVars
<1> QED BY <1>3, <1>4, <1>5, <1>6

(* The scripts and modules implement the ladder for any number of devices,  *)
(* buses and clients: no failure, kill, race or restart skips a rung or     *)
(* pulls one away under an open client.                                     *)
THEOREM AudioImplementsLadder == AudioSpec => ImplementsLadder
<1>1. AudioInit => Ladder!LadderInit
  BY DEF AudioInit, PwInit, RsInit, Ladder!LadderInit, Rung, OpenStreams
<1>2. AudioInv /\ [AudioNext]_vars => [Ladder!LadderNext]_<<Rung, OpenStreams>>
  <2> SUFFICES ASSUME AudioInv, [AudioNext]_vars
               PROVE  Ladder!LadderNext \/ UNCHANGED <<Rung, OpenStreams>>
    OBVIOUS
  <2>1. CASE Prepare \/ StartUnit \/ StopUnit \/ Kill
    BY <2>1, Invisible DEF Prepare, StartUnit, StopUnit, Kill, pwVars, rsVars, alsaVars
  <2>2. CASE UNCHANGED vars
    BY <2>2, Invisible DEF vars, pwVars, rsVars, svcVars, alsaVars
  <2> QED
    BY <2>1, <2>2, StartScriptLadder, StopScriptLadder, ModuleStepLadder, EnvironmentLadder
       DEF AudioNext
<1> QED BY <1>1, <1>2, AudioSafe, PTL DEF AudioSpec, ImplementsLadder, Ladder!LadderSpec

(* The codec has power whenever it is out of reset or in use, for any number *)
(* of devices, buses and clients.                                           *)
THEOREM AudioCodecPowered == AudioSpec => []CodecPowered
<1>1. ReleasedOnlyPowered /\ StreamsPowered => CodecPowered
  BY DEF CodecPowered
<1> QED BY <1>1, AudioReleasedOnlyPowered, AudioStreamsPowered, PTL

------------------------------------------------------------------------------
(* The reset module's own steps keep the line disciplined. *)
LEMMA RsNextDiscipline ==
  ASSUME RsInv, [RsNext]_rsVars
  PROVE  /\ Released' /\ ~Released => pin = "output" /\ ~high
         /\ Released /\ ~Released' => pin' = "output"
         /\ pin = "foreign" => pin' = pin /\ high' = high
<1> USE DEF RsInv, RsStates, Pins, Released
<1>1. CASE RsLoad \/ RsCheck \/ RsUnmap \/ UNCHANGED rsVars
  BY <1>1 DEF RsLoad, RsCheck, RsUnmap, rsVars
<1>2. CASE RsUnload
  BY <1>2 DEF RsUnload
<1>3. CASE RsDriveLow
  BY <1>3 DEF RsDriveLow
<1>4. CASE RsMux
  BY <1>4 DEF RsMux
<1>5. CASE RsRelease
  BY <1>5 DEF RsRelease
<1>6. CASE RsRestore
  BY <1>6 DEF RsRestore
<1> QED BY <1>1, <1>2, <1>3, <1>4, <1>5, <1>6 DEF RsNext, RsStep

(* Through kills, restarts and failed loads the reset line is driven high   *)
(* only from a driven low, is never made an input while high, and a pin in  *)
(* somebody else's hands is never written.                                  *)
THEOREM AudioLineDiscipline == AudioSpec => LineDiscipline
<1> DEFINE Disciplined ==
      /\ Released' /\ ~Released => pin = "output" /\ ~high
      /\ Released /\ ~Released' => pin' = "output"
      /\ pin = "foreign" => pin' = pin /\ high' = high
<1>1. AudioInv /\ [AudioNext]_vars => [Disciplined]_rsVars
  BY HoldModulesSteps, RsNextDiscipline DEF AudioInv
<1> QED BY <1>1, AudioSafe, PTL DEF AudioSpec, LineDiscipline

------------------------------------------------------------------------------
(* What the loop over the devices has established: while the ADSP stays up  *)
(* no device is unbound again, so all are bound when the script goes on to  *)
(* the rails and the reset line.                                            *)
ConsumersBound ==
  /\ svc = "s_dev" => \A d \in 1..NDev : d < dev => d \in bound
  /\ svc \in {"s_power", "s_power_w", "s_reset", "s_reset_w"} => bound = 1..NDev

(* One turn of the loop adds the device it looked at; the last turn leads on. *)
LEMMA RequireDeviceBound ==
  ASSUME AudioInv, ConsumersBound, RequireDevice PROVE ConsumersBound'
<1>1. CASE Goto("s_dev", "failed")
  BY <1>1 DEF Goto, ConsumersBound
<1>2. CASE svc = "s_dev" /\ ~Goto("s_dev", "failed")
  <2>1. dev \in 1..NDev /\ bound \subseteq 1..NDev
    BY DEF AudioInv, ScriptInv, AudioTypeOK
  <2>2. bound' = bound \cup {dev}
    BY <1>2 DEF RequireDevice, Bind
  <2>3. \A d \in 1..NDev : d < dev => d \in bound
    BY <1>2 DEF ConsumersBound
  <2>4. CASE dev < NDev /\ svc' = "s_dev" /\ dev' = dev + 1
    <3>1. \A d \in 1..NDev : d < dev' => d \in bound'
      BY <2>1, <2>2, <2>3, <2>4, NDevAssumption
    <3> QED BY <2>4, <3>1 DEF ConsumersBound
  <2>5. CASE dev = NDev /\ svc' = "s_power" /\ dev' = dev
    <3>1. ASSUME NEW d \in 1..NDev PROVE d \in bound'
      <4>1. d < dev \/ d = dev
        BY <2>1, <2>5, NDevAssumption
      <4> QED BY <2>2, <2>3, <4>1
    <3>2. bound' \subseteq 1..NDev
      BY <2>1, <2>2
    <3> QED BY <2>5, <3>1, <3>2 DEF ConsumersBound
  <2> QED BY <1>2, <2>4, <2>5 DEF RequireDevice
<1> QED BY <1>1, <1>2 DEF RequireDevice, Goto

(* Every other step keeps what is bound, or binds more, as long as the ADSP *)
(* does not go down.                                                        *)
LEMMA ConsumersNext ==
  ASSUME ~Crashes, AudioInv, ConsumersBound, [AudioNext]_vars PROVE ConsumersBound'
<1>1. CASE Prepare \/ StartUnit \/ StopUnit \/ Kill
  BY <1>1 DEF Prepare, StartUnit, StopUnit, Kill, ConsumersBound, adspVars
<1>2. CASE StartScript
  <2>1. CASE RequireDevice
    BY <2>1, RequireDeviceBound
  <2>2. CASE WaitLpi
    BY <2>2 DEF WaitLpi, Goto, ConsumersBound
  <2>3. CASE LoadPower \/ WaitPower \/ LoadReset \/ WaitReset
    BY <2>3 DEF LoadPower, WaitPower, LoadReset, WaitReset, Goto, ConsumersBound, adspVars
  <2>4. CASE StartAdsp \/ WaitApr \/ LoadLpi
    BY <2>4 DEF StartAdsp, WaitApr, LoadLpi, Goto, ConsumersBound
  <2>5. CASE AttachFirst \/ WaitAttach \/ LoadWcd \/ LoadCard \/ CheckCard \/ RestoreMixer
    BY <2>5 DEF AttachFirst, WaitAttach, LoadWcd, LoadCard, CheckCard, RestoreMixer, Goto,
       ConsumersBound
  <2> QED BY <1>2, <2>1, <2>2, <2>3, <2>4, <2>5 DEF StartScript
<1>3. CASE StopScript
  BY <1>3 DEF StopScript, CheckPcm, RemoveCard, RemoveWcd, RuntimePmAuto, RemoveReset,
     WaitResetRemoved, RemovePower, WaitPowerRemoved, Goto, ConsumersBound
<1>4. CASE ModuleStep
  BY <1>4 DEF ModuleStep, svcVars, adspVars, ConsumersBound
<1>5. CASE Environment
  <2>1. svc' = svc /\ dev' = dev /\ bound \subseteq bound' /\ bound' \subseteq 1..NDev
    <3>1. bound \subseteq 1..NDev
      BY DEF AudioInv, ScriptInv, AudioTypeOK
    <3>2. CASE \E d \in 1..NDev : DeviceBinds(d)
      BY <3>1, <3>2 DEF DeviceBinds, Bind
    <3>3. ~AdspDown
      BY DEF AdspDown
    <3> QED
      BY <1>5, <3>1, <3>2, <3>3 DEF Environment, ProvidersBind, AprUp, LpiBinds, CardProbes,
         SlaveAttaches, SlaveDrops, BusSuspends, BusWakes, ClientStep, Client, adspVars
  <2> QED BY <2>1 DEF ConsumersBound
<1>6. CASE UNCHANGED vars
  BY <1>6 DEF vars, svcVars, adspVars, ConsumersBound
<1> QED BY <1>1, <1>2, <1>3, <1>4, <1>5, <1>6 DEF AudioNext

(* A vote goes out, and the pin changes, only while modprobe waits. *)
LEMMA HardwareWaits ==
  ASSUME AudioInv, [AudioNext]_vars, hw' # hw \/ pin' # pin, svc \in Starting
  PROVE  svc \in {"s_power_w", "s_reset_w"}
<1>1. CASE hw' # hw
  <2>1. pw \notin {"absent", "live"}
    BY <1>1, HoldModulesSteps DEF PwNext, PwStep, PwLoad, PwUnload, PwFindBanks, PwVotes, PwVote,
       PwDisableRails, PwOff, PwPutBanks, pwVars
  <2> QED BY <2>1 DEF AudioInv, ScriptInv, ModprobeWaits, Starting
<1>2. CASE pin' # pin
  <2>1. rs \notin {"absent", "live"}
    BY <1>2, HoldModulesSteps DEF RsNext, RsStep, RsLoad, RsUnload, RsCheck, RsDriveLow, RsMux,
       RsRelease, RsRestore, RsUnmap, rsVars
  <2> QED BY <2>1 DEF AudioInv, ScriptInv, ModprobeWaits, Starting
<1> QED BY <1>1, <1>2

(* While the ADSP stays up, a start never votes for a rail or touches the   *)
(* reset pin before every macro and SoundWire master is bound, for any      *)
(* number of them and whatever binds, suspends or is killed in between.     *)
THEOREM AudioPowerAfterConsumers ==
  ASSUME ~Crashes PROVE AudioSpec => PowerAfterConsumers
<1>1. AudioInit => ConsumersBound
  BY DEF AudioInit, ConsumersBound
<1>2. AudioInv /\ ConsumersBound /\ [AudioNext]_vars => ConsumersBound'
  BY ConsumersNext
<1>3. AudioInv /\ ConsumersBound /\ [AudioNext]_vars =>
        [(hw' # hw \/ pin' # pin) /\ svc \in Starting => bound = 1..NDev]_vars
  BY HardwareWaits DEF ConsumersBound
<1> QED BY <1>1, <1>2, <1>3, AudioSafe, PTL DEF AudioSpec, PowerAfterConsumers
==============================================================================
