---------------------------- MODULE AudioService -----------------------------
(****************************************************************************)
(* The ACPI audio service: the systemd units tcl-acpi-audio-prepare and     *)
(* tcl-acpi-audio-start, the three shell scripts they run, the kernel       *)
(* modules the scripts load and remove, and what the rest of the machine    *)
(* does meanwhile (ADSP, SoundWire enumeration and runtime PM, ALSA         *)
(* clients).  The rail votes and the reset pulse are the modules PowerHold  *)
(* and ResetHold, whose steps interleave with everything else while the     *)
(* script waits in modprobe.                                                *)
(*                                                                          *)
(* Every script runs under "set -e": a failing command ends it and the unit *)
(* is failed.  ExecStop runs only for a unit that became active.  A loop    *)
(* that polls once a second up to a limit may give up whenever its          *)
(* condition does not hold: the limits are not counted.                     *)
(****************************************************************************)
EXTENDS Naturals, PowerHold, ResetHold

CONSTANTS
  NDev,      \* the macros and SoundWire masters the script requires, in its order
  Buses,     \* those that are SoundWire masters, each with one codec slave
  Streams,   \* ALSA clients of the card
  Crashes    \* whether the ADSP may go down

ASSUME NDevAssumption == NDev \in Nat \ {0}
ASSUME BusesAssumption == Buses \subseteq 1..NDev
ASSUME CrashesAssumption == Crashes \in BOOLEAN

VARIABLES
  prep,       \* the prepare unit
  providers,  \* the four platform providers are bound
  svc,        \* the start unit: at rest, or the next command of its script
  dev,        \* index of the device the script looks at
  adsp,       \* the remoteproc is running
  apr,        \* APR q6adm, and with it the Q6AFE clock aliases, are registered
  lpi,        \* tcl_lpi_provider
  bound,      \* devices bound to their drivers
  status,     \* sysfs status of the slave on each bus
  awake,      \* buses that are not runtime-suspended
  fresh,      \* history: slaves enumerated since the codec left reset
  pm,         \* power/control of the two SoundWire masters
  loaded,     \* which of tcl_acpi_wcd and tcl_acpi_card are loaded
  card,       \* the ALSA card is registered
  pcm         \* state of each client

adspVars == <<adsp, apr, lpi, bound>>
swrVars == <<status, awake, fresh, pm>>
alsaVars == <<loaded, card, pcm>>
unitVars == <<prep, providers>>
svcVars == <<unitVars, svc, dev, adspVars, swrVars, alsaVars>>
vars == <<pwVars, rsVars, svcVars>>

Resting == {"inactive", "failed", "active"}
Starting == {"s_adsp", "s_apr", "s_lpi", "s_lpi_bound", "s_dev", "s_power", "s_power_w",
             "s_reset", "s_reset_w", "s_attach1", "s_attach", "s_wcd", "s_card",
             "s_check", "s_mixer"}
Stopping == {"t_pcm", "t_card", "t_wcd", "t_pm", "t_reset", "t_reset_w", "t_power",
             "t_power_w"}

Attached == \A b \in Buses : status[b] = "Attached"

AudioInit ==
  /\ PwInit /\ RsInit
  /\ prep = "no" /\ providers = FALSE
  /\ svc = "inactive" /\ dev = 1
  /\ adsp = FALSE /\ apr = FALSE /\ lpi = "absent" /\ bound = {}
  /\ status = [b \in Buses |-> "none"] /\ awake = {} /\ fresh = {} /\ pm = "auto"
  /\ loaded = {} /\ card = FALSE /\ pcm = [s \in Streams |-> "closed"]

------------------------------------------------------------------------------
(* The units. *)

(* tcl-acpi-audio-prepare: waits for the providers, loads the transport. *)
Prepare ==
  /\ prep # "done"
  /\ \/ providers /\ prep' = "done"
     \/ prep' = "failed"
  /\ UNCHANGED <<pwVars, rsVars, providers, svc, dev, adspVars, swrVars, alsaVars>>

(* systemctl start: Requires= and After= the prepare unit. *)
StartUnit ==
  /\ svc \in {"inactive", "failed"}
  /\ prep = "done"
  /\ svc' = "s_adsp"
  /\ UNCHANGED <<pwVars, rsVars, unitVars, dev, adspVars, swrVars, alsaVars>>

(* systemctl stop of an active unit; the alsactl store before it may fail. *)
StopUnit ==
  /\ svc = "active"
  /\ svc' = "t_pcm"
  /\ UNCHANGED <<pwVars, rsVars, unitVars, dev, adspVars, swrVars, alsaVars>>

(* The script is killed between two commands.  A modprobe in the kernel is  *)
(* not interruptible, and systemd waits for it.                             *)
Kill ==
  /\ svc \in Starting \cup Stopping
  /\ pw \in {"absent", "live"} /\ rs \in {"absent", "live"}
  /\ svc' = "failed"
  /\ UNCHANGED <<pwVars, rsVars, unitVars, dev, adspVars, swrVars, alsaVars>>

------------------------------------------------------------------------------
(* tcl-acpi-audio-start *)

(* A command that only decides where the script goes next. *)
Goto(at, next) ==
  /\ svc = at
  /\ svc' = next
  /\ UNCHANGED <<pwVars, rsVars, unitVars, dev, adspVars, swrVars, alsaVars>>

(* Find the adsp remoteproc and start it unless it runs; both may fail. *)
StartAdsp ==
  \/ Goto("s_adsp", "failed")
  \/ /\ svc = "s_adsp"
     /\ svc' = "s_apr"
     /\ adsp' = TRUE
     /\ UNCHANGED <<pwVars, rsVars, unitVars, dev, apr, lpi, bound, swrVars, alsaVars>>

WaitApr ==
  \/ apr /\ Goto("s_apr", "s_lpi")
  \/ ~apr /\ Goto("s_apr", "failed")

(* modprobe tcl_lpi_provider: its clocks exist only once APR is up. *)
LoadLpi ==
  \/ lpi # "absent" /\ Goto("s_lpi", "s_lpi_bound")
  \/ lpi = "absent" /\ Goto("s_lpi", "failed")
  \/ /\ svc = "s_lpi" /\ lpi = "absent" /\ apr
     /\ svc' = "s_lpi_bound"
     /\ lpi' = "loaded"
     /\ UNCHANGED <<pwVars, rsVars, unitVars, dev, adsp, apr, bound, swrVars, alsaVars>>

WaitLpi ==
  \/ lpi # "bound" /\ Goto("s_lpi_bound", "failed")
  \/ /\ svc = "s_lpi_bound" /\ lpi = "bound"
     /\ svc' = "s_dev"
     /\ dev' = 1
     /\ UNCHANGED <<pwVars, rsVars, unitVars, adspVars, swrVars, alsaVars>>

(* A device bound to its driver: a SoundWire master publishes its slave. *)
Bind(d) ==
  /\ bound' = bound \cup {d}
  /\ status' = [b \in Buses |-> IF b = d THEN "Unattached" ELSE status[b]]
  /\ awake' = awake \cup ({d} \cap Buses)

\* Mutant: a device that is still unbound after drivers_probe is passed over.
RequireDeviceLax ==
  \/ ~apr /\ Goto("s_dev", "failed")
  \/ /\ svc = "s_dev" /\ apr
     /\ \/ dev < NDev /\ svc' = "s_dev" /\ dev' = dev + 1
        \/ dev = NDev /\ svc' = "s_power" /\ dev' = dev
     /\ UNCHANGED <<pwVars, rsVars, unitVars, adspVars, swrVars, alsaVars>>

(* One turn of the loop over the devices: missing without APR; probed again *)
(* if unbound; required to be bound.                                        *)
RequireDevice ==
  \/ (~apr \/ dev \notin bound) /\ Goto("s_dev", "failed")
  \/ /\ svc = "s_dev" /\ apr
     /\ \/ dev < NDev /\ svc' = "s_dev" /\ dev' = dev + 1
        \/ dev = NDev /\ svc' = "s_power" /\ dev' = dev
     /\ IF dev \in bound THEN UNCHANGED <<bound, status, awake>> ELSE Bind(dev)
     /\ UNCHANGED <<pwVars, rsVars, unitVars, adsp, apr, lpi, fresh, pm, alsaVars>>

(* modprobe of a module that is loaded already does nothing and succeeds;   *)
(* otherwise the script waits for the module's init.                        *)
LoadPower ==
  \/ pw = "live" /\ Goto("s_power", "s_reset")
  \/ /\ svc = "s_power" /\ pw = "absent"
     /\ svc' = "s_power_w"
     /\ PwLoad
     /\ UNCHANGED <<rsVars, unitVars, dev, adspVars, swrVars, alsaVars>>

\* Mutant: the script goes on although modprobe of the rails failed.
WaitPowerLax ==
  \/ pw = "live" /\ Goto("s_power_w", "s_reset")
  \/ pw = "absent" /\ Goto("s_power_w", "s_reset")

WaitPower ==
  \/ pw = "live" /\ Goto("s_power_w", "s_reset")
  \/ pw = "absent" /\ Goto("s_power_w", "failed")

LoadReset ==
  \/ rs = "live" /\ Goto("s_reset", "s_attach1")
  \/ /\ svc = "s_reset" /\ rs = "absent"
     /\ svc' = "s_reset_w"
     /\ RsLoad
     /\ UNCHANGED <<pwVars, unitVars, dev, adspVars, swrVars, alsaVars>>

WaitReset ==
  \/ rs = "live" /\ Goto("s_reset_w", "s_attach1")
  \/ rs = "absent" /\ Goto("s_reset_w", "failed")

(* The first look at the two slaves: unless both read Attached, runtime PM  *)
(* is switched to auto and back on, which wakes the buses.                  *)
AttachFirst ==
  \/ Attached /\ Goto("s_attach1", "s_wcd")
  \/ ~Attached /\ ~apr /\ Goto("s_attach1", "failed")
  \/ /\ svc = "s_attach1" /\ ~Attached /\ apr
     /\ svc' = "s_attach"
     /\ pm' = "on"
     /\ awake' = Buses \cap bound
     /\ UNCHANGED <<pwVars, rsVars, unitVars, dev, adspVars, status, fresh, alsaVars>>

\* Mutant: the wait for the slaves has no limit.
WaitAttachForever == Attached /\ Goto("s_attach", "s_wcd")

WaitAttach ==
  \/ Attached /\ Goto("s_attach", "s_wcd")
  \/ ~Attached /\ Goto("s_attach", "failed")

(* modprobe tcl_acpi_wcd *)
LoadWcd ==
  \/ "wcd" \in loaded /\ Goto("s_wcd", "s_card")
  \/ "wcd" \notin loaded /\ Goto("s_wcd", "failed")
  \/ /\ svc = "s_wcd" /\ "wcd" \notin loaded
     /\ svc' = "s_card"
     /\ loaded' = loaded \cup {"wcd"}
     /\ UNCHANGED <<pwVars, rsVars, unitVars, dev, adspVars, swrVars, card, pcm>>

(* modprobe tcl_acpi_card: deferred without q6adm; its card device may stay *)
(* unbound, so the ALSA card may or may not be there when init returns.     *)
LoadCard ==
  \/ "card" \in loaded /\ Goto("s_card", "s_check")
  \/ "card" \notin loaded /\ Goto("s_card", "failed")
  \/ /\ svc = "s_card" /\ "card" \notin loaded /\ apr
     /\ svc' = "s_check"
     /\ loaded' = loaded \cup {"card"}
     /\ card' \in BOOLEAN
     /\ UNCHANGED <<pwVars, rsVars, unitVars, dev, adspVars, swrVars, pcm>>

CheckCard ==
  \/ card /\ Goto("s_check", "s_mixer")
  \/ ~card /\ Goto("s_check", "failed")

(* alsactl restore and the readback of every control *)
RestoreMixer ==
  \/ Goto("s_mixer", "failed")
  \/ card /\ Goto("s_mixer", "active")

------------------------------------------------------------------------------
(* tcl-acpi-audio-stop *)

Closed == \A s \in Streams : pcm[s] = "closed"

CheckPcm ==
  \/ (\E s \in Streams : pcm[s] = "running") /\ Goto("t_pcm", "failed")
  \/ (\A s \in Streams : pcm[s] # "running") /\ Goto("t_pcm", "t_card")

\* Mutant: the card is removed although a client still has it open.
RemoveCardForced ==
  /\ svc = "t_card"
  /\ svc' = "t_wcd"
  /\ loaded' = loaded \ {"card"}
  /\ card' = FALSE
  /\ UNCHANGED <<pwVars, rsVars, unitVars, dev, adspVars, swrVars, pcm>>

\* Mutant: the removal of the card takes the codec aggregate with it.
RemoveCardRecursive ==
  \/ "card" \in loaded /\ ~Closed /\ Goto("t_card", "failed")
  \/ /\ svc = "t_card"
     /\ "card" \notin loaded \/ Closed
     /\ svc' = "t_wcd"
     /\ loaded' = {}
     /\ card' = FALSE
     /\ UNCHANGED <<pwVars, rsVars, unitVars, dev, adspVars, swrVars, pcm>>

(* modprobe -r tcl_acpi_card: a client pins the module, so it fails. *)
RemoveCard ==
  \/ "card" \in loaded /\ ~Closed /\ Goto("t_card", "failed")
  \/ /\ svc = "t_card"
     /\ "card" \notin loaded \/ Closed
     /\ svc' = "t_wcd"
     /\ loaded' = loaded \ {"card"}
     /\ card' = FALSE
     /\ UNCHANGED <<pwVars, rsVars, unitVars, dev, adspVars, swrVars, pcm>>

RemoveWcd ==
  /\ svc = "t_wcd"
  /\ svc' = "t_pm"
  /\ loaded' = loaded \ {"wcd"}
  /\ UNCHANGED <<pwVars, rsVars, unitVars, dev, adspVars, swrVars, card, pcm>>

\* Mutant: power/control is left as the start script set it.
RuntimePmKept == Goto("t_pm", "t_reset")

(* power/control back to auto, where the masters exist; the write fails if  *)
(* one goes away after the test.                                            *)
RuntimePmAuto ==
  \/ ~apr /\ Goto("t_pm", "failed")
  \/ /\ svc = "t_pm"
     /\ svc' = "t_reset"
     /\ pm' = "auto"
     /\ UNCHANGED <<pwVars, rsVars, unitVars, dev, adspVars, status, awake, fresh, alsaVars>>

\* Mutant: the votes are released before the codec is back in reset.
RemoveResetSkipped == Goto("t_reset", "t_power")

(* modprobe -r tcl_acpi_codec_reset_hold: the codec goes back into reset.   *)
(* The unit was active, so this module and the next are loaded.             *)
RemoveReset ==
  /\ svc = "t_reset" /\ rs = "live"
  /\ svc' = "t_reset_w"
  /\ RsUnload
  /\ fresh' = {}
  /\ UNCHANGED <<pwVars, unitVars, dev, adspVars, status, awake, pm, alsaVars>>

WaitResetRemoved == rs = "absent" /\ Goto("t_reset_w", "t_power")

(* modprobe -r tcl_acpi_audio_power_hold *)
RemovePower ==
  /\ svc = "t_power" /\ pw = "live"
  /\ svc' = "t_power_w"
  /\ PwUnload
  /\ UNCHANGED <<rsVars, unitVars, dev, adspVars, swrVars, alsaVars>>

WaitPowerRemoved == pw = "absent" /\ Goto("t_power_w", "inactive")

------------------------------------------------------------------------------
(* What runs beside the scripts. *)

(* init and exit of the two hold modules, while modprobe waits for them *)
ModuleStep ==
  \/ PwStep /\ UNCHANGED <<rsVars, svcVars>>
  \/ RsStep /\ UNCHANGED <<pwVars, svcVars>>

ProvidersBind ==
  /\ ~providers
  /\ providers' = TRUE
  /\ UNCHANGED <<pwVars, rsVars, prep, svc, dev, adspVars, swrVars, alsaVars>>

(* The DSP registers its APR services some time after it was started. *)
AprUp ==
  /\ adsp /\ ~apr
  /\ apr' = TRUE
  /\ UNCHANGED <<pwVars, rsVars, unitVars, svc, dev, adsp, lpi, bound, swrVars, alsaVars>>

LpiBinds ==
  /\ lpi = "loaded"
  /\ lpi' = "bound"
  /\ UNCHANGED <<pwVars, rsVars, unitVars, svc, dev, adsp, apr, bound, swrVars, alsaVars>>

(* The first probe of an LPASS child, or a deferred one. *)
DeviceBinds(d) ==
  /\ apr /\ d \notin bound
  /\ Bind(d)
  /\ UNCHANGED <<pwVars, rsVars, unitVars, svc, dev, adsp, apr, lpi, fresh, pm, alsaVars>>

(* The ADSP goes down: its APR services, their children and the card go. *)
AdspDown ==
  /\ Crashes /\ adsp
  /\ adsp' = FALSE /\ apr' = FALSE /\ bound' = {}
  /\ status' = [b \in Buses |-> "none"] /\ awake' = {} /\ fresh' = {} /\ pm' = "auto"
  /\ card' = FALSE
  /\ pcm' = [s \in Streams |-> IF pcm[s] = "running" THEN "open" ELSE pcm[s]]
  /\ UNCHANGED <<pwVars, rsVars, unitVars, svc, dev, lpi, loaded>>

(* An awake bus enumerates a codec that is powered and out of reset ... *)
SlaveAttaches(b) ==
  /\ b \in awake /\ status[b] # "none"
  /\ Released /\ \A r \in Rails : RailOn(r)
  /\ b \notin fresh \/ status[b] # "Attached"
  /\ status' = [status EXCEPT ![b] = "Attached"]
  /\ fresh' = fresh \cup {b}
  /\ UNCHANGED <<pwVars, rsVars, unitVars, svc, dev, adspVars, awake, pm, alsaVars>>

(* ... and notices that one is gone.  A suspended bus notices neither. *)
SlaveDrops(b) ==
  /\ b \in awake /\ status[b] = "Attached" /\ ~Released
  /\ status' = [status EXCEPT ![b] = "Unattached"]
  /\ UNCHANGED <<pwVars, rsVars, unitVars, svc, dev, adspVars, awake, fresh, pm, alsaVars>>

BusSuspends(b) ==
  /\ b \in awake /\ pm = "auto"
  /\ awake' = awake \ {b}
  /\ UNCHANGED <<pwVars, rsVars, unitVars, svc, dev, adspVars, status, fresh, pm, alsaVars>>

(* The codec driver resumes the bus it sits on. *)
BusWakes(b) ==
  /\ b \in bound /\ b \notin awake /\ "wcd" \in loaded
  /\ awake' = awake \cup {b}
  /\ UNCHANGED <<pwVars, rsVars, unitVars, svc, dev, adspVars, status, fresh, pm, alsaVars>>

(* A deferred probe of the card device succeeds. *)
CardProbes ==
  /\ "card" \in loaded /\ ~card /\ apr
  /\ card' = TRUE
  /\ UNCHANGED <<pwVars, rsVars, unitVars, svc, dev, adspVars, swrVars, loaded, pcm>>

(* An ALSA client opens, starts, stops and closes its PCM. *)
Client(s, from, to) ==
  /\ pcm[s] = from
  /\ pcm' = [pcm EXCEPT ![s] = to]
  /\ UNCHANGED <<pwVars, rsVars, unitVars, svc, dev, adspVars, swrVars, loaded, card>>

ClientStep(s) ==
  \/ card /\ Client(s, "closed", "open")
  \/ card /\ Client(s, "open", "running")
  \/ Client(s, "running", "open")
  \/ Client(s, "open", "closed")

Environment ==
  \/ ProvidersBind \/ AprUp \/ LpiBinds \/ AdspDown \/ CardProbes
  \/ \E d \in 1..NDev : DeviceBinds(d)
  \/ \E b \in Buses : SlaveAttaches(b) \/ SlaveDrops(b) \/ BusSuspends(b) \/ BusWakes(b)
  \/ \E s \in Streams : ClientStep(s)

StartScript ==
  \/ StartAdsp \/ WaitApr \/ LoadLpi \/ WaitLpi \/ RequireDevice
  \/ LoadPower \/ WaitPower \/ LoadReset \/ WaitReset \/ AttachFirst \/ WaitAttach
  \/ LoadWcd \/ LoadCard \/ CheckCard \/ RestoreMixer

StopScript ==
  \/ CheckPcm \/ RemoveCard \/ RemoveWcd \/ RuntimePmAuto
  \/ RemoveReset \/ WaitResetRemoved \/ RemovePower \/ WaitPowerRemoved

AudioNext ==
  \/ Prepare \/ StartUnit \/ StopUnit \/ Kill
  \/ StartScript \/ StopScript \/ ModuleStep \/ Environment

(* A script runs on until it ends, and so does a module's init or exit;     *)
(* nothing is assumed of systemctl, the DSP, the buses or the clients.      *)
AudioSpec ==
  /\ AudioInit /\ [][AudioNext]_vars
  /\ WF_vars(StartScript) /\ WF_vars(StopScript) /\ WF_vars(ModuleStep)

------------------------------------------------------------------------------
(* Type correctness of the units, the scripts and the machine around them. *)
AudioTypeOK ==
  /\ prep \in {"no", "failed", "done"} /\ providers \in BOOLEAN
  /\ svc \in Resting \cup Starting \cup Stopping
  /\ dev \in 1..NDev
  /\ adsp \in BOOLEAN /\ apr \in BOOLEAN
  /\ lpi \in {"absent", "loaded", "bound"}
  /\ bound \subseteq 1..NDev
  /\ status \in [Buses -> {"none", "Unattached", "Attached"}]
  /\ awake \subseteq Buses /\ fresh \subseteq Buses
  /\ pm \in {"auto", "on"}
  /\ loaded \subseteq {"wcd", "card"}
  /\ card \in BOOLEAN
  /\ pcm \in [Streams -> {"closed", "open", "running"}]

(* Which module may be in its init or exit, by the command that waits for it. *)
ModprobeWaits ==
  /\ pw \notin {"absent", "live"} => svc \in {"s_power_w", "t_power_w"}
  /\ rs \notin {"absent", "live"} => svc \in {"s_reset_w", "t_reset_w"}
  /\ svc = "t_power_w" => pw \notin {"find", "live"} \cup PwVoting
  /\ svc = "t_reset_w" => rs \in {"restore", "unmap", "absent"}

(* The modules are always loaded in the order of the ladder, whatever part  *)
(* of an earlier start or stop was carried out.                             *)
ModulesInOrder ==
  /\ rs # "absent" => pw = "live"
  /\ "wcd" \in loaded => rs = "live"
  /\ "card" \in loaded => "wcd" \in loaded
  /\ card => "card" \in loaded
  /\ \A s \in Streams : pcm[s] # "closed" => "card" \in loaded

(* What each command of the scripts may rely on. *)
ScriptProgress ==
  /\ svc \in {"s_reset", "s_reset_w"} => pw = "live"
  /\ svc \in {"s_attach1", "s_attach", "s_wcd"} => rs = "live"
  /\ svc = "s_card" => "wcd" \in loaded
  /\ svc \in {"s_check", "s_mixer", "active"} => "card" \in loaded
  /\ svc = "t_wcd" => "card" \notin loaded
  /\ svc \in {"t_pm", "t_reset", "t_reset_w", "t_power", "t_power_w"} => loaded = {}
  /\ svc \in {"t_reset", "t_reset_w", "t_power", "t_power_w"} => pm = "auto"
  /\ svc \in {"t_power", "t_power_w"} => rs = "absent"

ScriptInv == AudioTypeOK /\ ModprobeWaits /\ ModulesInOrder /\ ScriptProgress

(* The inductive invariant of the composition: that of each hold module, and *)
(* what ties them to the scripts.                                            *)
AudioInv == PwInv /\ RsInv /\ ScriptInv

(* The codec is out of reset only while both its rails are on at their OEM  *)
(* voltage and mode: through failed votes, refused pulses, killed scripts,  *)
(* restarts, and the ADSP going down at any point.                          *)
ReleasedOnlyPowered == Released => \A r \in Rails : RailOn(r)

(* A client that holds the card open has a powered codec out of reset under *)
(* it, even one that opened or started between the PCM check of the stop    *)
(* script and the removal of the card ("keeping codec power votes active"). *)
StreamsPowered ==
  \A s \in Streams : pcm[s] # "closed" =>
     /\ Released
     /\ \A r \in Rails : RailOn(r)
     /\ loaded = {"wcd", "card"}

(* A stop script that succeeds has put back everything: no module, no open  *)
(* client, pin restored, runtime PM automatic, and a rail still on only if  *)
(* one of its own votes failed.                                             *)
CleanStop ==
  [][(svc \in Stopping /\ svc' = "inactive") =>
       /\ pw' = "absent" /\ rs' = "absent" /\ loaded' = {} /\ pm' = "auto"
       /\ \A s \in Streams : pcm'[s] = "closed"
       /\ pin' # "output"
       /\ \A r \in Rails : <<r, "en">> \in hw' => r \in doubt']_vars

(* "Require every macro and SoundWire master to be attached before touching *)
(* codec power or reset": no vote goes out and the pin is not touched until *)
(* all devices are bound.  It holds as long as the ADSP stays up.           *)
PowerAfterConsumers ==
  [][(hw' # hw \/ pin' # pin) /\ svc \in Starting => bound = 1..NDev]_vars

(* Every start and every stop ends, with the unit active, inactive or       *)
(* failed: each wait of the scripts is bounded and so is each vote.         *)
ScriptsEnd == svc \in Starting \cup Stopping ~> svc \in Resting

(* The ladder the modules climb. *)
Rung ==
  IF "card" \in loaded THEN 4
  ELSE IF "wcd" \in loaded THEN 3
  ELSE IF rs = "live" THEN 2
  ELSE IF pw = "live" THEN 1
  ELSE 0

OpenStreams == {s \in Streams : pcm[s] # "closed"}

Ladder == INSTANCE AudioLadder WITH level <- Rung, users <- OpenStreams

(* The scripts and modules implement the ladder: every step of every actor  *)
(* climbs or descends one rung, lets a client in at the top or out, or is   *)
(* invisible; nothing is taken away under an open client.                   *)
ImplementsLadder == Ladder!LadderSpec

------------------------------------------------------------------------------
(* Statements of the repository that the code does not keep. *)

(* "Hold the two OEM AUDD audio rails for the service lifetime": the rails  *)
(* are voted on by the module only while the unit starts, runs or stops.    *)
RailsForServiceLifetime == pw = "live" => svc \notin {"inactive", "failed"}

(* "Register the WCD aggregate and playback card only after both slaves     *)
(* attach": when the aggregate is registered both slaves have enumerated    *)
(* since the codec left reset.                                              *)
WcdAfterAttach ==
  [][loaded' # loaded /\ "wcd" \in loaded' \ loaded => fresh = Buses]_vars

\* The codec has power whenever it is out of reset or in use.
CodecPowered ==
    /\ ReleasedOnlyPowered /\ StreamsPowered
==============================================================================
