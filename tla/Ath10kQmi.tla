----------------------------- MODULE Ath10kQmi ------------------------------
(***************************************************************************)
(* The Wi-Fi driver and the firmware service on the modem                  *)
(* (tcl-ath10k-qmi.c with the probe, removal, notifier and indications of  *)
(* tcl-ath10k-snoc.c).  QMI callbacks put events on a list; one worker     *)
(* takes them, talks to whichever server the socket is connected to by     *)
(* then, and gives the MSA memory to the firmware and takes it back.       *)
(*                                                                         *)
(* Servers are numbered in the order they appear.  The modem, the firmware *)
(* and the QMI library are external.  `windows` records which of the windows *)
(* of the code a behaviour has gone through; it is not state of the code.  *)
(***************************************************************************)
EXTENDS Naturals, Sequences

CONSTANT EpisodeMax  \* bound: appearances of the server and probes of the driver together

ASSUME WifiAssumption == EpisodeMax \in Nat

VARIABLES
    snoc,            \* where probe or removal of the driver is
    lives,          \* probes so far
    fw,             \* the server: [gen, live, stage]
    orderly,        \* the servers that went away by a stop of the modem
    told,           \* the server the QMI handle has announced, 0 for none
    events,         \* qmi->event_list, each event with its server
    wk,             \* the worker: [pc, gen, ready], ready being the response
    fwReady,        \* qmi->fw_ready
    msa,            \* the MSA memory belongs to the firmware
    flags,          \* ATH10K_SNOC_FLAG_*: subset of WifiFlags
    wlan,           \* the mac80211 device: "out" or "up"
    windows

aroundWorker == <<snoc, lives, fw, orderly, told, events, fwReady, msa, flags, wlan, windows>>
wifiVars == <<wk, aroundWorker>>

WifiFlags == {"registered", "unregistering", "modem_stopped"}
NoWork == [pc |-> "idle", gen |-> 0, ready |-> FALSE]

\* "lookup": qmi_add_lookup was called; "init_done": qmi->state is INIT_DONE;
\* "up": the modem's notifier is registered too.
HandleOpen == snoc \in {"lookup", "init_done", "up", "unregister", "deinit", "release"}
InitDone == snoc \in {"init_done", "up", "unregister", "deinit"}

WifiInit ==
    /\ snoc = "out" /\ lives = 0
    /\ fw = [gen |-> 0, live |-> FALSE, stage |-> "fresh"]
    /\ orderly = {} /\ told = 0 /\ events = <<>> /\ wk = NoWork
    /\ fwReady = FALSE /\ msa = FALSE /\ flags = {} /\ wlan = "out" /\ windows = {}

Post(type, gen) == events' = Append(events, <<type, gen>>)

-----------------------------------------------------------------------------
(* The modem and the QMI library.                                          *)

\* The modem boots (QCOM_SSR_BEFORE_POWERUP) and its firmware opens the service.
ServerAppears ==
    /\ ~fw.live /\ fw.gen + lives < EpisodeMax
    /\ fw' = [gen |-> fw.gen + 1, live |-> TRUE, stage |-> "fresh"]
    /\ flags' = IF snoc \in {"up", "unregister"} THEN flags \ {"modem_stopped"} ELSE flags
    /\ windows' = IF flags' # flags THEN windows \cup {"restarted"} ELSE windows
    /\ UNCHANGED <<snoc, lives, orderly, told, events, wk, fwReady, msa, wlan>>

\* Mutant: the notifier takes every shutdown for a crash.
ModemShutdownUnseen(crashed) ==
    /\ fw.live
    /\ fw' = [fw EXCEPT !.live = FALSE, !.stage = "fresh"]
    /\ orderly' = IF crashed \/ snoc # "up" THEN orderly ELSE orderly \cup {fw.gen}
    /\ UNCHANGED <<snoc, lives, told, events, wk, fwReady, msa, flags, wlan, windows>>

\* The modem stops or crashes (QCOM_SSR_BEFORE_SHUTDOWN), with its firmware.
ModemShutdown(crashed) ==
    /\ fw.live
    /\ fw' = [fw EXCEPT !.live = FALSE, !.stage = "fresh"]
    /\ orderly' = IF crashed \/ snoc # "up" THEN orderly ELSE orderly \cup {fw.gen}
    /\ flags' = IF snoc \notin {"up", "unregister"} THEN flags
                ELSE IF crashed THEN flags \ {"modem_stopped"}
                ELSE flags \cup {"modem_stopped"}
    /\ UNCHANGED <<snoc, lives, told, events, wk, fwReady, msa, wlan, windows>>

\* ath10k_qmi_new_server: the socket is connected and the arrival posted.
NewServer ==
    /\ HandleOpen /\ fw.live /\ told = 0
    /\ told' = fw.gen
    /\ Post("arrive", fw.gen)
    /\ UNCHANGED <<snoc, lives, fw, orderly, wk, fwReady, msa, flags, wlan, windows>>

\* Mutant: fw_ready outlives the server it was read from.
DelServerKeeps ==
    /\ HandleOpen /\ told # 0 /\ (~fw.live \/ fw.gen # told)
    /\ told' = 0
    /\ IF InitDone THEN Post("exit", told) ELSE UNCHANGED events
    /\ windows' = windows \cup (IF InitDone THEN {} ELSE {"dropped"})
                      \cup (IF wk.ready THEN {"ready"} ELSE {})
    /\ UNCHANGED <<snoc, lives, fw, orderly, wk, fwReady, msa, flags, wlan>>

\* ath10k_qmi_del_server.  An exit before qmi->state is set is dropped; an
\* indication response the worker has not acted on yet is now out of date.
DelServer ==
    /\ HandleOpen /\ told # 0 /\ (~fw.live \/ fw.gen # told)
    /\ told' = 0
    /\ fwReady' = FALSE
    /\ IF InitDone THEN Post("exit", told) ELSE UNCHANGED events
    /\ windows' = windows \cup (IF InitDone THEN {} ELSE {"dropped"})
                      \cup (IF wk.ready THEN {"ready"} ELSE {})
    /\ UNCHANGED <<snoc, lives, fw, orderly, wk, msa, flags, wlan>>

\* The firmware has taken the MSA memory, and later the board data, and says so.
Indication(from, to, type) ==
    /\ fw.live /\ fw.stage = from
    /\ fw' = [fw EXCEPT !.stage = to]
    /\ IF HandleOpen /\ told = fw.gen THEN Post(type, fw.gen) ELSE UNCHANGED events
    /\ UNCHANGED <<snoc, lives, orderly, told, wk, fwReady, msa, flags, wlan, windows>>

-----------------------------------------------------------------------------
(* The worker.  A request is answered only by a live server.               *)

First(type) == CASE type = "arrive" -> "ind_register"
                 [] type = "exit" -> "unmap"
                 [] type = "fw_ready" -> "indicate"
                 [] type = "msa_ready" -> "board_data"

\* ath10k_qmi_driver_event_work takes the next event.
TakeEvent ==
    /\ wk.pc = "idle" /\ events # <<>> /\ snoc # "out"
    /\ wk' = [pc |-> First(Head(events)[1]), gen |-> Head(events)[2], ready |-> FALSE]
    /\ events' = Tail(events)
    /\ UNCHANGED <<snoc, lives, fw, orderly, told, fwReady, msa, flags, wlan, windows>>

\* A request fails or times out where nothing has to be undone.
RequestFails ==
    /\ wk.pc \in {"ind_register", "msa_info", "map", "board_data"}
    /\ wk' = NoWork
    /\ UNCHANGED aroundWorker

\* A request the worker makes on one server's behalf may reach the next one.
Crossed == IF wk.gen # fw.gen THEN {"crossed"} ELSE {}

\* ath10k_qmi_ind_register_send_sync_msg gets its response.
IndRegister ==
    /\ wk.pc = "ind_register" /\ fw.live
    /\ wk' = [wk EXCEPT !.pc = "fw_status", !.ready = (fw.stage = "ready")]
    /\ UNCHANGED aroundWorker

\* fw_ready is set from the response, which may be out of date, and read.
FwStatus ==
    /\ wk.pc = "fw_status"
    /\ fwReady' = (fwReady \/ wk.ready)
    /\ wk' = IF fwReady' THEN [wk EXCEPT !.pc = "skip"]
             ELSE [wk EXCEPT !.pc = "msa_info", !.ready = FALSE]
    /\ UNCHANGED <<snoc, lives, fw, orderly, told, events, msa, flags, wlan, windows>>

\* The bring-up is skipped: ath10k_snoc_fw_indication is called at once.
Skip ==
    /\ wk.pc = "skip"
    /\ wk' = [wk EXCEPT !.pc = "indicate", !.ready = FALSE]
    /\ UNCHANGED aroundWorker

\* Host capabilities and ath10k_qmi_msa_mem_info_send_sync_msg.
MsaInfo ==
    /\ wk.pc = "msa_info" /\ fw.live
    /\ wk' = [wk EXCEPT !.pc = "map"]
    /\ UNCHANGED aroundWorker

\* Mutant: the regions are given away after the firmware is told to use them.
MapNothing ==
    /\ wk.pc = "map"
    /\ wk' = [wk EXCEPT !.pc = "msa_ready"]
    /\ UNCHANGED aroundWorker

\* ath10k_qmi_setup_msa_permissions: only memory the host owns can be given.
Map ==
    /\ wk.pc = "map" /\ ~msa
    /\ msa' = TRUE
    /\ wk' = [wk EXCEPT !.pc = "msa_ready"]
    /\ UNCHANGED <<snoc, lives, fw, orderly, told, events, fwReady, flags, wlan, windows>>

\* ath10k_qmi_msa_ready_send_sync_msg: a request the firmware rejects counts as
\* accepted.
MsaReady(accepted) ==
    /\ wk.pc = "msa_ready" /\ fw.live
    /\ fw' = IF accepted THEN [fw EXCEPT !.stage = "msa"] ELSE fw
    /\ windows' = windows \cup Crossed
    /\ wk' = [wk EXCEPT !.pc = "capabilities"]
    /\ UNCHANGED <<snoc, lives, orderly, told, events, fwReady, msa, flags, wlan>>

Capabilities ==
    /\ wk.pc = "capabilities" /\ fw.live
    /\ wk' = NoWork
    /\ windows' = windows \cup Crossed
    /\ UNCHANGED <<snoc, lives, fw, orderly, told, events, fwReady, msa, flags, wlan>>

\* err_setup_msa.  A live server that was already told about the memory and only
\* fails to answer the next request loses it.
SetupFails ==
    /\ wk.pc \in {"msa_ready", "capabilities"}
    /\ msa' = FALSE
    /\ wk' = NoWork
    /\ windows' = IF fw.live /\ fw.stage # "fresh" THEN windows \cup {"taken_back"} ELSE windows
    /\ UNCHANGED <<snoc, lives, fw, orderly, told, events, fwReady, flags, wlan>>

\* ath10k_qmi_event_msa_ready: board data and calibration report.
BoardData ==
    /\ wk.pc = "board_data" /\ fw.live
    /\ fw' = IF fw.stage = "announced" THEN [fw EXCEPT !.stage = "board"] ELSE fw
    /\ wk' = NoWork
    /\ UNCHANGED <<snoc, lives, orderly, told, events, fwReady, msa, flags, wlan, windows>>

\* Mutant: only the error label takes the permissions back.
UnmapNothing ==
    /\ wk.pc = "unmap"
    /\ wk' = [wk EXCEPT !.pc = "dump"]
    /\ UNCHANGED aroundWorker

\* ath10k_qmi_event_server_exit: permissions first.
Unmap ==
    /\ wk.pc = "unmap"
    /\ msa' = FALSE
    /\ wk' = [wk EXCEPT !.pc = "dump"]
    /\ UNCHANGED <<snoc, lives, fw, orderly, told, events, fwReady, flags, wlan, windows>>

Dumps == flags \cap {"unregistering", "modem_stopped"} = {}

\* A crash is dumped and the core told that the firmware is down.
ServerExit ==
    /\ wk.pc = "dump"
    /\ wk' = NoWork
    /\ UNCHANGED aroundWorker

\* Mutant: the indication does not ask whether the driver is going away.
IndicateBlind ==
    /\ wk.pc = "indicate"
    /\ wk' = [wk EXCEPT !.pc = "register"]
    /\ UNCHANGED aroundWorker

\* ath10k_snoc_fw_indication tests the flag ...
Indicate ==
    /\ wk.pc = "indicate"
    /\ wk' = IF "unregistering" \in flags THEN NoWork ELSE [wk EXCEPT !.pc = "register"]
    /\ UNCHANGED aroundWorker

\* ... and registers the core, or restarts it, or fails to.
Register(ok) ==
    /\ wk.pc = "register"
    /\ wk' = NoWork
    /\ IF "registered" \in flags \/ ~ok THEN UNCHANGED <<flags, wlan>>
       ELSE flags' = flags \cup {"registered"} /\ wlan' = "up"
    /\ UNCHANGED <<snoc, lives, fw, orderly, told, events, fwReady, msa, windows>>

-----------------------------------------------------------------------------
(* Probe and removal.                                                      *)

\* ath10k_snoc_probe up to qmi_add_lookup in ath10k_qmi_init.
WifiProbe ==
    /\ snoc = "out" /\ fw.gen + lives < EpisodeMax
    /\ snoc' = "lookup" /\ lives' = lives + 1
    /\ UNCHANGED <<fw, orderly, told, events, wk, fwReady, msa, flags, wlan, windows>>

\* qmi->state = INIT_DONE, then ath10k_modem_init.
WifiProbeStep ==
    /\ \/ snoc = "lookup" /\ snoc' = "init_done"
       \/ snoc = "init_done" /\ snoc' = "up"
    /\ UNCHANGED <<lives, fw, orderly, told, events, wk, fwReady, msa, flags, wlan, windows>>

\* ath10k_modem_init fails: the error path does not unregister the core.
ModemInitFails ==
    /\ snoc = "init_done"
    /\ snoc' = "deinit"
    /\ windows' = windows \cup {"probe_failed"}
    /\ UNCHANGED <<lives, fw, orderly, told, events, wk, fwReady, msa, flags, wlan>>

\* ath10k_snoc_free_resources sets the flag.  An indication that has passed its
\* test goes on.
FreeResources ==
    /\ snoc = "up"
    /\ snoc' = "unregister"
    /\ flags' = flags \cup {"unregistering"}
    /\ windows' = IF wk.pc = "register" THEN windows \cup {"late"} ELSE windows
    /\ UNCHANGED <<lives, fw, orderly, told, events, wk, fwReady, msa, wlan>>

\* ath10k_core_unregister ... ath10k_modem_deinit.
CoreUnregister ==
    /\ snoc = "unregister"
    /\ snoc' = "deinit" /\ wlan' = "out"
    /\ UNCHANGED <<lives, fw, orderly, told, events, wk, fwReady, msa, flags, windows>>

\* ath10k_qmi_deinit: the state, then the handle, whose release reports every
\* server as gone to a driver that does not listen any more ...
QmiDeinit ==
    /\ \/ snoc = "deinit" /\ snoc' = "release" /\ UNCHANGED <<told, fwReady>>
       \/ snoc = "release" /\ snoc' = "cancel" /\ told' = 0 /\ fwReady' = FALSE
    /\ UNCHANGED <<lives, fw, orderly, events, wk, msa, flags, wlan, windows>>

\* ... then the work: one that runs is waited for, one that is queued is dropped
\* with its events.  The MSA memory is not asked back.
CancelWork ==
    /\ snoc = "cancel" /\ wk = NoWork
    /\ snoc' = "out" /\ events' = <<>> /\ flags' = {} /\ fwReady' = FALSE
    /\ windows' = IF msa THEN windows \cup {"left"} ELSE windows
    /\ UNCHANGED <<lives, fw, orderly, told, wk, msa, wlan>>

WifiNext ==
    \/ ServerAppears \/ NewServer \/ DelServer
    \/ \E b \in BOOLEAN : ModemShutdown(b) \/ MsaReady(b) \/ Register(b)
    \/ Indication("msa", "announced", "msa_ready") \/ Indication("board", "ready", "fw_ready")
    \/ TakeEvent \/ RequestFails \/ IndRegister \/ FwStatus \/ Skip \/ MsaInfo \/ Map
    \/ Capabilities \/ SetupFails \/ BoardData \/ Unmap \/ ServerExit \/ Indicate
    \/ WifiProbe \/ WifiProbeStep \/ ModemInitFails \/ FreeResources \/ CoreUnregister
    \/ QmiDeinit \/ CancelWork

WifiSpec == WifiInit /\ [][WifiNext]_wifiVars

-----------------------------------------------------------------------------
\* A driver that is up and has handled every event knows no server and leaves no
\* memory with the firmware, unless the exit came before it listened or a former
\* life of the driver left the memory behind.
MsaComesBack ==
    snoc = "up" /\ wk = NoWork /\ events = <<>> /\ told = 0 /\ msa
        => windows \cap {"dropped", "left"} # {}

\* Firmware that has been told to use the MSA memory keeps it while it runs,
\* unless the requests that told it were made for its predecessor, or a later
\* request of the same bring-up failed.
FirmwareHasMsa ==
    fw.live /\ fw.stage # "fresh" => msa \/ windows \cap {"crossed", "taken_back"} # {}

\* The bring-up of a server is skipped only when its own response says that it is
\* ready, unless the server of the response went away before it was acted on, or a
\* bring-up has reached a later server than the one it was made for.
SkipOnlyIfReady == wk.pc = "skip" => wk.ready \/ windows \cap {"ready", "crossed"} # {}

\* An orderly stop of the modem is never dumped as a crash, unless the modem was
\* started again before the worker came to it.
DumpMeansCrash ==
    wk.pc = "dump" /\ Dumps => wk.gen \notin orderly \/ "restarted" \in windows

\* No mac80211 device outlives its driver, unless an indication had passed its
\* test when the removal began, or the probe failed at its last step.
CoreGone == snoc = "out" => wlan = "out" \/ windows \cap {"late", "probe_failed"} # {}

\* ------------------------------------------------ the inductive invariant
EventTypes == {"arrive", "exit", "fw_ready", "msa_ready"}
Stages == {"fresh", "msa", "announced", "board", "ready"}
WorkerSteps ==
    {"idle", "ind_register", "fw_status", "skip", "msa_info", "map", "msa_ready", "capabilities",
     "board_data", "unmap", "dump", "indicate", "register"}

WifiTypeOK ==
    /\ snoc \in {"out", "lookup", "init_done", "up", "unregister", "deinit", "release", "cancel"}
    /\ lives \in Nat /\ told \in Nat /\ orderly \subseteq Nat
    /\ fw \in [gen : Nat, live : BOOLEAN, stage : Stages]
    /\ events \in Seq(EventTypes \X Nat)
    /\ wk \in [pc : WorkerSteps, gen : Nat, ready : BOOLEAN]
    /\ fwReady \in BOOLEAN /\ msa \in BOOLEAN
    /\ flags \subseteq WifiFlags /\ wlan \in {"out", "up"}
    /\ windows \subseteq {"restarted", "ready", "dropped", "crossed", "taken_back", "left", "late",
                          "probe_failed"}

Clear(excuses) == windows \cap excuses = {}
Places == 1 .. Len(events)
TypeAt(i) == events[i][1]
GenAt(i) == events[i][2]

\* The worker brings up a server that arrived.
Arriving ==
    wk.pc \in {"ind_register", "fw_status", "skip", "msa_info", "map", "msa_ready", "capabilities"}

\* A driver that is out has nothing under way, and no handle means no server.
OutIsEmpty ==
    /\ snoc = "out" => events = <<>> /\ wk = NoWork /\ flags = {} /\ ~fwReady
    /\ snoc \in {"out", "cancel"} => told = 0
    /\ wk.pc = "idle" => wk = NoWork

\* Events are worked on in the order of their servers, none is ahead of the server the
\* handle has announced, and an exit is that of a server that is gone.
GensInOrder ==
    /\ told <= fw.gen /\ wk.gen <= fw.gen /\ (told # 0 => wk.gen <= told)
    /\ \A i \in Places :
         GenAt(i) <= fw.gen /\ wk.gen <= GenAt(i) /\ (told # 0 => GenAt(i) <= told)
    /\ \A i, j \in Places : i < j => GenAt(i) <= GenAt(j)
    /\ \A i \in Places : TypeAt(i) = "exit" /\ GenAt(i) = fw.gen => ~fw.live
    /\ wk.pc = "unmap" /\ wk.gen = fw.gen => ~fw.live
    /\ fw.live => fw.gen # 0

\* A server arrives once in a life of the driver.
ArrivesOnce ==
    /\ \A i, j \in Places :
         i < j /\ TypeAt(i) = "arrive" /\ TypeAt(j) = "arrive" => GenAt(i) < GenAt(j)
    /\ Arriving => \A i \in Places : TypeAt(i) = "arrive" => wk.gen < GenAt(i)
    /\ told = 0 /\ snoc # "cancel" /\ fw.live =>
         /\ \A i \in Places : TypeAt(i) = "arrive" => GenAt(i) # fw.gen
         /\ Arriving => wk.gen # fw.gen

\* Firmware past its start has the worker and the list to itself, unless it was brought
\* up in the name of its predecessor.
StageInStep ==
    /\ fw.stage # "fresh" => fw.live
    /\ fw.stage # "fresh" /\ Clear({"crossed"}) =>
         /\ told \in {0, fw.gen}
         /\ \A i \in Places : GenAt(i) = fw.gen /\ TypeAt(i) # "exit"
         /\ wk.pc # "idle" => wk.gen = fw.gen
         /\ wk.pc # "unmap"

\* A response that says "ready", and the flag set from it, hold until the server goes:
\* nothing that arrives finds them set.
SkipInStep ==
    /\ wk.ready => wk.pc \in {"fw_status", "skip"}
    /\ Clear({"ready", "crossed"}) =>
         /\ wk.ready \/ fwReady =>
              /\ told # 0 \/ snoc = "cancel"
              /\ \A i \in Places : TypeAt(i) # "arrive"
         /\ fwReady => wk.pc \notin {"ind_register", "fw_status"}

\* The memory is with the firmware only while an exit is still to come, and it is when
\* the firmware is told of it.
ExitOwed(after) ==
    \/ told # 0 \/ snoc = "cancel"
    \/ \E j \in Places : j > after /\ TypeAt(j) = "exit"

MsaInStep ==
    /\ Clear({"dropped"}) =>
         /\ msa /\ Clear({"left"}) => ExitOwed(0) \/ wk.pc = "unmap"
         /\ Arriving => ExitOwed(0)
         /\ \A i \in Places : TypeAt(i) = "arrive" => ExitOwed(i)
    /\ wk.pc \in {"msa_ready", "capabilities"} => msa

\* While an event or the handle names a server that was stopped in good order, the flag
\* that says so is set.
StopsInStep ==
    /\ \A g \in orderly : g <= fw.gen /\ (g = fw.gen => ~fw.live)
    /\ "modem_stopped" \in flags =>
         /\ snoc \in {"up", "unregister", "deinit", "release", "cancel"}
         /\ snoc \in {"up", "unregister"} /\ Clear({"restarted"}) => ~fw.live
    /\ Clear({"restarted"}) /\ "modem_stopped" \notin flags =>
         /\ told # 0 => told \notin orderly
         /\ wk.pc # "idle" => wk.gen \notin orderly
         /\ \A i \in Places : GenAt(i) \notin orderly

\* The wireless device is there only in a driver whose removal will take it away.
WlanInStep ==
    /\ snoc \in {"lookup", "init_done", "up"} => "unregistering" \notin flags
    /\ Clear({"late", "probe_failed"}) =>
         /\ snoc \in {"unregister", "deinit", "release", "cancel"} => "unregistering" \in flags
         /\ wlan = "up" => snoc \in {"lookup", "init_done", "up", "unregister"}
         /\ wk.pc = "register" => "unregistering" \notin flags

WifiInv ==
    /\ WifiTypeOK /\ OutIsEmpty /\ GensInOrder /\ ArrivesOnce /\ StageInStep /\ SkipInStep
    /\ MsaInStep /\ StopsInStep /\ WlanInStep
    /\ SkipOnlyIfReady /\ FirmwareHasMsa

\* The Wi-Fi driver as a whole: the MSA memory is where it is used, bring-up is skipped
\* only for firmware that is ready, a dump means a crash, and no wireless device
\* outlives the driver.
WifiSafe ==
    /\ WifiInv /\ SkipOnlyIfReady /\ MsaComesBack /\ FirmwareHasMsa /\ DumpMeansCrash /\ CoreGone
=============================================================================
