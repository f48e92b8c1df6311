----------------------------- MODULE MCPlatform -----------------------------
(***************************************************************************)
(* The parts of the platform below the audio stack on small instances: the *)
(* SoundWire master, deferred probing, remote processor start and stop,    *)
(* CPU throttling, the SPMI adapter, the USB glue, the Wi-Fi firmware      *)
(* client, a GPIO line and its interrupt, the modem's file server.  They   *)
(* share no state, so a behaviour runs one of them, `part`, and leaves the *)
(* others at their start.                                                  *)
(***************************************************************************)
EXTENDS SwrMaster, DeferredProbe, Q6v5Pas, LmhThrottle, SpmiOwner, UsbGlue, Ath10kQmi,
        GpioLine, TlmmIrq, Rmtfs

\* The modem's two clients, and one of another node.
ClientNodes == [c \in {"a", "b", "c"} |-> IF c = "c" THEN 1 ELSE 0]

VARIABLE part

platformVars == <<part, swrVars, probeVars, pasVars, lmhVars, spmiVars, usbVars, wifiVars, lineVars, tlmmVars, rmtfsVars>>

Init ==
    /\ part \in {"swr", "probe", "pas", "lmh", "spmi", "usb", "wifi", "line", "tlmm", "rmtfs"}
    /\ SwrInit /\ ProbeInit /\ PasInit /\ LmhInit /\ SpmiInit
    /\ UsbInit /\ WifiInit /\ LineInit /\ TlmmInit /\ RmtfsInit
    /\ part # "swr" => wakeIrq
    /\ part # "line" => valid /\ oe
    /\ part # "tlmm" => kind = "parent" /\ level
    /\ part # "rmtfs" => ro /\ verbose

Next ==
    \/ part = "swr" /\ SwrNext
       /\ UNCHANGED <<part, probeVars, pasVars, lmhVars, spmiVars, usbVars, wifiVars, lineVars, tlmmVars, rmtfsVars>>
    \/ part = "probe" /\ ProbeNext
       /\ UNCHANGED <<part, swrVars, pasVars, lmhVars, spmiVars, usbVars, wifiVars, lineVars, tlmmVars, rmtfsVars>>
    \/ part = "pas" /\ PasNext
       /\ UNCHANGED <<part, swrVars, probeVars, lmhVars, spmiVars, usbVars, wifiVars, lineVars, tlmmVars, rmtfsVars>>
    \/ part = "lmh" /\ LmhNext
       /\ UNCHANGED <<part, swrVars, probeVars, pasVars, spmiVars, usbVars, wifiVars, lineVars, tlmmVars, rmtfsVars>>
    \/ part = "spmi" /\ SpmiNext
       /\ UNCHANGED <<part, swrVars, probeVars, pasVars, lmhVars, usbVars, wifiVars, lineVars, tlmmVars, rmtfsVars>>
    \/ part = "usb" /\ UsbNext
       /\ UNCHANGED <<part, swrVars, probeVars, pasVars, lmhVars, spmiVars, wifiVars, lineVars, tlmmVars, rmtfsVars>>
    \/ part = "wifi" /\ WifiNext
       /\ UNCHANGED <<part, swrVars, probeVars, pasVars, lmhVars, spmiVars, usbVars, lineVars, tlmmVars, rmtfsVars>>
    \/ part = "line" /\ LineNext
       /\ UNCHANGED <<part, swrVars, probeVars, pasVars, lmhVars, spmiVars, usbVars, wifiVars, tlmmVars, rmtfsVars>>
    \/ part = "tlmm" /\ TlmmNext
       /\ UNCHANGED <<part, swrVars, probeVars, pasVars, lmhVars, spmiVars, usbVars, wifiVars, lineVars, rmtfsVars>>
    \/ part = "rmtfs" /\ RmtfsNext
       /\ UNCHANGED <<part, swrVars, probeVars, pasVars, lmhVars, spmiVars, usbVars, wifiVars, lineVars, tlmmVars>>

Spec == Init /\ [][Next]_platformVars
=============================================================================
