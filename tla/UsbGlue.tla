------------------------------ MODULE UsbGlue -------------------------------
(***************************************************************************)
(* The ACPI glue of the USB host (tcl_usb_acpi.c): one device's probe and  *)
(* remove, with the DWC3 core driver binding whenever the driver core      *)
(* offers it the child device.  Devices described by a device tree are     *)
(* refused, so the glue owns no clock, no wake interrupt, no interconnect  *)
(* path and no extcon, and the labels behind those cannot be reached.      *)
(***************************************************************************)
EXTENDS Naturals, Sequences

VARIABLES
    usb,     \* the glue device: "out", "probe", "unwind", "bound" or "remove"
    parts,   \* what the glue has acquired
    gone,    \* how many of the steps of remove or of the unwinding are done
    core     \* dwc3: "none", "host" (read the properties) or "bare" (found none)

usbVars == <<usb, parts, gone, core>>

UsbInit == usb = "out" /\ parts = {} /\ gone = 0 /\ core = "none"

\* Mutant: the child is added before it has its software node.
ProbeOrderLateNode == <<"resets", "urs", "dwc3", "added", "node", "pm">>

\* dwc3_qcom_probe and dwc3_qcom_acpi_register_core.
ProbeOrder == <<"resets", "urs", "dwc3", "node", "added", "pm">>

UsbParts == {ProbeOrder[i] : i \in DOMAIN ProbeOrder}

\* Mutant: the firmware child goes before the core that uses its interrupt.
RemoveOrderUrsFirst == <<"urs", "node", "added", "dwc3", "resets", "pm">>

\* dwc3_qcom_remove.
RemoveOrder == <<"node", "added", "dwc3", "urs", "resets", "pm">>

\* Mutant: a failing registration returns without its labels.
UnwindOrderShort == <<"node", "dwc3", "resets">>

\* The failure of dwc3_qcom_acpi_register_core, then the labels free_urs and
\* reset_assert: each part is given back if it was acquired.  The device is the
\* last thing that can fail to be added.
UnwindOrder == <<"node", "dwc3", "urs", "resets">>

\* tcl_acpi_usb_check passes and the probe begins.
UsbProbe ==
    /\ usb = "out"
    /\ usb' = "probe"
    /\ UNCHANGED <<parts, gone, core>>

\* The next part: parts are acquired in order and none twice.
UsbAcquire(p) ==
    /\ usb = "probe"
    /\ \E i \in DOMAIN ProbeOrder :
         /\ p = ProbeOrder[i] /\ p \notin parts
         /\ \A j \in 1 .. i - 1 : ProbeOrder[j] \in parts
    /\ parts' = parts \cup {p}
    /\ usb' = IF p = "pm" THEN "bound" ELSE usb
    /\ UNCHANGED <<gone, core>>

\* A part cannot be had.  Nothing fails once the child is added.
UsbFail ==
    /\ usb = "probe" /\ "added" \notin parts
    /\ usb' = "unwind" /\ gone' = 0
    /\ UNCHANGED <<parts, core>>

UsbUnwind ==
    /\ usb = "unwind" /\ gone < Len(UnwindOrder)
    /\ parts' = parts \ {UnwindOrder[gone + 1]}
    /\ gone' = gone + 1
    /\ UNCHANGED <<usb, core>>

\* The driver is unbound or unloaded.
UsbRemove ==
    /\ usb = "bound"
    /\ usb' = "remove" /\ gone' = 0
    /\ UNCHANGED <<parts, core>>

\* platform_device_del unbinds the core.
UsbRelease ==
    /\ usb = "remove" /\ gone < Len(RemoveOrder)
    /\ parts' = parts \ {RemoveOrder[gone + 1]}
    /\ gone' = gone + 1
    /\ core' = IF RemoveOrder[gone + 1] = "added" THEN "none" ELSE core
    /\ UNCHANGED usb

UsbOut ==
    /\ \/ usb = "unwind" /\ gone = Len(UnwindOrder)
       \/ usb = "remove" /\ gone = Len(RemoveOrder)
    /\ usb' = "out" /\ gone' = 0
    /\ UNCHANGED <<parts, core>>

\* The core driver is loaded, its deferred probe is retried, or it is bound
\* by hand: it reads the child's properties as they are then.
CoreBinds ==
    /\ core = "none" /\ "added" \in parts
    /\ core' = IF "node" \in parts THEN "host" ELSE "bare"
    /\ UNCHANGED <<usb, parts, gone>>

CoreUnbinds ==
    /\ core # "none"
    /\ core' = "none"
    /\ UNCHANGED <<usb, parts, gone>>

UsbNext ==
    \/ UsbProbe \/ UsbFail \/ UsbUnwind \/ UsbRemove \/ UsbRelease \/ UsbOut
    \/ \E p \in UsbParts : UsbAcquire(p)
    \/ CoreBinds \/ CoreUnbinds

UsbSpec == UsbInit /\ [][UsbNext]_usbVars

-----------------------------------------------------------------------------
\* The core never runs without the properties that make it a host and send its
\* DMA through the parent, except in the window remove opens by taking the
\* software node away before the device.
CoreConfigured == core = "bare" => usb = "remove"

\* A bound core has its device, the firmware child that supplies its interrupt
\* and its block out of reset, at every step of every failure and removal.
CoreOnLiveParent == core # "none" => {"resets", "urs", "dwc3", "added"} \subseteq parts

\* A glue device that is not bound keeps nothing, however its probe ended.
UsbOutHoldsNothing == usb = "out" => parts = {} /\ core = "none"

\* The inductive invariant: what the glue holds at each step of a probe, a
\* failure and a removal.
UsbTypeOK ==
    /\ usb \in {"out", "probe", "unwind", "bound", "remove"} /\ parts \subseteq UsbParts
    /\ gone \in Nat /\ core \in {"none", "host", "bare"}

UsbInv ==
    /\ UsbTypeOK /\ CoreOnLiveParent /\ CoreConfigured
    /\ usb = "out" => parts = {} /\ core = "none"
    /\ usb = "probe" => /\ "pm" \notin parts
                       /\ \A i, j \in DOMAIN ProbeOrder : i < j /\ ProbeOrder[j] \in parts => ProbeOrder[i] \in parts
    /\ usb = "bound" => parts = UsbParts
    /\ usb = "unwind" => /\ parts \cap {"added", "pm"} = {} /\ gone <= Len(UnwindOrder)
                        /\ \A i \in 1 .. gone : UnwindOrder[i] \notin parts
    /\ usb = "remove" => /\ gone <= Len(RemoveOrder)
                        /\ \A i \in DOMAIN RemoveOrder : RemoveOrder[i] \in parts <=> i > gone

\* The glue as a whole: the core runs configured and on a live parent, and a glue that
\* is not bound keeps nothing.
UsbSafe ==
    /\ UsbInv /\ UsbOutHoldsNothing
=============================================================================
