------------------------------ MODULE ResetHold ------------------------------
(****************************************************************************)
(* tcl_acpi_codec_reset_hold.ko: the guarded GPIO58 pulse that takes the    *)
(* WCD9385 codec out of reset, and the restore of the pin at unload.        *)
(*                                                                          *)
(* The pin has a configuration register (input with pull-down, output, or   *)
(* something another owner has set) and an output bit.  The codec is out of *)
(* reset exactly while the pin is an output driven high.                    *)
(****************************************************************************)

VARIABLES
  rs,      \* where init or exit stands ("absent" and "live" are at rest)
  mapped,  \* gpio58 is ioremapped
  active,  \* the module has changed the pin
  pin,     \* configuration: "input" (cfg 1), "output" (cfg 0x200) or "foreign"
  high     \* the output bit (io = 2)

rsVars == <<rs, mapped, active, pin, high>>

RsStates == {"absent", "check", "low", "mux", "pulse", "live", "restore", "unmap"}
Pins == {"input", "output", "foreign"}

Released == pin = "output" /\ high

(* The firmware leaves an input at 0, or somebody else already uses the pin. *)
RsInit ==
  /\ rs = "absent"
  /\ mapped = FALSE
  /\ active = FALSE
  /\ \/ pin = "input" /\ high = FALSE
     \/ pin = "foreign" /\ high \in BOOLEAN

(* insmod: board check, then ioremap(), either of which may fail. *)
RsLoad ==
  /\ rs = "absent"
  /\ \/ rs' = "absent" /\ mapped' = FALSE
     \/ rs' = "check" /\ mapped' = TRUE
  /\ active' = FALSE
  /\ UNCHANGED <<pin, high>>

\* Mutant: the guard only looks at the output bit, not at the configuration.
RsCheckHalf ==
  /\ rs = "check"
  /\ IF ~high
       THEN rs' = "low" /\ UNCHANGED mapped
       ELSE rs' = "absent" /\ mapped' = FALSE
  /\ UNCHANGED <<active, pin, high>>

(* The guard: no write unless the pin is the input the firmware left. *)
RsCheck ==
  /\ rs = "check"
  /\ IF pin = "input" /\ ~high
       THEN rs' = "low" /\ UNCHANGED mapped
       ELSE rs' = "absent" /\ mapped' = FALSE
  /\ UNCHANGED <<active, pin, high>>

RsDriveLow ==
  /\ rs = "low"
  /\ rs' = "mux"
  /\ high' = FALSE
  /\ UNCHANGED <<mapped, active, pin>>

(* The pin becomes an output driven low; active is set for restore_gpio58(). *)
RsMux ==
  /\ rs = "mux"
  /\ rs' = "pulse"
  /\ pin' = "output"
  /\ active' = TRUE
  /\ UNCHANGED <<mapped, high>>

(* After 5 ms low the line goes high; init ends 2 ms later. *)
RsRelease ==
  /\ rs = "pulse"
  /\ rs' = "live"
  /\ high' = TRUE
  /\ UNCHANGED <<mapped, active, pin>>

\* Mutant: the pin becomes an input again while its output bit is still set.
RsUnloadInputOnly ==
  /\ rs = "live"
  /\ rs' = "restore"
  /\ UNCHANGED <<mapped, active, pin, high>>

(* rmmod: restore_gpio58() first drives the line low ... *)
RsUnload ==
  /\ rs = "live"
  /\ IF active
       THEN rs' = "restore" /\ high' = FALSE
       ELSE rs' = "unmap" /\ UNCHANGED high
  /\ UNCHANGED <<mapped, active, pin>>

(* ... then makes the pin an input again ... *)
RsRestore ==
  /\ rs = "restore"
  /\ rs' = "unmap"
  /\ pin' = "input"
  /\ active' = FALSE
  /\ UNCHANGED <<mapped, high>>

(* ... and the register window is unmapped. *)
RsUnmap ==
  /\ rs = "unmap"
  /\ rs' = "absent"
  /\ mapped' = FALSE
  /\ UNCHANGED <<active, pin, high>>

(* What the module does on its own once insmod or rmmod has called it. *)
RsStep == RsCheck \/ RsDriveLow \/ RsMux \/ RsRelease \/ RsRestore \/ RsUnmap

RsNext == RsLoad \/ RsUnload \/ RsStep

RsSpec == RsInit /\ [][RsNext]_rsVars /\ WF_rsVars(RsStep)

------------------------------------------------------------------------------
(* The inductive invariant: where each register may have left the state the *)
(* guard accepted.  A pin that was foreign is never touched.                *)
RsInv ==
  /\ rs \in RsStates /\ mapped \in BOOLEAN /\ active \in BOOLEAN
  /\ pin \in Pins /\ high \in BOOLEAN
  /\ mapped <=> rs # "absent"
  /\ active <=> rs \in {"pulse", "live", "restore"}
  /\ pin = "output" <=> rs \in {"pulse", "live", "restore"}
  /\ pin = "input" => ~high
  /\ rs \notin {"absent", "check"} => pin # "foreign"
  /\ high /\ pin = "output" => rs = "live"
  /\ rs = "live" => high

(* "The original input state restored on unload": whenever the module is not *)
(* loaded the pin is what the firmware left, and a pin in somebody else's    *)
(* hands is never written.                                                   *)
PinRestored == rs = "absent" => ~mapped /\ (pin = "foreign" \/ (pin = "input" /\ ~high))

(* The line is never driven high except from a driven low (the OEM pulse),  *)
(* never becomes an input while high, and a foreign pin stays as it was.    *)
LineDiscipline ==
  [][/\ Released' /\ ~Released => pin = "output" /\ ~high
     /\ Released /\ ~Released' => pin' = "output"
     /\ pin = "foreign" => pin' = pin /\ high' = high]_rsVars
==============================================================================
