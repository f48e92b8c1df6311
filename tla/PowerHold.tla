------------------------------ MODULE PowerHold ------------------------------
(****************************************************************************)
(* tcl_acpi_audio_power_hold.ko: the RPMh votes that hold the two OEM audio *)
(* rails (LDO15_A and BOB_C) for the lifetime of the module.                *)
(*                                                                          *)
(* A vote is a blocking rpmh_write(); the RPMh driver and the hardware are  *)
(* external.  A write is acknowledged, is refused before it reaches the     *)
(* hardware, or times out after the hardware has taken it: in the last two  *)
(* cases the caller sees the same error.  The votes in the hardware outlive *)
(* the module; its static flags do not (they start FALSE at every load).    *)
(****************************************************************************)

VARIABLES
  pw,      \* where init or exit stands ("absent" and "live" are at rest)
  on,      \* the rails whose flag (ldo_on, bob_on) is set
  banks,   \* the rails whose RPMh client device is referenced
  hw,      \* the votes the hardware holds: pairs <<rail, field>>
  doubt    \* history: rails whose last enable or disable write returned an error

pwVars == <<pw, on, banks, hw, doubt>>

Rails == {"ldo", "bob"}
Fields == {"volt", "mode", "en"}

PwVoting == {"ldo_volt", "ldo_mode", "ldo_en", "bob_volt", "bob_mode", "bob_en"}
PwStates == {"absent", "find", "live", "off_bob", "off_ldo", "put"} \cup PwVoting

PwInit ==
  /\ pw = "absent"
  /\ on = {}
  /\ banks = {}
  /\ hw = {}
  /\ doubt = {}

(* What one rpmh_write() can leave in the hardware: "after" if it returns 0. *)
RpmhWrite(after, ok) ==
  \/ hw' = after
  \/ ~ok /\ hw' = hw

(* insmod: the board and CMD DB checks return before anything is taken. *)
PwLoad ==
  /\ pw = "absent"
  /\ pw' \in {"absent", "find"}
  /\ on' = {}
  /\ UNCHANGED <<banks, hw, doubt>>

(* Both clients are looked up before either is tested. *)
PwFindBanks ==
  /\ pw = "find"
  /\ banks' \in SUBSET Rails
  /\ \/ banks' = Rails /\ pw' = "ldo_volt"
     \/ pw' = "put"
  /\ UNCHANGED <<on, hw, doubt>>

\* Mutant: the result of rpmh_vote() is not looked at.
PwVoteUnchecked(at, r, f, next, fail) ==
  /\ pw = at
  /\ \E ok \in BOOLEAN : RpmhWrite(hw \cup {<<r, f>>}, ok)
  /\ pw' = next
  /\ on' = IF f = "en" THEN on \cup {r} ELSE on
  /\ UNCHANGED <<banks, doubt>>

\* Mutant: a failed vote makes init begin again.
PwVoteRestart(at, r, f, next, fail) ==
  /\ pw = at
  /\ \E ok \in BOOLEAN :
       /\ RpmhWrite(hw \cup {<<r, f>>}, ok)
       /\ pw' = IF ok THEN next ELSE "ldo_volt"
       /\ on' = IF ok /\ f = "en" THEN on \cup {r} ELSE on
  /\ UNCHANGED <<banks, doubt>>

(* One rpmh_vote() of init: the flag is set only after the enable vote. *)
PwVote(at, r, f, next, fail) ==
  /\ pw = at
  /\ \E ok \in BOOLEAN :
       /\ RpmhWrite(hw \cup {<<r, f>>}, ok)
       /\ pw' = IF ok THEN next ELSE fail
       /\ on' = IF ok /\ f = "en" THEN on \cup {r} ELSE on
       /\ doubt' = IF ~ok /\ f = "en" THEN doubt \cup {r} ELSE doubt
  /\ UNCHANGED banks

\* Mutant: the LDO is enabled before its mode is voted.
PwVotesEnableFirst ==
  \/ PwVote("ldo_volt", "ldo", "volt", "ldo_en", "put")
  \/ PwVote("ldo_en", "ldo", "en", "ldo_mode", "off_bob")
  \/ PwVote("ldo_mode", "ldo", "mode", "bob_volt", "off_bob")
  \/ PwVote("bob_volt", "bob", "volt", "bob_mode", "off_bob")
  \/ PwVote("bob_mode", "bob", "mode", "bob_en", "off_bob")
  \/ PwVote("bob_en", "bob", "en", "live", "off_bob")

(* The six votes of init; only the first one fails without disable_rails(). *)
PwVotes ==
  \/ PwVote("ldo_volt", "ldo", "volt", "ldo_mode", "put")
  \/ PwVote("ldo_mode", "ldo", "mode", "ldo_en", "off_bob")
  \/ PwVote("ldo_en", "ldo", "en", "bob_volt", "off_bob")
  \/ PwVote("bob_volt", "bob", "volt", "bob_mode", "off_bob")
  \/ PwVote("bob_mode", "bob", "mode", "bob_en", "off_bob")
  \/ PwVote("bob_en", "bob", "en", "live", "off_bob")

(* One half of disable_rails(): a rail is voted off only if its flag is set, *)
(* and the flag is cleared only if the write succeeds.                       *)
PwOff(at, r, next) ==
  /\ pw = at
  /\ pw' = next
  /\ \/ /\ r \notin on
        /\ UNCHANGED <<on, hw, doubt>>
     \/ /\ r \in on
        /\ \E ok \in BOOLEAN :
             /\ RpmhWrite(hw \ {<<r, "en">>}, ok)
             /\ on' = IF ok THEN on \ {r} ELSE on
             /\ doubt' = IF ok THEN doubt \ {r} ELSE doubt \cup {r}
  /\ UNCHANGED banks

\* Mutant: the LDO is not looked at after BOB.
PwDisableBobOnly == PwOff("off_bob", "bob", "put")

(* disable_rails(): BOB first, then the LDO whatever happened to BOB. *)
PwDisableRails ==
  \/ PwOff("off_bob", "bob", "off_ldo")
  \/ PwOff("off_ldo", "ldo", "put")

\* Mutant: only the BOB client is put.
PwPutBobOnly ==
  /\ pw = "put"
  /\ pw' = "absent"
  /\ banks' = banks \ {"bob"}
  /\ UNCHANGED <<on, hw, doubt>>

PwPutBanks ==
  /\ pw = "put"
  /\ pw' = "absent"
  /\ banks' = {}
  /\ UNCHANGED <<on, hw, doubt>>

(* rmmod: exit runs disable_rails() and put_banks() whatever they return. *)
PwUnload ==
  /\ pw = "live"
  /\ pw' = "off_bob"
  /\ UNCHANGED <<on, banks, hw, doubt>>

(* What the module does on its own once insmod or rmmod has called it. *)
PwStep == PwFindBanks \/ PwVotes \/ PwDisableRails \/ PwPutBanks

PwNext == PwLoad \/ PwUnload \/ PwStep

(* The kernel thread in init or exit runs on, and every rpmh_write() ends. *)
PwSpec == PwInit /\ [][PwNext]_pwVars /\ WF_pwVars(PwStep)

------------------------------------------------------------------------------
(* Type correctness of the module's flags, references and of the votes. *)
PwTypeOK ==
  /\ pw \in PwStates
  /\ on \subseteq Rails
  /\ banks \subseteq Rails
  /\ hw \subseteq Rails \X Fields
  /\ doubt \subseteq Rails

(* A rail is never enabled before its voltage and its mode are voted: the   *)
(* six writes of init go out in the order that never switches on a rail at  *)
(* somebody else's voltage, over any number of loads, failures and unloads. *)
RailEnabledConfigured ==
  \A r \in Rails : <<r, "en">> \in hw => <<r, "volt">> \in hw /\ <<r, "mode">> \in hw

RailOn(r) == \A f \in Fields : <<r, f>> \in hw

(* While the module is loaded both rails are on and both clients referenced *)
(* ("OEM rails held until module removal").                                 *)
LiveHoldsRails ==
  pw = "live" => banks = Rails /\ \A r \in Rails : RailOn(r)

(* A rail survives the module only if an enable or disable write for it      *)
(* returned an error: neither a failed init at any of its six votes nor exit *)
(* forgets a rail it switched on, and no client reference is left.           *)
NothingLeftWithoutError ==
  pw = "absent" => banks = {} /\ \A r \in Rails : <<r, "en">> \in hw => r \in doubt

(* The inductive invariant behind the three facts above.  The flag of a rail *)
(* is the only memory of a vote that has to be taken back, so what is needed *)
(* is where each flag may be set, and that a rail that is on without its     *)
(* flag, or a flag that outlives disable_rails(), goes back to a failed      *)
(* write.                                                                    *)
PwInv ==
  /\ PwTypeOK
  /\ pw \in {"absent", "find"} => banks = {}
  /\ pw \in PwVoting \cup {"live", "off_bob", "off_ldo"} => banks = Rails
  /\ pw \in {"ldo_mode", "ldo_en"} => <<"ldo", "volt">> \in hw
  /\ pw = "ldo_en" => <<"ldo", "mode">> \in hw
  /\ pw \in {"bob_mode", "bob_en"} => <<"bob", "volt">> \in hw
  /\ pw = "bob_en" => <<"bob", "mode">> \in hw
  /\ pw \in {"find", "ldo_volt", "ldo_mode", "ldo_en"} => "ldo" \notin on
  /\ pw \in {"find"} \cup PwVoting => "bob" \notin on
  /\ pw \in {"bob_volt", "bob_mode", "bob_en", "live"} => "ldo" \in on /\ <<"ldo", "en">> \in hw
  /\ pw = "live" => "bob" \in on /\ <<"bob", "en">> \in hw
  /\ pw \in {"off_ldo", "put", "absent"} /\ "bob" \in on => "bob" \in doubt
  /\ pw \in {"put", "absent"} /\ "ldo" \in on => "ldo" \in doubt
  /\ \A r \in Rails : <<r, "en">> \in hw => r \in on \cup doubt
  /\ RailEnabledConfigured

(* Every load and every unload comes to rest: no failing vote is retried or *)
(* waited for without end.                                                  *)
PwSettles == pw \notin {"absent", "live"} ~> pw \in {"absent", "live"}

\* The rails as a whole: held while the module is loaded, released when it is not.
RailsAccounted ==
    /\ LiveHoldsRails /\ NothingLeftWithoutError
==============================================================================
