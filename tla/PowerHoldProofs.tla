--------------------------- MODULE PowerHoldProofs ---------------------------
(****************************************************************************)
(* The safety of the rail votes, for every sequence of loads, unloads and   *)
(* failing writes.  PwInv is inductive; the properties follow from it.      *)
(****************************************************************************)
EXTENDS PowerHold, TLAPS

(* The module starts with nothing voted, flagged or referenced. *)
LEMMA PwInitInv == PwInit => PwInv
BY DEF PwInit, PwInv, PwTypeOK, PwStates, PwVoting, Rails, Fields, RailEnabledConfigured

(* The six votes of init keep the invariant, acknowledged or not. *)
LEMMA PwVotesInv == PwInv /\ PwVotes => PwInv'
<1> SUFFICES ASSUME PwInv, PwVotes PROVE PwInv'
  OBVIOUS
<1> USE DEF PwInv, PwTypeOK, PwStates, PwVoting, Rails, Fields, RailEnabledConfigured,
            PwVote, RpmhWrite
<1>1. CASE PwVote("ldo_volt", "ldo", "volt", "ldo_mode", "put")
  BY <1>1
<1>2. CASE PwVote("ldo_mode", "ldo", "mode", "ldo_en", "off_bob")
  BY <1>2
<1>3. CASE PwVote("ldo_en", "ldo", "en", "bob_volt", "off_bob")
  BY <1>3
<1>4. CASE PwVote("bob_volt", "bob", "volt", "bob_mode", "off_bob")
  BY <1>4
<1>5. CASE PwVote("bob_mode", "bob", "mode", "bob_en", "off_bob")
  BY <1>5
<1>6. CASE PwVote("bob_en", "bob", "en", "live", "off_bob")
  BY <1>6
<1> QED BY <1>1, <1>2, <1>3, <1>4, <1>5, <1>6 DEF PwVotes

(* Taking the votes back keeps the invariant, acknowledged or not. *)
LEMMA PwDisableRailsInv == PwInv /\ PwDisableRails => PwInv'
<1> SUFFICES ASSUME PwInv, PwDisableRails PROVE PwInv'
  OBVIOUS
<1> USE DEF PwInv, PwTypeOK, PwStates, PwVoting, Rails, Fields, RailEnabledConfigured,
            PwOff, RpmhWrite
<1>1. CASE PwOff("off_bob", "bob", "off_ldo")
  BY <1>1
<1>2. CASE PwOff("off_ldo", "ldo", "put")
  BY <1>2
<1> QED BY <1>1, <1>2 DEF PwDisableRails

(* Every step of the module, and every step that leaves it alone, keeps the *)
(* invariant; stated on its own because AudioService takes the same steps.  *)
LEMMA PwNextInv == PwInv /\ [PwNext]_pwVars => PwInv'
<1> SUFFICES ASSUME PwInv, [PwNext]_pwVars PROVE PwInv'
  OBVIOUS
<1>1. CASE PwLoad
  BY <1>1 DEF PwLoad, PwInv, PwTypeOK, PwStates, PwVoting, Rails, RailEnabledConfigured
<1>2. CASE PwUnload
  BY <1>2 DEF PwUnload, PwInv, PwTypeOK, PwStates, PwVoting, Rails, RailEnabledConfigured
<1>3. CASE PwFindBanks
  BY <1>3 DEF PwFindBanks, PwInv, PwTypeOK, PwStates, PwVoting, Rails, RailEnabledConfigured
<1>4. CASE PwPutBanks
  BY <1>4 DEF PwPutBanks, PwInv, PwTypeOK, PwStates, PwVoting, Rails, RailEnabledConfigured
<1>5. CASE UNCHANGED pwVars
  BY <1>5 DEF pwVars, PwInv, PwTypeOK, RailEnabledConfigured
<1>6. CASE PwVotes
  BY <1>6, PwVotesInv
<1>7. CASE PwDisableRails
  BY <1>7, PwDisableRailsInv
<1> QED
  BY <1>1, <1>2, <1>3, <1>4, <1>5, <1>6, <1>7 DEF PwNext, PwStep

(* The invariant holds of every behaviour of the driver. *)
THEOREM PwSafe == PwSpec => []PwInv
<1>1. PwInit => PwInv
  BY PwInitInv
<1>2. PwInv /\ [PwNext]_pwVars => PwInv'
  BY PwNextInv
<1> QED BY <1>1, <1>2, PTL DEF PwSpec

(* While tcl_acpi_audio_power_hold is loaded both rails are on. *)
THEOREM PwLive == PwSpec => []LiveHoldsRails
<1>1. PwInv => LiveHoldsRails
  BY DEF PwInv, PwTypeOK, LiveHoldsRails, RailOn, RailEnabledConfigured, Rails, Fields
<1> QED BY <1>1, PwSafe, PTL

(* Init that fails and exit leave a rail on only after a write that failed. *)
THEOREM PwNothingLeft == PwSpec => []NothingLeftWithoutError
<1>1. PwInv => NothingLeftWithoutError
  BY DEF PwInv, PwTypeOK, NothingLeftWithoutError, Rails
<1> QED BY <1>1, PwSafe, PTL

(* The rails are held while the module is loaded and given back when it is   *)
(* not, whichever of its writes failed before.                              *)
THEOREM PwRailsAccounted == PwSpec => []RailsAccounted
<1>1. LiveHoldsRails /\ NothingLeftWithoutError => RailsAccounted
  BY DEF RailsAccounted
<1> QED BY <1>1, PwLive, PwNothingLeft, PTL
==============================================================================
