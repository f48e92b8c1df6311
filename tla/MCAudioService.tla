--------------------------- MODULE MCAudioService ----------------------------
(****************************************************************************)
(* Small instances of the audio service.  The clients are interchangeable;  *)
(* the devices are not, the script looks at them in order.                  *)
(****************************************************************************)
EXTENDS AudioService, TLC

Symmetry == Permutations(Streams)

(* The VA macro and the two SoundWire masters: the last device of the loop   *)
(* and one that is not a master are among them.                             *)
MCBuses == {2, 3}
==============================================================================
