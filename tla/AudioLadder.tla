----------------------------- MODULE AudioLadder -----------------------------
(****************************************************************************)
(* What the audio service promises about the codec, whatever fails on the   *)
(* way: power, reset, codec aggregate and card are one ladder.              *)
(*                                                                          *)
(*   0  nothing held                                                        *)
(*   1  both rails voted on                                                 *)
(*   2  codec out of reset                                                  *)
(*   3  WCD9385 aggregate registered                                        *)
(*   4  card registered with ALSA                                           *)
(*                                                                          *)
(* It is climbed and descended one rung at a time, streams are opened only  *)
(* at the top, and nobody steps down while a stream is open.                *)
(****************************************************************************)
EXTENDS Naturals

CONSTANT Streams

VARIABLES level, users

Top == 4

LadderInit == level = 0 /\ users = {}

ClimbUp ==
  /\ level < Top
  /\ level' = level + 1
  /\ UNCHANGED users

StepDown ==
  /\ level > 0
  /\ users = {}
  /\ level' = level - 1
  /\ UNCHANGED users

UserEnters(s) ==
  /\ level = Top
  /\ users' = users \cup {s}
  /\ UNCHANGED level

UserLeaves(s) ==
  /\ users' = users \ {s}
  /\ UNCHANGED level

LadderNext ==
  \/ ClimbUp
  \/ StepDown
  \/ \E s \in Streams : UserEnters(s) \/ UserLeaves(s)

LadderSpec == LadderInit /\ [][LadderNext]_<<level, users>>
==============================================================================
