---------------------------- MODULE MCTranscode ----------------------------
(***************************************************************************)
(* Pipelines for TLC: one sink with two sources, and two sinks that one     *)
(* source composes.                                                        *)
(***************************************************************************)
EXTENDS Transcode

FanOutChain == <<"e2", "e1">>
PairChain == <<"e1">>
FanOutInput == [d \in {"d1"} |-> 2]
ThreeFrames == [d \in {"d1"} |-> 3]
LongInput == [d \in {"d1"} |-> 4]
FanOutPool == [d \in {"d1"} |-> 1..2]

ComposeChain == <<"d1", "d2">>
OverlayInput == [d \in {"d1", "d2"} |-> 2]
ComposePool == [d \in {"d1", "d2"} |-> IF d = "d1" THEN {1, 2} ELSE {3, 4}]
=============================================================================
