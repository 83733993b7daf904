---------------------------- MODULE MCVoiceCalls ----------------------------
(* Instances of VoiceCalls: model values for goroutines and subscribers.   *)
EXTENDS VoiceCalls
CONSTANTS s1
=============================================================================
