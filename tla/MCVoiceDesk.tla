---------------------------- MODULE MCVoiceDesk ----------------------------
(* Instances of VoiceDesk: attention rows are interchangeable.             *)
EXTENDS VoiceDesk, TLC
CONSTANTS r1, r2
RowSymmetry == Permutations(Rows)
=============================================================================
