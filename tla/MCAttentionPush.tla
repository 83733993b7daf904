-------------------------- MODULE MCAttentionPush --------------------------
(* Instances of AttentionPush: model values for attention rows and         *)
(* subscriptions.                                                          *)
EXTENDS AttentionPush
CONSTANTS a1, a2, s1
=============================================================================
