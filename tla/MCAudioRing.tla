----------------------------- MODULE MCAudioRing -----------------------------
(***************************************************************************)
(* Small instances of AudioRing: two distinguishable frames, a ring of two *)
(* frames and indices that wrap after two or four capacities.              *)
(***************************************************************************)
EXTENDS AudioRing
=============================================================================
