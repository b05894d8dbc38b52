------------------------- MODULE MCMemoryMaintenance --------------------------
(* One review, interrupted once. *)
EXTENDS MemoryMaintenance
=============================================================================
