----------------------------- MODULE MCSlotVec -----------------------------
(* Two files of up to five symbols; a vector of four slots, which the       *)
(* symbols of a file can fill and overrun.                                  *)
EXTENDS SlotVec
=============================================================================
