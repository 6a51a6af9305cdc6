---------------------------- MODULE MCArchMemory ----------------------------
(* Two names that begin with the same eight characters and one of its own; *)
(* longs of three bits, in which the last address used is the last there   *)
(* is.                                                                     *)
EXTENDS ArchMemory

MCName == {"seg_dmda1", "seg_dmda2", "ovly", "main"}
MCKey  == [n \in MCName |-> IF n \in {"ovly", "main"} THEN n ELSE "seg_dmda"]
\* One in the other, two that overlap above the sign bit, of which one reaches
\* the last address, an empty one, and all addresses, which is too large.
MCRange == {<<0, 2>>, <<1, 1>>, <<2, 6>>, <<6, 7>>, <<2, 1>>, <<0, 7>>}
=============================================================================
