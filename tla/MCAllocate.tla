----------------------------- MODULE MCAllocate -----------------------------
(* Four segments of which two share their first eight characters, so that  *)
(* two sections compete for them, and one overlay of the same address.     *)
EXTENDS Allocate

MCName     == <<"code", "code", "data", "ovly">>
MCStart    == <<0, 3, 5, 5>>
MCLength   == <<3, 2, 2, 2>>
\* section_list is in the order of the directives, not of the addresses.
MCSectName == <<"data", "code", "ovly", "code">>
MCSectWord == <<5, 6, 5, 6>>
=============================================================================
