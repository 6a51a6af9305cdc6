------------------------------ MODULE MCLayout ------------------------------
(* Two program segments whose names agree in eight characters, two segments *)
(* for data of which one is UNINIT, and three input sections of any names,  *)
(* sizes and line entries, which may be too many for the line counter.  The *)
(* second segment begins inside the first.                                  *)
EXTENDS Layout

MCMemName   == <<"code", "data", "code", "bss">>
MCMemStart  == <<0, 2, 3, 4>>
MCMemLength == <<4, 2, 1, 2>>
MCMemUninit == <<FALSE, FALSE, FALSE, TRUE>>
\* In the order of the directives.
MCSectName  == <<"code", "data", "bss", "code">>
MCSectWord  == <<6, 5, 5, 6>>
=============================================================================
