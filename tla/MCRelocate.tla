----------------------------- MODULE MCRelocate -----------------------------
(* Sections of up to four words; buffers that end in every place of a word, *)
(* and one that holds the whole section.                                    *)
EXTENDS Relocate
=============================================================================
