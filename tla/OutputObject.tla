---------------------------- MODULE OutputObject ----------------------------
(***************************************************************************)
(* output_process_input_files: for one input file after the other,         *)
(* output_local_symbols writes its symbols (OutputSymbols) and makes its   *)
(* slots (SlotVec), and then its relocation entries and line entries ask   *)
(* for the new numbers of the symbols they name.  The global symbols       *)
(* follow the last file.                                                   *)
(***************************************************************************)
EXTENDS OutputSymbols, SlotVec

outputVars == <<vars, vectorVars>>

OutputInit == Init /\ InitVector

\* The first pass and the update do not know the vector.
Prepare ==
  /\ ProcessEntry \/ NextFile \/ IndexFile \/ UpdateSymbol \/ UpdateDone
  /\ UNCHANGED vectorVars

BeginFile == pc = "local" /\ BeginVector /\ UNCHANGED vars

\* MUTANT: auxiliary entries are not counted.
CurrentUncounted == count < n

\* count is at the entry that is next: the auxiliary entries of the one before
\* are passed over.
Current == count = n - 1

Relocatable == Entry.class = "ext" \/ (Entry.class = "stat" /\ Entry.scnum > 0)

SymbolWithSlot ==
  /\ Current /\ RelocatableSymbol
  /\ OutputFunction \/ OutputExternal \/ (OutputLocal /\ Relocatable)

SymbolWithoutSlot ==
  /\ Current /\ OtherEntry
  /\ (OutputLocal /\ ~Relocatable) \/ OutputFileEntry

AuxPassed == count < n - 1 /\ OtherEntry /\ UNCHANGED vars

SymbolsThrough == Current /\ EndSymbols /\ EndFile

\* The entries of a file name symbols of its table.
LookUp ==
  /\ SlotvecRead \/ Search \/ UseAnswer
  /\ sym_index' < Len(files[begun])
  /\ UNCHANGED vars

FileThrough == EndEntries /\ UNCHANGED vars

Finish ==
  /\ at = "file"
  /\ OutputGlobal \/ FinishUp
  /\ UNCHANGED vectorVars

OutputNext ==
  \/ Prepare \/ BeginFile \/ SymbolWithSlot \/ SymbolWithoutSlot \/ AuxPassed
  \/ SymbolsThrough \/ LookUp \/ FileThrough \/ Finish

OutputSpec == OutputInit /\ [][OutputNext]_outputVars

-----------------------------------------------------------------------------
\* A relocation or line entry gets the slot of the very symbol it names, in its
\* own file, whose new number is the one that SlotsName is about; a symbol that
\* has no slot is not found.
LookupNames ==
  at = "answer" /\ Searchable =>
    IF result = NULL
      THEN \A s \in slots : s.file = begun => s.old # sym_index + 1
      ELSE \E s \in slots : /\ s.file = begun /\ s.old = sym_index + 1
                            /\ slot[result] = [sv_symindex |-> s.old - 1, file |-> begun]
=============================================================================
