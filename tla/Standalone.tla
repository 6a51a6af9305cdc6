----------------------------- MODULE Standalone -----------------------------
(***************************************************************************)
(* mem21k, binutils/ldr: make_standalone copies an executable and moves    *)
(* the contents of its RAM sections to a table behind seg_init, which the  *)
(* start-up code finds by the word ___inits; main (main.c) puts the result *)
(* in the place of its input if both have one name.                        *)
(*                                                                         *)
(* The input is an executable of the linker (module Layout): the data of   *)
(* the sections stand one behind the other in the order of their headers,  *)
(* then the line entries, the symbols and the strings; a section has data  *)
(* in the file exactly if it has a size.  The output is the sequence of    *)
(* the parts written: where, how many bytes, and from where in the input.  *)
(***************************************************************************)
EXTENDS InitList, FiniteSets

CONSTANTS
  Inputs,                \* the executables that are tried
  Capacity,              \* words of seg_init as Init_segment_ach_size counts them
  FILHSZ, SCNHSZ, LINESZ, SYMESZ

\* What the linker makes: one section is seg_init, which holds at least the word
\* ___inits, an auxiliary entry announces no other, and no function's entry, or
\* what is taken for one, follows another.
ASSUME ExecutableAssumption ==
  /\ FILHSZ \in Nat \ {0} /\ {SCNHSZ, LINESZ, SYMESZ, Capacity} \subseteq Nat
  /\ \A e \in Inputs :
       /\ e.sect \in Seq([kind : {"kept", "ram", "init"}, pm : BOOLEAN, narrow : BOOLEAN,
                          addr : Nat, words : Seq(Nat), lines : Nat])
       /\ \E s \in DOMAIN e.sect : e.sect[s].kind = "init"
       /\ \A s, t \in DOMAIN e.sect :
            e.sect[s].kind = "init" => e.sect[s].words # <<>> /\ (e.sect[t].kind = "init" => s = t)
       /\ e.syms \in Seq([fcn : BOOLEAN, numaux : {0, 1}])
       /\ \A k \in DOMAIN e.syms : k > 1 =>
            /\ e.syms[k - 1].numaux = 1 => e.syms[k].numaux = 0
            /\ e.syms[k - 1].fcn => ~e.syms[k].fcn

VARIABLES
  pc, i,                 \* where control is; the section or symbol it is at
  exe,                   \* the executable, and whether it is to be replaced:
  inplace,               \*   input_file_name equals output_file_name
  init_base,             \* memory -> the runs of words to initialize
  zeros,                 \* memory -> the runs to clear
  table,                 \* what output_init_data writes
  s_size, s_scnptr, s_lnnoptr, delta,    \* new_hdr and delta_section_ptr of a section
  delta_symptr, delta_section_ptr, next_section_ptr, init_section_pointer,
  f_symptr,
  out,                   \* output_fd
  aux, adjust, moved,    \* the flags of the symbol loop, the entries whose AUX_LINEPTR it moved
  inits,                 \* the word written last: its place and its value
  input, output,         \* the files of the two names
  exit                   \* exit status, "running" before

sizes   == <<s_size, s_scnptr, s_lnnoptr, delta>>
lists   == <<init_base, zeros, table>>
offsets == <<delta_symptr, delta_section_ptr, next_section_ptr, init_section_pointer, f_symptr>>
symbols == <<aux, adjust, moved>>
files   == <<input, output, exit>>
vars    == <<pc, i, exe, inplace, lists, sizes, offsets, out, symbols, inits, files>>

Memory == {"dm", "pm"}
sect   == exe.sect
Sect   == 1 .. Len(sect)

\* What the headers of the input say.
WordSize(s) == IF sect[s].pm THEN PM ELSE DM
OldSize(s)  == Len(sect[s].words) * WordSize(s)
\* The sums of the first 0, 1, ... of some sizes.
Sums(size) ==
  LET sum[k \in 0 .. Len(size)] == IF k = 0 THEN 0 ELSE sum[k - 1] + size[k]
  IN sum
Total(size) == Sums(size)[Len(size)]

HeadersSize == FILHSZ + SCNHSZ * Len(sect)
OldSizes    == [s \in Sect |-> OldSize(s)]
OldData(s)  == HeadersSize + Sums(OldSizes)[s - 1]
OldScnptr(s) == IF OldSize(s) = 0 THEN 0 ELSE OldData(s)
OldLines    == HeadersSize + Total(OldSizes)
Lines       == [s \in Sect |-> sect[s].lines * LINESZ]
OldLnnoptr(s) == IF Lines[s] = 0 THEN 0 ELSE OldLines + Sums(Lines)[s - 1]
OldSymptr   == OldLines + Total(Lines)

Init ==
  /\ pc = "scan" /\ i = 1
  /\ exe \in Inputs /\ inplace \in BOOLEAN
  /\ init_base = [m \in Memory |-> <<>>] /\ zeros = [m \in Memory |-> <<>>]
  /\ table = <<>>
  /\ s_size = [s \in Sect |-> OldSize(s)] /\ s_scnptr = [s \in Sect |-> OldScnptr(s)]
  /\ s_lnnoptr = [s \in Sect |-> OldLnnoptr(s)] /\ delta = [s \in Sect |-> 0]
  /\ delta_symptr = 0 /\ delta_section_ptr = 0 /\ next_section_ptr = 0
  /\ init_section_pointer = 0 /\ f_symptr = OldSymptr
  /\ out = <<>>
  /\ aux = FALSE /\ adjust = FALSE /\ moved = {}
  /\ inits = [at |-> 0, value |-> 0]
  /\ input = "old" /\ output = IF inplace THEN "none" ELSE "part"
  /\ exit = "running"

-----------------------------------------------------------------------------
(* make_standalone                                                         *)

\* Program memory inside the chip that is 16 or 32 bits wide is initialized as
\* data memory.
MemoryOf(s) == IF sect[s].pm /\ ~sect[s].narrow THEN "pm" ELSE "dm"
IsInit(s)   == sect[s].kind = "init"
InitSection == CHOOSE s \in Sect : IsInit(s)

\* MUTANT: the section is taken off the file but not off the symbol pointer.
ScanNoSymptr(s) ==
  /\ init_base' = [init_base EXCEPT ![MemoryOf(s)] = CreateInitList(@, sect[s].addr, sect[s].words)]
  /\ delta' = [delta EXCEPT ![s] = @ - s_size[s]]
  /\ s_size' = [s_size EXCEPT ![s] = 0] /\ s_scnptr' = [s_scnptr EXCEPT ![s] = 0]
  /\ UNCHANGED delta_symptr

\* create_init_list: the words of a section go to the list, the section leaves
\* the file.
ToInitList(s) ==
  /\ init_base' = [init_base EXCEPT ![MemoryOf(s)] = CreateInitList(@, sect[s].addr, sect[s].words)]
  /\ delta' = [delta EXCEPT ![s] = @ - s_size[s]]
  /\ s_size' = [s_size EXCEPT ![s] = 0] /\ s_scnptr' = [s_scnptr EXCEPT ![s] = 0]
  /\ delta_symptr' = delta_symptr - s_size[s]

\* RAM is to be initialized, but for the section of the run-time header and that
\* of the program itself.
Scan ==
  /\ pc = "scan" /\ i \in Sect
  /\ IF sect[i].kind = "ram" /\ s_size[i] # 0
     THEN ToInitList(i)
     ELSE UNCHANGED <<init_base, delta, s_size, s_scnptr, delta_symptr>>
  /\ i' = i + 1
  /\ UNCHANGED <<pc, exe, inplace, zeros, table, s_lnnoptr, delta_section_ptr, next_section_ptr,
                 init_section_pointer, f_symptr, out, symbols, inits, files>>

\* clean_list, and the file header that follows.
CleanList ==
  /\ pc = "scan" /\ i > Len(sect)
  /\ init_base' = [m \in Memory |-> Kept(init_base[m])]
  /\ zeros' = [m \in Memory |-> Zeros(init_base[m])]
  /\ table' = ZeroTable(zeros'["dm"]) \o ZeroTable(zeros'["pm"])
                \o CreateString(init_base'["dm"]) \o CreateString(init_base'["pm"])
  /\ delta_symptr' = delta_symptr + PM * Len(table')
  /\ f_symptr' = f_symptr + delta_symptr'
  /\ pc' = "headers" /\ i' = 1
  /\ UNCHANGED <<exe, inplace, sizes, delta_section_ptr, next_section_ptr, init_section_pointer,
                 out, symbols, inits, files>>

\* output_init_section stops if the table does not fit.
NewSize(s) == IF IsInit(s) THEN s_size[s] + PM * Len(table) ELSE s_size[s]
TooBig(s)  == IsInit(s) /\ Capacity * PM < NewSize(s)

\* MUTANT: what the sections in front have grown is counted twice for seg_init.
NewScnptrTwice(s) ==
  LET old == IF IsInit(s) THEN next_section_ptr ELSE s_scnptr[s]
  IN IF old = 0 THEN 0 ELSE old + delta_section_ptr

\* The data of a section begin where they did, moved by what those in front of
\* it have grown; seg_init gets its place from the section in front of it.
NewScnptr(s) ==
  LET old == IF IsInit(s) THEN next_section_ptr - delta_section_ptr ELSE s_scnptr[s]
  IN IF old = 0 THEN 0 ELSE old + delta_section_ptr

SectionHeader ==
  /\ pc = "headers" /\ i \in Sect /\ ~TooBig(i)
  /\ s_size' = [s_size EXCEPT ![i] = NewSize(i)]
  /\ delta' = [delta EXCEPT ![i] = IF IsInit(i) THEN NewSize(i) - OldSize(i) ELSE @]
  /\ s_scnptr' = [s_scnptr EXCEPT ![i] = NewScnptr(i)]
  /\ s_lnnoptr' = [s_lnnoptr EXCEPT ![i] = IF @ = 0 THEN 0 ELSE @ + delta_symptr]
  /\ delta_section_ptr' = delta_section_ptr + delta'[i]
  /\ init_section_pointer' = IF IsInit(i) THEN s_scnptr'[i] ELSE init_section_pointer
  /\ next_section_ptr' = IF s_scnptr'[i] # 0 THEN s_scnptr'[i] + s_size'[i] ELSE next_section_ptr
  /\ i' = i + 1
  /\ UNCHANGED <<pc, exe, inplace, lists, delta_symptr, f_symptr, out, symbols, inits, files>>

HeadersDone ==
  /\ pc = "headers" /\ i > Len(sect)
  /\ pc' = "data" /\ i' = 1
  /\ UNCHANGED <<exe, inplace, lists, sizes, offsets, out, symbols, inits, files>>

\* Parts are written one behind the other, the first behind the headers.
Position == IF out = <<>> THEN HeadersSize ELSE out[Len(out)].at + out[Len(out)].len
Part(from, len) == [at |-> Position, len |-> len, from |-> from]
Computed == 0

\* copy_block and output_init_data.
SectionData ==
  /\ pc = "data" /\ i \in Sect
  /\ LET copied == IF s_size[i] # 0 /\ OldSize(i) # 0
                   THEN Append(out, Part(OldScnptr(i), OldSize(i))) ELSE out
         at == Position + IF copied = out THEN 0 ELSE OldSize(i)
     IN out' = IF IsInit(i)
               THEN Append(copied, [at |-> at, len |-> PM * Len(table), from |-> Computed])
               ELSE copied
  /\ i' = i + 1
  /\ UNCHANGED <<pc, exe, inplace, lists, sizes, offsets, symbols, inits, files>>

\* end_of_data: behind the last section that has a size.
EndOfData == LET s == CHOOSE k \in Sect : OldSize(k) # 0 /\ \A l \in Sect : l > k => OldSize(l) = 0
             IN OldScnptr(s) + OldSize(s)

LineNumbers ==
  /\ pc = "data" /\ i > Len(sect)
  /\ out' = Append(out, Part(EndOfData, Total(Lines)))
  /\ pc' = "symbols" /\ i' = 1
  /\ UNCHANGED <<exe, inplace, lists, sizes, offsets, symbols, inits, files>>

\* One entry of the symbol table.  The flags say of the entry read before this
\* one whether an auxiliary entry follows it and whether it is a function's.
CopySymbol ==
  /\ pc = "symbols" /\ i <= Len(exe.syms)
  /\ moved' = IF aux /\ adjust THEN moved \cup {i} ELSE moved
  /\ aux' = (~aux /\ exe.syms[i].numaux = 1)
  /\ adjust' = (~adjust /\ exe.syms[i].fcn)
  /\ i' = i + 1
  /\ UNCHANGED <<pc, exe, inplace, lists, sizes, offsets, out, inits, files>>

\* The string table follows the symbols; then the word ___inits of seg_init is
\* made to point behind what seg_init held before.
PatchInits ==
  /\ pc = "symbols" /\ i > Len(exe.syms)
  /\ out' = Append(out, Part(EndOfData + Total(Lines), SYMESZ * Len(exe.syms)))
  /\ LET s == InitSection
     IN inits' = [at |-> init_section_pointer + (exe.inits - sect[s].addr) * PM,
                  value |-> OldSize(s) \div PM + sect[s].addr]
  /\ pc' = "close"
  /\ UNCHANGED <<i, exe, inplace, lists, sizes, offsets, symbols, files>>

-----------------------------------------------------------------------------
(* main and mem_exit                                                       *)

Rest == <<i, exe, inplace, lists, sizes, offsets, out, symbols, inits>>

\* MUTANT: the output file stays.
FatalKeeping ==
  /\ pc \in {"scan", "headers", "data", "symbols", "reopen"}
  /\ exit' = "error" /\ pc' = "stopped"
  /\ UNCHANGED <<Rest, input, output>>

\* FATAL_ERROR: the table does not fit, or a file cannot be read, written or
\* opened.  mem_exit removes the output file, unless it has the name of the input.
Fatal ==
  /\ pc \in {"scan", "headers", "data", "symbols", "reopen"}
  /\ exit' = "error" /\ pc' = "stopped"
  /\ output' = "none"
  /\ UNCHANGED <<Rest, input>>

\* SIGINT and SIGTERM at any time: no error is counted, nothing is removed.
Interrupt ==
  /\ pc # "stopped"
  /\ exit' = "interrupt" /\ pc' = "stopped"
  /\ UNCHANGED <<Rest, input, output>>

CloseOutput ==
  /\ pc = "close" /\ ~inplace
  /\ output' = "new" /\ pc' = "exit"
  /\ UNCHANGED <<Rest, input, exit>>

\* The result is in a temporary file; the input is unlinked, opened for writing
\* and written.
UnlinkInput ==
  /\ pc = "close" /\ inplace
  /\ input' = "none" /\ pc' = "reopen"
  /\ UNCHANGED <<Rest, output, exit>>

ReopenInput ==
  /\ pc = "reopen"
  /\ input' = "part" /\ pc' = "copy"
  /\ UNCHANGED <<Rest, output, exit>>

CopyBack ==
  /\ pc = "copy"
  /\ input' = "new" /\ pc' = "exit"
  /\ UNCHANGED <<Rest, output, exit>>

Exit ==
  /\ pc = "exit"
  /\ exit' = "passed" /\ pc' = "stopped"
  /\ UNCHANGED <<Rest, input, output>>

MakeStandalone == Scan \/ CleanList \/ SectionHeader \/ HeadersDone \/ SectionData
                    \/ LineNumbers \/ CopySymbol \/ PatchInits
Next == MakeStandalone \/ CloseOutput \/ UnlinkInput \/ ReopenInput \/ CopyBack \/ Exit
          \/ Fatal \/ Interrupt

Spec == Init /\ [][Next]_vars

-----------------------------------------------------------------------------
\* make_standalone has returned.
Returned == inits.at # 0
Result  == IF inplace THEN input ELSE output

\* The memory that the executable gives the program, of the sections that the
\* start-up code is to fill.
RamOf(m) ==
  UNION {{<<sect[s].addr + n - 1, sect[s].words[n]>> : n \in 1 .. Len(sect[s].words)} :
           s \in {k \in Sect : sect[k].kind = "ram" /\ MemoryOf(k) = m}}

\* Reading the table gives every word of RAM its value, in the memory it
\* belongs to, and gives no other word one, whatever runs and zeros the
\* sections hold.
Restored ==
  pc \notin {"scan", "stopped"} => Loaded(table) = [m \in Memory |-> RamOf(m)]

DataPart(s)  == {k \in DOMAIN out : out[k].from = OldScnptr(s) /\ OldSize(s) # 0 /\ out[k].len = OldSize(s)}
TablePart    == CHOOSE k \in DOMAIN out : out[k].from = Computed
LinesPart    == CHOOSE k \in DOMAIN out : k > TablePart /\ out[k].from = EndOfData
SymbolsPart  == Len(out)
Moved        == out[LinesPart].at - EndOfData

SectionPointers ==
  \A s \in Sect :
    IF s_scnptr[s] = 0 THEN DataPart(s) = {} /\ s_size[s] = 0
    ELSE \E k \in DataPart(s) :
           /\ out[k].at = s_scnptr[s]
           /\ s_size[s] = out[k].len + IF IsInit(s) THEN out[TablePart].len ELSE 0
           /\ IsInit(s) => TablePart = k + 1
LinePointers ==
  \A s \in Sect : s_lnnoptr[s] = IF Lines[s] = 0 THEN 0 ELSE OldLnnoptr(s) + Moved
SymbolPointers ==
  /\ f_symptr = out[SymbolsPart].at
  /\ moved = {k \in DOMAIN exe.syms : k > 1 /\ exe.syms[k - 1].fcn /\ exe.syms[k - 1].numaux = 1}

\* Every pointer in the output - of a section to its data and line entries, of
\* the file header to the symbols, of a function to its first line entry -
\* points to what it pointed to in the input.
PointersTrue ==
  Returned => SectionPointers /\ (delta_symptr = Moved) /\ LinePointers /\ SymbolPointers

\* "Change ___inits symbol to poin to beginning of init_block!": the word of
\* seg_init that ___inits names holds the address at which the table is loaded.
InitsPatched ==
  Returned =>
    LET s == InitSection
        data == CHOOSE k \in DataPart(s) : TRUE
    IN /\ inits.at = out[data].at + (exe.inits - sect[s].addr) * PM
       /\ inits.value = sect[s].addr + (out[TablePart].at - out[data].at) \div PM

\* What a run does to the file it is to make is what ToolRun promises: success
\* is reported of a whole result only, and an error leaves no half of one.
TR == INSTANCE ToolRun WITH file <- Result, status <- exit
ImplementsToolRun == TR!Spec
=============================================================================
