# A verification of the ADSP-21xxx linker and PROM splitter

This directory holds TLA+ models of the linker in `src/binutils/link`, of the
PROM splitter in `src/binutils/ldr`, and of the command of the compiler driver
that runs the two, the TLC configurations that check them, and proofs for the
TLA+ proof system. It is
meant to be kept beside the code: every definition that models code is listed
under `map` in `PROJECT.json` with the lines it stands for.

The repository is the GNU tool chain for Analog Devices' SHARC processors: a
port of GCC (`src/gcc`, vendored) and the COFF tools written for it
(`src/binutils`). The linker is where the tool chain's own logic is: it decides
which object files take part, where every section goes, and what address every
symbol has. A wrong decision is a program that loads and misbehaves. All of it
is sequential C over linked lists, global counters and COFF records; only a
signal may come at any time. The hazards are of another kind: lists spliced in the wrong
order, counters that two branches must keep equal, search loops that depend on
an invariant set up in another file, integers that are narrower than what they
count, and errors after which the program goes on.

## Inventory

| Component | State | Operations | Hard about it | What makes it correct |
|---|---|---|---|---|
| architecture description: `memory.c`, `list.c`, `ach_sprt.c`, `action.c` | `memory_list` (segments by address), `overlay_base`, `section_list` | `ach_segment`, `ach_overlay` (call-backs of `achparse` in `lib`), `memory`, `add_swap`, `list_add`, `memory_check`, `segment_uninit` | insertion into a list whose new member was copied from an old one; the end of a segment computed in a long | the list is ordered and has an end; overlaps are warned of; a bad OVERLAY is diagnosed |
| symbol resolution: `pass1.c`, `read_object.c`, `syms.c` | hash chains of global symbols, `unresolved`, `input_file_list` | `load_object_file`, `process_object_file`, `makesym`, `findsym`, `process_symbol_table` | the archive loop trusts a counter kept in several branches; rings that searching reorders; errors that do not stop the pass | each file bound once; the counter exact; archives exhausted; one definition per symbol or no output |
| section collection: `process_section.c` | `out_sec`, `data_disp`, `line_disp` of the input sections; the output sections' sizes | `process_section_list`, `add_input_section`, `check_input_sections` | order of update and use of the running sizes; names compared by eight characters | input sections tile their output section; each is in exactly one |
| section allocation: `allocate.c` | `avail_list` of ADDRESS nodes with a head and a tail per segment | `allocate`, `allocate_address_space`, `allocate_section_to_memory`, `allocate_check_memory`, `allocate_adjust_memory`, `allocate_it` | the split of a node; the walk that stops at the first free node | sections disjoint and inside their segments; refused only when there is no room |
| update and file layout: `update.c` | section numbers, input addresses, file offsets | `update_section_information`, `update_symbol_information` | bytes against words; UNINIT looked up by name a second time | numbers in address order; file regions disjoint |
| slot vector: `slotvec.c` | an array of slots, `sv_high_slot` (16 bits), `sv_high_index` | `slotvec_create`, `slotvec_read` | binary search with an exclusive upper bound, and a shortcut for the last slot; state left over from the last file | a look-up finds this file's slot of the symbol, or none |
| output: `output.c`, `relocate.c`, `create_object.c` | symbol indices predicted by pass 1 and update; the relocation buffer | `output_object`, `output_local_symbols`, `output_global_symbols`, `relocate_section`, `output_line_numbers` | indices predicted in one pass and written in another; addresses that cross a chunk of the buffer | each symbol is written where its index says; each byte once, relocations on the right bytes |
| errors and exit: `error.c`, `tempio.c`, `main.c` | `user_errors`, `linker_errors`, the names of temporary files | `user_error`, `linker_error`, `fatal_linker_error`, `check_if_errors`, `temp_file_create`, `interrupt_handler`, `linker_exit` | which errors stop the pass, and which change the exit status; a signal in between | no output file after an error, no temporary files |
| memory map: `memory_map.c` | a report | formatting | - | - |
| options: `process_args.c` | flags | option parsing | - | - |
| library: `lib` | none of its own | COFF records, byte order, grammar of the architecture file | - | - |
| assembler: `asm` | sections, symbols, relocations over two passes | directives, expressions, object output | sizes that must agree between the passes | addresses of pass 1 hold in pass 2 |
| PROM splitter `mem21k`: `ldr` | runs of words to initialise and to clear; what each section and pointer of the file is moved by | `create_init_list`, `clean_list`, `output_init_section`, `output_init_data`, `make_standalone`, `mem_exit` | counts of 16 bits; sections that leave the file and one that grows, in any order; the input replaced in place | reading the table gives RAM back; every pointer of the new file is true; no half of a file on success |
| preprocessor, drivers, dump and patch tools: `app`, `cdump`, `modify` | - | text and file processing | - | - |
| compiler driver: `gcc/g21k/gcc.c` | exit status of each command, files to delete | `do_spec`, `execute`, `delete_temp_files` | the linker may report success after errors | success only with an executable made of a faultless link |
| compiler: the rest of `src/gcc` | - | - | vendored | - |

They interact through global lists, in one direction. `main` parses the
options; `pass1` has the architecture file parsed (call-backs fill
`memory_list` and `section_list`), then loads the files of the command line,
which fills `input_file_list` and the symbol table. Unless there was an error,
`pass2` calls `memory_check`, `process_section_list`, `allocate`,
`update_linker_information` and `output_object`. Each of these relies on what
the ones before left in the lists. `section_list` names the segments a second
time, in the order of the directives, and by the first eight characters only,
while `memory_list` is in the order of the addresses: several of the limits
named below come from this pair.

The compiler driver runs `ld21k` into a file `.lnk`, then, if that returned 0,
`mem21k`, which reads it, moves the contents of RAM sections to a table behind
the section `seg_init`, and writes the executable; `.lnk` is deleted at the end.
The start-up code of the target reads the table. It is not in the repository.

`PROJECT.json` lists under `hazards` each place where this bites, with the
properties that would catch it.

## The modules

| Module | Models | How state and actions correspond |
|---|---|---|
| `Allocate` | `allocate.c` | ADDRESS nodes are numbers, the fields of a node functions over them. One action is one test of a loop: next section, name test, the walk over taken nodes, exact fit, split. |
| `SegmentSpace` | what `allocate.c` promises | per segment the words left; a section goes to the first segment of its name with room, or is refused. No code corresponds to its variable `room`. |
| `Allocate_proofs` | - | proofs about `Allocate` |
| `ProcessSection` | `process_section.c` | one action is one test of the inner loop. Input sections are numbered in the order of the files. |
| `UpdateSections` | `update_section_information` | one action per node of `avail_list`, in each of its two walks |
| `Layout` | `pass2` up to the layout of the file | instantiates the three modules above over shared variables: `ProcessSection`, then `Allocate`, then `UpdateSections` |
| `Layout_proofs` | - | proofs about `Layout`, and with it about `ProcessSection` and `UpdateSections` |
| `ArchMemory` | `memory.c`, `list_add`, `ach_segment`, `ach_overlay` | MEMORY structures are numbers; one action is one test of a walk. Addresses and lengths are unsigned longs; the signed longs that carry them are converted back before they are compared (`memory.h:12`). |
| `ArchMemory_proofs` | - | proofs about `ArchMemory` |
| `LinkSymbols` | `makesym`, `findsym`, `process_object_file`, `load_object_file`, file loop of `pass1` | one action per symbol entry, per entry of an archive directory, and per test of a loop. Symbol entries are of five kinds by what `n_scnum` and `n_value` say. |
| `LinkSymbols_proofs` | - | proofs about `LinkSymbols` |
| `SlotVec` | `slotvec.c`, with the loop of `output_local_symbols` that fills it and the look-ups of `relocate_section` and `output_line_numbers` | one action per symbol and per round of the binary search; `sv_high_slot` wraps |
| `Relocate` | `relocate_section`, and `output_section`, which copies a section without entries | one action per entry and per chunk. A byte is its position in the input section and how often it was relocated; the buffer and the object file are functions to bytes. |
| `Relocate_proofs` | - | proofs about `Relocate` |
| `OutputSymbols` | `process_symbol_table`, `update_symbol_information`, `output_local_symbols`, `output_global_symbols`, `output_update_file_entry` | one action per entry or symbol. A symbol table is a sequence in which an auxiliary entry is an element; what is written is which entry it is, and the numbers in it. |
| `OutputObject` | `output_process_input_files` | joins `OutputSymbols` and `SlotVec`, whose variables are disjoint: a symbol that is written and the slot made for it are one step; then the entries of the file ask the vector, before the next file is begun |
| `OutputObject_proofs` | - | proofs about `OutputSymbols`, `SlotVec` and `OutputObject` |
| `LinkRun` | the whole of `ld21k` by its files, errors and exits: `main.c`, `pass1.c`, `pass2.c`, `tempio.c`, `error.c` | `pc` is the call that `main`, `pass1`, `pass2` or `output_object` is in; a call may report any error it has a statement for. Making a temporary file and counting it are two steps. |
| `InitList` | `creat_list.c`, `clean_list.c`, `output_zero_data` | operators: runs of words, runs of zeros cut into pieces, blocks; and the reader of the table, which is external |
| `Standalone` | `make_standalone`, and the end of `main.c` and `error.c` of `ldr` | one action per section of each of the loops, and per symbol; the new file is the sequence of parts written, each with where it came from |
| `ToolRun` | what `mem21k` promises of its file | four states of the file and the exit status; no code corresponds to it |
| `Standalone_proofs` | - | proofs about `Standalone` and `InitList` |
| `Build` | the last command of the compiler driver | instantiates `LinkRun`, and `ToolRun` for `mem21k` |
| `Build_proofs` | - | proofs about `Build` and `LinkRun` |

`MC*` modules give the constants values for TLC. Definitions marked `MUTANT`
are variants of a definition with a plausible mistake. No specification uses
them; each shows that a property can fail.

What the models abstract:

- Names are model values or strings, compared whole or by their first eight
  characters as the code does (`MemName`/`SectName` stand for the eight
  characters; `ArchMemory` has both, `Name` and `Key`).
- Sizes are numbers of words that are turned into bytes by the word size of the
  memory type, which is what `process_section_list` and `allocate` convert.
- Symbol tables hold global symbols. Auxiliary entries, local symbols and the
  checks of compiler models are left out of `LinkSymbols`; in `SlotVec` an
  auxiliary entry is an entry without slot.
- `Relocate` takes sections whose entries are in the order of the words, at most
  one to a word, as `make_reloc` of the assembler writes them one per
  instruction or variable; the linker relies on that and does not test it.
  Which value is added to an address is a matter of the slot vector.
- `OutputSymbols` takes links in which each name is defined once (others stop
  before pass 2), undefined references have no function type, as `asm` writes
  them, no symbol of eight characters or less that is undefined or absolute
  begins with a dot (`update.c:214` gives it no number), and classes `C_HIDDEN`
  do not meet `-x`. Tags and functions come before the globals, as
  `dump_symbols` of `asm` writes them. Links under `-s` write no symbols.
  `LinkAssumption` says all this of a symbol table: an auxiliary entry stands
  behind its symbol, a tag or an end names an entry with no variable in front
  of it, under a tag there are members only, and no function is inside another.
  Storage classes are grouped as `output.c:577-597` groups them (`var`, `field`,
  `block`, `other`); of a type the model knows whether it is a function's (`fcn`)
  and whether it is a structure's (`agg`). Only where these set `reloc_tag` and
  `reloc_end` (`RelocTag`, `RelocEnd`) is a tag or an end moved (`Moved`);
  elsewhere the same fields hold the length of a section or the dimensions of an
  array, and stay. `LinkAssumption` says by class and type which entries have a
  tag and which an end (`HasTag`, `HasEnd`), as `asm` writes them. A static
  symbol with an auxiliary entry is in a section.
- In `LinkRun` a pass does no more than report or go on; what it computes is
  in the other modules. `ToolRun` stands for `mem21k` in `Build`. The arguments
  come in any order; the order decides whether `output_file_name` is known when
  one of them is an error. One name stands for every `-o`. `create_c_object`
  adds its file to `file_names` without a test of room (`create_object.c:164`);
  `LinkRun` goes on as if there were room.
- `InitList` tells a data word by one number, 0 if it is zero.
- `Standalone` takes executables as `Layout` lays them out: data, line entries
  and symbols one behind the other, with a section `seg_init`.
- `rflag` is 0 throughout: its option is disabled in `process_args.c:124`.
  `aflag` is 1.
- Memory that runs out and files that cannot be read end the link at once;
  `LinkRun` and `Standalone` have them as fatal errors, the other modules leave
  them out.

## The runs

All runs enumerate every initial state and every behaviour within their bounds;
no symmetry is used.

| Run | Instance | What it shows |
|---|---|---|
| `allocate` | four segments, two of one name and an overlay at another's address; four sections of 0..4 words | The inductive invariant `IInv` (which contains the type invariant and that the walk stays in its segment) holds. Sections are disjoint and inside their segments, a section is refused only when no segment of its name has room, the search ends, and the whole implements `SegmentSpace`. |
| `layout` | four segments, two of one name, one UNINIT, one that begins inside the one before it; four ACTIONs, two of the same eight characters; three input sections of any name, 0..2 words, 0 or 3 lines; line counts modulo 8 | The composition of collection, allocation and update: every input section joins the first output section of its name, line entries tile as long as 16 bits suffice, input sections have disjoint addresses in their segments, section numbers have no gap and follow addresses except between the two segments that overlap, the regions of the object file are disjoint, UNINIT segments have no data. |
| `arch_memory` | up to three directives; four names, of which two agree in eight characters; ranges below, across and above the sign bit of an unsigned long of 3 bits, one of them up to its last address, an empty one, and all addresses; both processor families | `memory_list` is ordered unless three segments begin at the highest address; overlaps are warned of, within the limits named below; reading and checking ends. |
| `memory_order` | the same | *violation*, see below |
| `link_symbols` | three names in two chains; an object file, an archive of two members given twice, an object file between, the first object file given again; every assignment of symbol tables of a few entries; one file may have a section that is rejected; a symbol table that overflows; two user errors allowed | Chains are rings with each name once, `unresolved` is exact, archives are exhausted, files bound once, duplicates stop the link, a defined symbol has its section in pass 2, the table has room for each symbol, the first definition stays, pass 1 ends. |
| `slot_vector` | two files of up to five symbols; a slot counter modulo 4, so that it can wrap | Exact look-ups, and an end to every search, also in a vector without slots or overrun. |
| `relocate` | sections of up to four words of either memory, every set of entries; buffers of 8, 9, 11 and 24 bytes | The window invariant `IInv`; every byte is written once and in its place, exactly the address bytes are relocated, once each; the section comes to an end. |
| `output_object` | three files, the second of which may be empty, each with or without `.file`, a tag with a member or variable of a structure's type, a static or global function with a block, a static with the length of a section or one of a structure's type, and references to functions and a tagged variable of the others; with and without `-x`; a slot counter modulo 6 | The number in each slot is where its symbol is then written; tags and ends name what they named, and lengths and dimensions in the same place stay; `.file` entries form a chain to the first global; the counts of pass 1 and update are what is written. Each entry of each file looks up each symbol of its table: it gets the slot whose number that is, or none if the symbol has no slot. |
| `standalone` | four sections: one kept, `seg_init`, and RAM or kept sections in any order and memory, next to each other or apart, with six images of words; counts modulo 8, blocks closed beyond 2 words, zeros in pieces of 7 | Reading the table gives RAM back, all pointers of the new file are true, `___inits` leads to the table, and the run is one that `ToolRun` allows. |
| `standalone_first` | `seg_init` is the first section with data | *violation* |
| `build` | two files, up to three user errors and two linker errors, in any call that reports them; a signal at any step of `ld21k`; any run of `mem21k` | After an error no output file, but for one of an earlier run whose name was not known yet, and half of one only after a signal; no temporary file but one a signal caught uncounted; the driver succeeds only with an executable of a faultless link, or, with `-h`, of a `.lnk` file that was there before, and deletes the `.lnk` file. |
| `link_exit` | the same | *violation* |

Why the bounds are enough to be of interest: the splicing of the allocator
shows with two sections in one segment and a third behind them; a list goes
wrong, if at all, with three members (the ring of `memory_order` needs exactly
three); archive search needs a member that pulls in an earlier one, and a
second search of the same archive; the binary search is at its edges with one
to four slots; with words of 5 and 6 bytes, buffers of 8, 9 and 11 bytes end in
front of an address, behind it and in each of its bytes, three times in a
section, and one of 24 holds it whole, as in a build that is not for MSDOS
(`output.c:187`). The widths that matter are scaled down together with what they
count: an unsigned long of 3 bits with addresses of 3 bits, a line counter modulo 8 with
inputs of 3 lines, a slot counter modulo 4 with 5 symbols. Each of them is a
constant, so the proofs are for any width.

The three files of `output_object` are the least with a file between two others
that has no `.file` entry or no symbol at all, where the chain is corrected; the
images of `standalone` have a run of zeros cut in two pieces, blocks closed by
length and by a gap, and a run of two zeros that is too short to be cleared.

`CHECK_DEADLOCK FALSE` is given where the program ends: when the list is
worked off, at `linker_exit` or `mem_exit`, or at a crash.

### Fairness

The linker is one sequential process that waits for nobody: as long as a step
is possible, it is taken. That is weak fairness of `Next`. In `SlotVec` only
the rounds of the search are fair, since the environment, not the code, decides
how many symbols and entries a file has. `Terminates` and `SearchEnds` depend
on nothing else.

## Findings

Each is a run that is expected to violate one property that the sources state.

- **`memory_order`**: `list_add` (`list.c:117`) appends a member without
  clearing its `mem_next`, and `add_swap` made that member by copying a segment.
  An overlay that is the third segment of the highest start address closes
  `memory_list` into a ring. `OrderedBelowTop`, checked in `arch_memory`, says
  that nothing less than this breaks the order.
- **`standalone_first`**: `make_standalone` gives `seg_init` the place behind the
  section in front of it that has data (`standalone.c:208`); if there is none,
  its pointer stays 0 and the word for `___inits` (`standalone.c:287`) is written
  over the headers. In the other runs a section of the kind `kept` comes first,
  as the run-time header `seg_rth` does.
- **`link_exit`**: `main` ends with `linker_exit(PASSED)` (`main.c:151`) after
  errors of the second pass that are not fatal, with the output file removed
  and the message "No executable has been produced". `build` shows that this
  does not deceive the driver: `mem21k` then fails for want of its input.

## Known limits

What passing runs leave out, because the code does not hold there:

- Two segments whose names agree in eight characters and of which only one is
  UNINIT: `segment_uninit` (`memory.c:293`) answers for the first.
  `UninitAsDeclared` speaks of segments whose namesakes are all declared alike.
- Section numbers are given along `avail_list`, which is in the order of the
  segments' starts: of two segments of which one begins inside the other, the
  sections of the second have the higher numbers, and may have lower addresses.
  `NumbersInAddressOrder` leaves such pairs out; `memory_check` warns of them.
- A segment that ends at the last address of an unsigned long: `memory.c:126`
  computes its end as 0, and an overlap with a segment behind it is missed.
  `OverlapWarned` leaves such a segment in front out (`BelowTop`).
- On the Z family `memory_check` does not warn if the second of two neighbours
  is an overlay (`memory.c:131`). An overlay that lies between two segments
  which overlap each other hides that only if its own segment does not give it
  away: it is found by the first eight characters of its name, which another
  segment may have, and an empty segment overlaps nothing. With four directives
  an overlap is then missed. There `OverlapWarned` speaks of
  descriptions whose names differ in eight characters, without empty segments
  or one that ends at the last address (`PlainMemory`), and not of overlays themselves; on the other processors of
  every two structures. It is the proof that needed this: with the three
  directives of the run nothing hides.
- An OVERLAY of a segment that is not on the list reads through NULL
  (`memory.c:309` compares before it tests the pointer): `ArchMemory` ends in
  `pc = "crash"`.
- A symbol with value but without section is not counted as unresolved
  (`syms.c:256`), yet its definition counts one down (`syms.c:297`), so that an
  archive may be left before it is exhausted. `link_symbols` has no such symbol.
- A section rejected in `read_object.c:333` leaves section numbers above
  `num_sections`, by which `output.c:352` sizes its tables; the error keeps
  pass 2 from running.
- `clean_list.c:158` closes a block only behind a run of equal words. A run that
  does not fit into the 16 bits of the count together with the words of the
  block that it continues wraps it. `Restored` is checked, and proved, where no
  count wraps (`CountsSuffice`).
- The flags of the symbol loop (`standalone.c:270`) lose track behind an entry
  with a function's type and no auxiliary entry; the symbol tables of
  `standalone` have one only where no line pointer follows it directly.
- Without `seg_init`, `make_standalone` uses variables that were never set;
  `Init_segment_ach_size` is one word less than the segment (`ach_sprt.c:61`).
- A fatal error between `unlink` and the end of the copy (`main.c:137` of `ldr`)
  leaves no file where the input was, and a signal half of one. `ToolRun` allows
  both: it forbids half a file on an error that is reported, and on success.
- Under `-x` an executable linked from objects with line entries has a hole
  between data and symbols; static functions get a wrong end (`output.c:666`),
  and so does a global one with something static in it, which is written but not
  counted (`output.c:469`). `Standalone` and `TagsFollow` leave them out
  (`EndLost`).
- An error in the arguments (`main.c:80`, `process_args.c:173`, `186`, `217`) in
  front of `-o`, or without one, leaves the output file of an earlier run:
  `linker_exit` unlinks the empty name (`error.c:390`). `OutputHonest` lets such a
  file stay, and no other.
- `-h` and a command line without a file end `ld21k` with 0 and 1 without
  `linker_exit` (`process_args.c:103`, `main.c:105`). With the 0 the driver goes
  on to `mem21k`, which an earlier `.lnk` file would satisfy; `BuildHonest` names
  this case.
- With a map file the linker closes it twice (`main.c:147`, `error.c:393`).

## What is proved

`Allocate_proofs`, for any number of segments and sections, any names,
sizes and error limit, from the assumptions named in `Allocate`
(`SegmentAssumption`, `SectionAssumption`, and `MemoryListSorted`: the segments
are numbered in address order):

- `SpecIInv`: the inductive invariant. The properties alone are not inductive:
  that sections do not overlap depends on the nodes not overlapping, which
  depends on `addr_tail` being the only free node of its segment and on node
  numbers in use being below the current section's. One lemma per group of
  actions (`CursorStep`, `SpaceStep`, `ExactFitStep`, `SplitStep`,
  `SearchStep`) shows that it is preserved; the split is the hard case.
- `TypeCorrect`, `WalkStaysInside`, `OnlyTailFree`, `SectionsContained`,
  `NoSectionOverlap` and, of the last two, `PlacementSafe` follow from it.
- `RefusalJustified` needs a second invariant, `RefusalInv`, about the segments
  the present search has passed; with `RoomShrinks` (room never grows) it is
  inductive relative to `IInv`.
- `SpaceFilled`: every step is a step of `SegmentSpace` or a stutter. It is the
  safety part of `ImplementsSpace`; the fairness of the abstract specification
  is left to TLC. An exact fit and a split fill the segment that the abstract
  allocator would choose, because the segments passed had no room (`RefusalInv`)
  and the room of a segment is the size of its tail (`OneFreeNode`).
- `ListInv`, with `InitListInv` and `ListInvKept`: what is true of `avail_list`
  without the sizes of the sections. `Layout` needs it when the update walk has
  begun to cut these sizes, and `IInv` no longer holds.

`Layout_proofs`, for any segments, section list, input sections, word sizes and
widths, from `MemoryAssumption` and `LayoutAssumption`:

- `SpecInv`: the invariant of the three components over their shared variables.
  `CollectInv` says that the parts of an output section are those collected so
  far, in order and inside its running size. `AllocateInv` has the invariants of
  `Allocate_proofs`, and `PartsInNode`: the parts of a bound section fit in its
  node, a fact of sizes that must be saved before the update walk takes the size
  of UNINIT sections away. `UpdateInv` says that the nodes the walk has passed
  are numbered, one after the other, and their sections placed in the file one
  behind the other. `CollectStep`, `AllocateStep` and `UpdateKeepsRest` say that
  a component leaves the parts of the others alone.
- `JoinsFirst`, `PlacedOnce`, `RegionsApart` and `UninitSound` follow from it at
  the end of the walk. `PlacedOnce` needs that bytes are turned into words
  part by part as in the sum (`DivSum`, `DivBound`), which does not need them
  to be multiples of the word.
- `LinesPlaced`: `LinesTile` is inductive with what the collection keeps
  (`LineInv`). That the new line entries are not among those the section has
  makes the count a sum (`EntriesAdded`), and a count below the range of the
  counter was below it before, so that it never wrapped (`LinesAdded`).
- `NumbersSound` needs, besides, that the walk has reached every bound section:
  the sections counted by the collection are those numbered, by cardinality
  (`LastNumber`).

`LinkSymbols_proofs`, for any command line, files, names, hash function and
widths, from `SymbolAssumption`:

- `TableInv` gives `TableSound`: a hash chain is a ring. The
  property says that every set that holds the head and is closed under
  `chain_id` holds all symbols of the chain, so that neither the order of the
  ring nor which of its members is the head matters; entering a symbol behind
  the head keeps it (`LinkIntoChain`).
- `SourceInv` says which loaded file a symbol's kind and section come from. It
  gives `LoadOnce`, `DuplicatesStop` and `SectionDefined`: a second definition
  has been reported, or the first one was absolute.
- `FirstStays` and `Allocated` need only the type of the table.
- `CountInv` gives `UnresolvedCounted`, and `SearchInv` with it `ArchiveDone`:
  since the last load of an archive no entry of its directory was wanted, and
  nothing has become undefined since. Both have the hypothesis `NoCommon`, that
  no file has a common symbol, because the counter is not exact with one: see
  the known limits.

`OutputObject_proofs`, for any links that `asm` can write (`LinkAssumption`), with
any number of files and symbols and any width of the counters
(`SlotAssumption`):

- `VectorInvariant`, of `SlotVec` (`VectorInv`): the slots of the file stand in the order of its
  symbols (`SlotsAscend`), the last one belongs to `sv_high_index`
  (`LastSlotKnown`), and the bounds of a search never exclude the slot it is
  after (`SearchBracket`). `GuessDivides` is the step of the binary search.
  `VectorTyped` and `VectorLookup` follow.
- `SpecIInv`, of `OutputSymbols`. The four properties speak of the finished table
  only; the invariant says of every moment of both passes that the numbers so far
  are right. The number of an entry is where the entries of its file begin and
  how many before it in the file are kept (`Number`, `Count`), that of a global
  symbol the place behind all files and what the globals before it take
  (`GlobalNumber`, `Units`). These are cardinalities of sets of entries and not
  sums along a table, so that a step of a loop changes them by one or two
  (`CountStep`, `UnitsStep`) and no induction over data is needed. What pass 1
  has counted is `Count` of what it has read (`LocalCounts`); a symbol of the
  global table has what its definition says, wherever that is and whichever files
  referred to it before (`TableDefined`), and after the update the number at
  which it will be written (`GlobalNumbers`); in pass 2 what is passed and kept
  stands at its number, and nothing else (`LocalsWritten`, `GlobalsWritten`).
  There is one lemma per action (`ProcessEntryKeeps` to `FinishUpKeeps`); those
  of pass 2 share `WriteLocals` and `SkipLocals`, for an entry written and one
  left out.
- `Chain`, a part of it, is about the guess in a `.file` entry: all but the last
  one are right, the last one has `nextfile` or is behind it, and `nextfile` is
  never beyond where the next file begins. This last fact was missing from the
  first form of the invariant, which was not inductive: the
  `.file` entry of the last file makes no guess of its own, and the one left over
  from the file before must not pass for it.
- `SpecCountsAgree`, `SpecSlotsName`, `SpecFileChain` and `SpecTagsFollow` follow
  from it in the finished table. `SpecTagsFollow` needs that a line is found by
  which entry it is: `NamesApart` says that no two entries have the same name. What is moved is a
  tag or an end, and a number that is neither stays, because the guards of the
  code select just the entries that have one (`RelocGuards`, `MovedShape`).
- `OutputImplements`: the composition implements both of its parts, step by step,
  so that the theorems above are theorems about it. `SpecTogether` ties the two:
  the vector is at the file that is written, and the symbols it has a slot for
  are those of the slots made. With `VectorLookup`, `SpecLookupNames` follows: a
  relocation or line entry gets the new number of the symbol it names, which
  by `SpecSlotsName` is where that symbol is written.

`Relocate_proofs`, for any section, entries and buffer of at least eight bytes,
from `BufferAssumption`:

- `SpecIInv`: the buffer is a window on the section (`Window`): what is in front
  of it was written and is final (`Written`), what is behind it was not read,
  and in it exactly the entries below `num_read` are done. That a chunk may be
  given to the file needs that no address still to come begins in it (`Ahead`);
  that what is read is fresh needs that none relocated so far goes beyond it
  (`Behind`). `PartialAddressIInv` is the hard step: an address cut by the end
  of the buffer, whose head is moved to the front with bytes that may have been
  relocated already.
- `RelocationCorrect` and `AddressStaysInBuffer` follow from it.

`Standalone_proofs`, for any executables, widths and capacity, from
`InitListAssumption` and `ExecutableAssumption` (one section is `seg_init`, it is
not empty, and of the symbol entries no auxiliary one announces another):

- `RunImplemented`: every run of `mem21k`, in place or not, is a run of
  `ToolRun`. The invariant `FileInv` says which of the two files has which
  contents by where control is; the steps of `make_standalone` touch neither
  (`MakeStandaloneStep`), those of `main` and `mem_exit` are steps of `ToolRun`
  (`MainStep`).
- `PointersKept` and `TableFound`, if some section with words in front of
  `seg_init` stays in the file (`HeaderFirst`; `standalone_first` shows what
  happens otherwise). The invariant `PointerInv` follows the program through its
  loops by sums of sizes: while sections are scanned, `delta_symptr` is the sum
  of what has left the file; while headers are written, `delta_section_ptr` is
  the difference between the new and the old place of the section at hand, and
  `next_section_ptr` the end of the last one that has data (`HeaderStep`); while
  data are written, the parts of the file are those of the sections passed, each
  where its header says (`DataStep`). What the symbol loop moves is told from the
  entries passed (`SymbolStep`). In the end `Whole` has each part of the file
  with its place, from which the properties follow (`WholePointers`); that a
  part is found by where it came from needs that parts of the old file do not
  begin in one place (`OldApart`).
- `TableRestores`: reading the table gives RAM back, as long as the words that
  stand together in a block can be counted by an unsigned short
  (`CountsSuffice`, a condition on the words of the executable; every state of
  the run `standalone` meets it). The invariant `TableInv` follows the lists
  through the scan: the lists cover the words of the sections passed. The count in front of
  a block is that of its words (`WordsCounted`), the closed blocks stand in the
  table one behind the other (`ClosedStands`), and reading them covers what the
  lists cover (`ZerosRead`, `BlocksRead`, `TableRead`). It does not
  need `HeaderFirst`.
- They rest on lemmas about the operators of `InitList`: the runs made of a
  section cover its words (`Created`), runs of zeros and the others share these
  between them (`Cleaned`), and the table is made of words of program memory.
  The recursive functions are unfolded by `Recursion`, which is proved by an
  induction over a range of numbers; that in turn is the principle of the least
  number (`LeastNumber`), applied to a set of numbers, so that no theorem with
  an operator parameter is needed.

`Build_proofs`, for any number of files and errors, from `BuildAssumption`:

- `IInv` of `LinkRun` ties the output file to where control is, and the
  temporary files to the table of names, of which one entry more is used while
  a file is made and not counted. `LinkerExitStep` is the step to every end of
  the run, `ArgumentsStep`, `ErrorStep` and `PassStep` cover the others. That the output
  file has a name from the architecture file on is part of `IInv`: without it an
  error of a pass could leave an earlier file. `IInv` of `Build` adds
  what the driver concludes from each exit status; `LinkRunStep` carries the
  invariant of the instance over.
- `OutputAlwaysHonest`, `TempsAlwaysRemoved` and `BuildAlwaysHonest` follow.

`ArchMemory_proofs`, for any directives, names, ranges and width of an unsigned long, from
`ArchAssumption`:

- `SpecIInv`: `memory_list` is a list of all structures in order, with the walk
  of `list_add` or the pointers of `memory_check` where they belong in it
  (`Straight`), or it has become a ring at the highest address used and stays
  one (`Ring`). The walk has passed what is not above the new structure: so
  every other is on one side of the gap (`Sides`), and put into the gap the new
  one is in its place (`Inserted`). Only an append can close a ring, and only
  with a copy whose model is at the highest address but not last
  (`StraightNext`). `Checks` says which neighbours have been compared.
- `ListOrdered` follows.
- `OverlapsWarned`: if a structure overlaps any later one of its memory type, it
  overlaps the next of that type, because starts ascend. On the Z family, let z
  be the first segment behind s that is no overlay and overlaps it. What is
  directly in front of z is s, or an overlay. In the latter case the segment m
  that this overlay copies is in front of it at the same address (`Origin`), and
  so not between s and z: it is s, whose end the overlay has, or it begins where
  s does, and what is directly in front of s overlaps s (`Neighbour`,
  `WarnedOnZ`). Without `PlainMemory` this fails: see the known limits.

Every safety property of a passing run is a theorem. Only model-checked: the
fairness in `ImplementsSpace`; and all liveness, which is out of the reach of the prover. An
induction over data is possible where the data are a range of numbers, as in
`Standalone_proofs`; `LinesTile` counts line entries as a set for this reason,
and not by a fold.

## What is not modelled

The assembler (planned in part). Of the output of the linker the string table,
the values of symbols, the headers and the line entries. The memory map,
options, dump and patch tools and the preprocessor are text processing; `lib`
is byte order and COFF records, of which the models abstract. Of the compiler,
which is vendored and makes up most of the repository's lines, only the command
of the driver that runs the linker: its passes are GNU C's, and a model of any
of them would be about GNU C and not about this tool chain. A signal to the
driver, and a second one to a tool that is ending, are left out.

## Plan

In order; all but 10 are done.

1. `Allocate`, `SegmentSpace`, with proofs: what the layout of a program rests on.
2. `ProcessSection`, `UpdateSections` and their composition `Layout`.
3. `ArchMemory`: what `Allocate` assumes of `memory_list`.
4. `LinkSymbols`: pass 1.
5. `SlotVec`, with proofs.
6. `Relocate`, with proofs.
7. `OutputSymbols`: symbol numbers predicted and written.
8. `LinkRun` and its composition `Build`, with proofs.
9. `InitList`, `Standalone` and `ToolRun`, with proofs.
10. `asm`: section sizes in its two passes.
11. `OutputObject`: a composition of `OutputSymbols` with `SlotVec`, with proofs.
