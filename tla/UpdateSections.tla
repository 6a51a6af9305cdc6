--------------------------- MODULE UpdateSections ---------------------------
(***************************************************************************)
(* update_section_information of binutils/link/update.c: a walk over       *)
(* avail_list in address order that numbers the bound sections, gives      *)
(* their input sections addresses and lays out the object file -- headers, *)
(* raw data, line entries, symbol table.  One action is one node.          *)
(***************************************************************************)
EXTENDS Integers

CONSTANTS
  NSect, SectName, SectWord, NIn,   \* as in ProcessSection
  NMem, MemName,                    \* as in Allocate
  MemUninit,                        \* segment -> declared UNINIT
  FILHSZ, SCNHSZ, LINESZ,           \* sizes of the records of the file
  sflag                             \* -s was given: no line entries

Sect  == 1 .. NSect
Input == 1 .. NIn
Mem   == 1 .. NMem
NIL   == 0

VARIABLES
  pc,                                 \* where control is
  aptr,                               \* addr_ptr
  head, next, addr_type, sect_ptr,    \* avail_list, which is only read
  out_sec, data_disp, in_size, num_output_sects, s_nlnno, s_paddr,  \* read
  s_size,                             \* cut to 0 for an UNINIT segment
  section_num, in_paddr,              \* what the walk determines
  s_scnptr, s_lnnoptr,                \* offsets in the object file
  file_offset, line_ptr,              \* the running offsets
  last_num                            \* section_num of the code: last number

result == <<s_size, section_num, in_paddr, s_scnptr, s_lnnoptr>>
given  == <<head, next, addr_type, sect_ptr, out_sec, data_disp, in_size,
            num_output_sects, s_nlnno, s_paddr>>
vars   == <<pc, aptr, given, result, file_offset, line_ptr, last_num>>

\* segment_uninit: the first segment, in address order, with these characters.
SegmentUninit(name) ==
  LET m == CHOOSE m \in Mem : /\ MemName[m] = name
                              /\ \A k \in Mem : MemName[k] = name => m <= k
  IN  MemUninit[m]

InitResult ==
  /\ pc = "start" /\ aptr = NIL
  /\ section_num = [s \in Sect |-> 0]
  /\ in_paddr = [i \in Input |-> 0]
  /\ s_scnptr = [s \in Sect |-> 0]
  /\ s_lnnoptr = [s \in Sect |-> 0]
  /\ file_offset = 0 /\ line_ptr = 0 /\ last_num = 0

\* Raw data starts behind the file header and the section headers.
Start ==
  /\ pc = "start"
  /\ file_offset' = FILHSZ + SCNHSZ * num_output_sects
  /\ aptr' = head
  /\ pc' = "sections"
  /\ UNCHANGED <<given, result, line_ptr, last_num>>

PartsOf(s) == {i \in Input : out_sec[i] = s}

\* The assembler sets s_scnptr of a section of an object file if it has words.
HasData(i) == in_size[i] > 0

\* MUTANT: only the input sections are asked for data, not the segment.
HasRawDataUninit(s) == \E i \in PartsOf(s) : HasData(i)

\* The section is written to the file: an input section has data for it, and
\* its segment is not UNINIT.
HasRawData(s) ==
  /\ \E i \in PartsOf(s) : HasData(i)
  /\ ~ SegmentUninit(SectName[s])

SizeAfter(s) == IF SegmentUninit(SectName[s]) THEN 0 ELSE s_size[s]

\* MUTANT: the raw data of a section is not counted into the offset.
OffsetAfterStuck(s) == file_offset

OffsetAfter(s) == IF HasRawData(s) THEN file_offset + s_size[s] ELSE file_offset

\* MUTANT: displacements are taken for words.
PartAddressBytes(i, s) == s_paddr[s] + data_disp[i]

PartAddress(i, s) == s_paddr[s] + data_disp[i] \div SectWord[s]

\* MUTANT: only the sections with raw data are numbered.
NumberAfterData(s) == IF HasRawData(s) THEN last_num + 1 ELSE last_num

NumberAfter(s) == last_num + 1

Allocated == pc = "sections" /\ aptr # NIL /\ addr_type[aptr] = "allocated"

\* First loop, at the node of section s.
UpdateSection ==
  LET s == sect_ptr[aptr] IN
  /\ Allocated
  /\ last_num' = NumberAfter(s)
  /\ section_num' = [section_num EXCEPT ![s] = NumberAfter(s)]
  /\ in_paddr' = [i \in Input |-> IF i \in PartsOf(s) THEN PartAddress(i, s)
                                                      ELSE in_paddr[i]]
  /\ s_size' = [s_size EXCEPT ![s] = SizeAfter(s)]
  /\ s_scnptr' = [s_scnptr EXCEPT ![s] = IF HasRawData(s) THEN file_offset ELSE 0]
  /\ file_offset' = OffsetAfter(s)
  /\ aptr' = next[aptr]
  /\ UNCHANGED <<pc, given, s_lnnoptr, line_ptr>>

SkipFree ==
  /\ pc \in {"sections", "lines"} /\ aptr # NIL /\ addr_type[aptr] = "free"
  /\ aptr' = next[aptr]
  /\ UNCHANGED <<pc, given, result, file_offset, line_ptr, last_num>>

\* Line entries start behind the raw data; the second loop starts over.
StartLines ==
  /\ pc = "sections" /\ aptr = NIL
  /\ line_ptr' = file_offset
  /\ aptr' = head
  /\ pc' = "lines"
  /\ UNCHANGED <<given, result, file_offset, last_num>>

UpdateLines ==
  LET s == sect_ptr[aptr] IN
  /\ pc = "lines" /\ aptr # NIL /\ addr_type[aptr] = "allocated"
  /\ IF ~ sflag /\ s_nlnno[s] # 0
       THEN /\ s_lnnoptr' = [s_lnnoptr EXCEPT ![s] = line_ptr]
            /\ line_ptr' = line_ptr + s_nlnno[s] * LINESZ
       ELSE UNCHANGED <<s_lnnoptr, line_ptr>>
  /\ aptr' = next[aptr]
  /\ UNCHANGED <<pc, given, s_size, section_num, in_paddr, s_scnptr,
                 file_offset, last_num>>

\* symbol_table_origin is what line_ptr has come to.
Finish ==
  /\ pc = "lines" /\ aptr = NIL
  /\ pc' = "done"
  /\ UNCHANGED <<aptr, given, result, file_offset, line_ptr, last_num>>

Next ==
  Start \/ UpdateSection \/ SkipFree \/ StartLines \/ UpdateLines \/ Finish
=============================================================================
