------------------------------- MODULE Layout -------------------------------
(***************************************************************************)
(* The part of pass2 (binutils/link/pass2.c) that decides where everything *)
(* goes: process_section_list, allocate and update_section_information run *)
(* one after the other on the same section lists.  The memory list and the *)
(* section list are those the architecture file describes; the input       *)
(* sections are any the object files may hold.                             *)
(***************************************************************************)
EXTENDS Integers, FiniteSets

CONSTANTS
  NMem, MemName, MemStart, MemLength, MemUninit,  \* memory_list
  NSect, SectName, SectWord,                      \* section_list
  NIn, Words, Lines, LnnoRange,                   \* the input sections
  FILHSZ, SCNHSZ, LINESZ, sflag,                  \* the object file
  MaxErrors

\* What list_add makes of the architecture file.
ASSUME MemoryAssumption ==
  /\ NMem \in Nat \ {0}
  /\ DOMAIN MemName = 1 .. NMem
  /\ MemStart \in [1 .. NMem -> Nat]
  /\ MemLength \in [1 .. NMem -> Nat]
  /\ MemUninit \in [1 .. NMem -> BOOLEAN]
  /\ \A m1, m2 \in 1 .. NMem : m1 <= m2 => MemStart[m1] <= MemStart[m2]

\* An output section may be empty; the headers of the file are not.
ASSUME LayoutAssumption ==
  /\ NSect \in Nat
  /\ DOMAIN SectName = 1 .. NSect
  /\ SectWord \in [1 .. NSect -> Nat \ {0}]
  /\ NIn \in Nat /\ Words \subseteq Nat /\ 0 \in Words
  /\ LnnoRange \in Nat \ {0} /\ Lines \subseteq 0 .. (LnnoRange - 1)
  /\ FILHSZ \in Nat \ {0} /\ SCNHSZ \in Nat /\ LINESZ \in Nat /\ sflag \in BOOLEAN
  /\ MaxErrors \in Nat \ {0}

VARIABLES
  pcP, act, inp,                                  \* process_section_list
  in_name, in_size, in_lines,                     \* the input sections
  out_sec, data_disp, line_disp,
  s_size, s_nlnno, num_output_sects,              \* the output sections
  pcA, sect, mptr, aptr, s_paddr, user_errors,    \* allocate
  live, next, addr_type, addr, size, mem_ptr, sect_ptr, addr_tail,
  pcU, uptr, section_num, in_paddr,               \* update
  s_scnptr, s_lnnoptr, file_offset, line_ptr, last_num

collecting == <<pcP, act, inp, in_name, in_size, in_lines, out_sec, data_disp,
                line_disp, s_nlnno, num_output_sects>>
allocating == <<pcA, sect, mptr, aptr, s_paddr, user_errors, live, next,
                addr_type, addr, size, mem_ptr, sect_ptr, addr_tail>>
updating   == <<pcU, uptr, section_num, in_paddr, s_scnptr, s_lnnoptr,
                file_offset, line_ptr, last_num>>
vars == <<collecting, allocating, updating, s_size>>

PS == INSTANCE ProcessSection WITH pc <- pcP
AL == INSTANCE Allocate WITH pc <- pcA
\* avail_list begins with the node of the first segment.
UP == INSTANCE UpdateSections WITH pc <- pcU, aptr <- uptr, head <- 1

Sect  == 1 .. NSect
Input == 1 .. NIn
Mem   == 1 .. NMem

Init == PS!Init /\ AL!Init /\ UP!InitResult

ProcessSectionList == PS!Next /\ UNCHANGED <<allocating, updating>>

AllocateSections ==
  /\ pcP = "done"
  /\ AL!Next
  /\ UNCHANGED <<collecting, updating>>

\* linker_exit cuts the pass short when the error limit is reached.
UpdateSectionInformation ==
  /\ pcA = "done"
  /\ UP!Next
  /\ UNCHANGED <<collecting, allocating>>

Next == ProcessSectionList \/ AllocateSections \/ UpdateSectionInformation

Spec == Init /\ [][Next]_vars

-----------------------------------------------------------------------------
Done == pcU = "done"
Bound(s) == s_paddr[s] # AL!Unbound

\* Every input section joins the first output section of its name.
FirstOfName == PS!FirstOfName

PartsOf(a) == {i \in Input : out_sec[i] = a}
\* The line entries of its parts, by their numbers in these.
LineEntries(a) == UNION {{i} \X (1 .. in_lines[i]) : i \in PartsOf(a)}

\* The line entries of the input sections tile those of the output section, and
\* s_nlnno counts them, as long as its 16 bits do: the count is not checked for
\* overflow, and an output section with more has line entries written over each
\* other.
LinesTile ==
  \A a \in Sect : Cardinality(LineEntries(a)) < LnnoRange =>
    /\ s_nlnno[a] = Cardinality(LineEntries(a))
    /\ \A i \in PartsOf(a) :
         /\ line_disp[i] + in_lines[i] <= s_nlnno[a]
         /\ \A j \in PartsOf(a) : j < i => line_disp[j] + in_lines[j] <= line_disp[i]

InputWords(i) == in_size[i] \div SectWord[out_sec[i]]
PartEnd(i)    == in_paddr[i] + InputWords(i)
SegmentsOf(s) == {mem_ptr[n] : n \in {k \in live : sect_ptr[k] = s}}

\* Input sections never share an address, unless they are in two segments that
\* the architecture file made overlap.
InputsApart ==
  Done => \A i, j \in Input :
    /\ i < j /\ Bound(out_sec[i]) /\ Bound(out_sec[j])
    /\ AL!Overlapping(in_paddr[i], PartEnd(i), in_paddr[j], PartEnd(j))
    => \E m1 \in SegmentsOf(out_sec[i]), m2 \in SegmentsOf(out_sec[j]) :
         /\ m1 # m2
         /\ AL!Overlapping(MemStart[m1], AL!SegmentEnd(m1), MemStart[m2], AL!SegmentEnd(m2))

\* Every input section of a bound output section lies in the segment that the
\* output section was bound in.
InputsInSegment ==
  Done => \A i \in Input : Bound(out_sec[i]) =>
    \A m \in SegmentsOf(out_sec[i]) :
      MemStart[m] <= in_paddr[i] /\ PartEnd(i) <= AL!SegmentEnd(m)

\* Input sections are put where they belong and nowhere twice.
InputsPlaced == InputsApart /\ InputsInSegment

\* When no section was refused, the section numbers are 1 .. f_nscns without a
\* gap: the headers can be written in order of number.  They are in address order
\* unless a segment begins inside one that is before it on memory_list.
NumbersInAddressOrder ==
  Done /\ user_errors = 0 =>
    /\ {section_num[s] : s \in Sect} = 1 .. num_output_sects
    /\ \A s, t \in Sect :
         section_num[s] < section_num[t] /\ s_paddr[t] < s_paddr[s] =>
           \E m1 \in SegmentsOf(s), m2 \in SegmentsOf(t) :
             m1 < m2 /\ MemStart[m2] < AL!SegmentEnd(m1)

HeadersEnd == FILHSZ + SCNHSZ * num_output_sects
LinesEnd(s) == s_lnnoptr[s] + s_nlnno[s] * LINESZ

\* In the object file the headers, the raw data of the sections and their line
\* entries are disjoint, and all of them precede the symbol table; the data of
\* an input section is written inside the raw data of its output section.
FileRegionsApart ==
  Done =>
    /\ \A s \in Sect : s_scnptr[s] # 0 =>
         /\ HeadersEnd <= s_scnptr[s] /\ s_scnptr[s] + s_size[s] <= file_offset
         /\ \A t \in Sect \ {s} : s_scnptr[t] # 0 =>
              s_scnptr[s] + s_size[s] <= s_scnptr[t] \/ s_scnptr[t] + s_size[t] <= s_scnptr[s]
    /\ \A s \in Sect : s_lnnoptr[s] # 0 =>
         /\ file_offset <= s_lnnoptr[s] /\ LinesEnd(s) <= line_ptr
         /\ \A t \in Sect \ {s} : s_lnnoptr[t] # 0 =>
              LinesEnd(s) <= s_lnnoptr[t] \/ LinesEnd(t) <= s_lnnoptr[s]
    /\ \A i \in Input : s_scnptr[out_sec[i]] # 0 =>
         data_disp[i] + in_size[i] <= s_size[out_sec[i]]

\* "This routine finds if a segment is declared UNINIT": a section is left
\* without data exactly if the segment it is bound in is declared UNINIT, as long
\* as all segments of those eight characters are declared alike.
UninitAsDeclared ==
  Done => \A i \in Input :
    in_size[i] > 0 /\ Bound(out_sec[i]) =>
      \A m \in SegmentsOf(out_sec[i]) :
        (\A k \in Mem : MemName[k] = MemName[m] => MemUninit[k] = MemUninit[m]) =>
          (MemUninit[m] <=> s_scnptr[out_sec[i]] = 0)
=============================================================================
