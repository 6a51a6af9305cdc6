--------------------------- MODULE ProcessSection ---------------------------
(***************************************************************************)
(* Gathering of input sections: binutils/link/process_section.c.           *)
(*                                                                         *)
(* section_list holds one ACTION per segment of the architecture file, and *)
(* each becomes one output section.  The input sections of all files that  *)
(* bear its name are strung together in it, in the order of the files on   *)
(* the command line and of the sections in a file.  Input sections are     *)
(* numbered in that order.  One action is one test of the inner loop.      *)
(***************************************************************************)
EXTENDS Integers

CONSTANTS
  NSect,     \* number of ACTIONs on section_list
  SectName,  \* ACTION -> the SYMNMLEN characters of its name
  SectWord,  \* ACTION -> bytes in a word of its memory type
  NIn,       \* number of input sections
  Words,     \* the numbers of words an input section may hold
  Lines,     \* the numbers of line entries an input section may have
  LnnoRange  \* s_nlnno is an unsigned short: it counts modulo 2^16

Sect  == 1 .. NSect
Input == 1 .. NIn
NIL   == 0

VARIABLES
  pc,                            \* where control is
  act,                           \* action_ptr1: the output section being made
  inp,                           \* input_sect_ptr
  in_name, in_size, in_lines,    \* the headers of the input sections
  out_sec,                       \* input -> the output section it is part of
  data_disp, line_disp,          \* input -> where in it, in bytes and entries of LINESZ
  s_size, s_nlnno,               \* output section -> bytes and line entries
  num_output_sects

inputs  == <<in_name, in_size, in_lines>>
outputs == <<out_sec, data_disp, line_disp, s_size, s_nlnno>>
vars    == <<pc, act, inp, inputs, outputs, num_output_sects>>

\* load_object_file keeps an input section only if section_list has its name,
\* and if its memory type is that of the first ACTION of that name.
ActionOf(name) ==
  CHOOSE a \in Sect : /\ SectName[a] = name
                      /\ \A b \in Sect : SectName[b] = name => a <= b

Init ==
  /\ pc = "collect" /\ act = 1 /\ inp = 1
  /\ in_name \in [Input -> {SectName[a] : a \in Sect}]
  /\ \E w \in [Input -> Words] :
       in_size = [i \in Input |-> w[i] * SectWord[ActionOf(in_name[i])]]
  /\ in_lines \in [Input -> Lines]
  /\ out_sec = [i \in Input |-> NIL]
  /\ data_disp = [i \in Input |-> 0]
  /\ line_disp = [i \in Input |-> 0]
  /\ s_size = [a \in Sect |-> 0]
  /\ s_nlnno = [a \in Sect |-> 0]
  /\ num_output_sects = 0

\* MUTANT: the sizes are updated before the displacement is taken from them.
AddInputSectionLate(i, a) ==
  /\ out_sec' = [out_sec EXCEPT ![i] = a]
  /\ s_size' = [s_size EXCEPT ![a] = @ + in_size[i]]
  /\ s_nlnno' = [s_nlnno EXCEPT ![a] = (@ + in_lines[i]) % LnnoRange]
  /\ data_disp' = [data_disp EXCEPT ![i] = s_size'[a]]
  /\ line_disp' = [line_disp EXCEPT ![i] = s_nlnno'[a]]

\* add_input_section: input section i goes to the end of output section a.
AddInputSection(i, a) ==
  /\ out_sec' = [out_sec EXCEPT ![i] = a]
  /\ data_disp' = [data_disp EXCEPT ![i] = s_size[a]]
  /\ line_disp' = [line_disp EXCEPT ![i] = s_nlnno[a]]
  /\ s_size' = [s_size EXCEPT ![a] = @ + in_size[i]]
  /\ s_nlnno' = [s_nlnno EXCEPT ![a] = (@ + in_lines[i]) % LnnoRange]

\* MUTANT: a section that is part of an output section is taken again.
WantedTwice(i, a) == in_name[i] = SectName[a]

\* The input section is not part of any output section and has the right name.
Wanted(i, a) == out_sec[i] = NIL /\ in_name[i] = SectName[a]

Collect ==
  /\ pc = "collect" /\ act \in Sect /\ inp \in Input
  /\ IF Wanted(inp, act) THEN AddInputSection(inp, act) ELSE UNCHANGED outputs
  /\ inp' = inp + 1
  /\ UNCHANGED <<pc, act, inputs, num_output_sects>>

\* All files are searched: the output section is appended to its list.
FinishSection ==
  /\ pc = "collect" /\ act \in Sect /\ inp > NIn
  /\ num_output_sects' = num_output_sects + 1
  /\ act' = act + 1
  /\ inp' = 1
  /\ UNCHANGED <<pc, inputs, outputs>>

\* check_input_sections finds no input section left over, since each has the
\* name of an ACTION; if one were, no step would follow.
CheckInputSections ==
  /\ pc = "collect" /\ act > NSect
  /\ \A i \in Input : out_sec[i] # NIL
  /\ pc' = "done"
  /\ UNCHANGED <<act, inp, inputs, outputs, num_output_sects>>

Next == Collect \/ FinishSection \/ CheckInputSections

Spec == Init /\ [][Next]_vars

-----------------------------------------------------------------------------
\* Once process_section_list returns, every input section is part of the first
\* output section of its name: none was overlooked, so that check_input_sections
\* never has to make one, and none was taken by a later ACTION of that name.
FirstOfName ==
  act > NSect => \A i \in Input : out_sec[i] = ActionOf(in_name[i])
=============================================================================
