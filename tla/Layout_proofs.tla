---------------------------- MODULE Layout_proofs ----------------------------
(* Proofs about module Layout, for every architecture file and any input   *)
(* sections.                                                               *)
EXTENDS Layout, FiniteSetTheorems, WellFoundedInduction, TLAPS

\* Module Allocate with what is proved about it.
AP == INSTANCE Allocate_proofs WITH pc <- pcA

NIL == 0

\* The lists of Layout are such as Allocate assumes.
LEMMA ListAssumptions == AP!SegmentAssumption /\ AP!SectionAssumption /\ AP!MemoryListSorted
BY MemoryAssumption, LayoutAssumption
   DEF AP!SegmentAssumption, AP!SectionAssumption, AP!MemoryListSorted, AP!Mem, AP!Sect

\* The numbers of segments, sections and input sections, and the sizes of words.
LEMMA Numbers ==
  /\ NMem \in Nat \ {0} /\ NSect \in Nat /\ NIn \in Nat
  /\ \A m \in Mem : m \in Nat
  /\ \A s \in Sect : s \in Nat \ {0} /\ SectWord[s] \in Nat \ {0}
  /\ \A i \in Input : i \in Nat \ {0}
BY MemoryAssumption, LayoutAssumption DEF Mem, Sect, Input

-----------------------------------------------------------------------------
(* Numbers.                                                                *)

\* A set of numbers has a least one.
LEMMA LeastNumber ==
  ASSUME NEW T \in SUBSET Nat, T # {} PROVE \E x \in T : \A y \in T : x <= y
<1> DEFINE R == {ss \in Nat \X Nat : ss[1] < ss[2]}
<1>1. IsWellFoundedOn(R, Nat)
  BY NatLessThanWellFounded, Zenon DEF OpToRel
<1> HIDE DEF R
<1>2. PICK x \in T : \A y \in T : ~ (<<y, x>> \in R)
  BY <1>1, WFMin, Zenon
<1>3. ASSUME NEW y \in T PROVE x <= y
  <2>1. ~ (y < x)
    BY <1>2, <1>3 DEF R
  <2> QED
    BY <2>1
<1> QED
  BY <1>3

\* Whole words: rounding down loses less on the sum than on its parts.
LEMMA DivNat == ASSUME NEW a \in Nat, NEW w \in Nat \ {0} PROVE a \div w \in Nat
OBVIOUS

\* A number of bytes is whole words and what is left of one.
LEMMA DivParts ==
  ASSUME NEW a \in Nat, NEW w \in Nat \ {0}
  PROVE  a = w * (a \div w) + (a % w) /\ a % w \in 0 .. (w - 1)
OBVIOUS

\* No more than so many whole words go into it.
LEMMA DivBound ==
  ASSUME NEW a \in Nat, NEW w \in Nat \ {0}, NEW q \in Nat, w * q <= a
  PROVE  q <= a \div w
<1>1. /\ a \div w \in Nat /\ a % w \in Nat /\ a % w < w
      /\ a = w * (a \div w) + (a % w)
  BY DivNat, DivParts
<1>2. SUFFICES ASSUME a \div w + 1 <= q PROVE FALSE
  BY <1>1
<1>3. PICK d \in Nat : q = a \div w + 1 + d
  BY <1>1, <1>2
<1>4. w * q = w * (a \div w) + w + w * d
  BY <1>1, <1>3
<1>5. w * d \in Nat /\ w * (a \div w) \in Nat
  BY <1>1
<1> QED
  BY <1>1, <1>4, <1>5

\* More bytes are no fewer words.
LEMMA DivMonotone ==
  ASSUME NEW a \in Nat, NEW b \in Nat, NEW w \in Nat \ {0}, a <= b
  PROVE  a \div w <= b \div w
<1>1. a \div w \in Nat /\ w * (a \div w) <= a /\ w * (a \div w) \in Nat
  BY DivNat, DivParts
<1>2. w * (a \div w) <= b
  BY <1>1
<1> QED
  BY <1>1, <1>2, DivBound

\* Words counted part by part are no more than those of the sum.
LEMMA DivSum ==
  ASSUME NEW a \in Nat, NEW b \in Nat, NEW w \in Nat \ {0}
  PROVE  a \div w + b \div w <= (a + b) \div w
<1>1. /\ a \div w \in Nat /\ w * (a \div w) <= a /\ w * (a \div w) \in Nat
      /\ b \div w \in Nat /\ w * (b \div w) <= b /\ w * (b \div w) \in Nat
  BY DivNat, DivParts
<1>2. w * (a \div w + b \div w) = w * (a \div w) + w * (b \div w)
  BY <1>1
<1>3. w * (a \div w + b \div w) <= a + b
  BY <1>1, <1>2
<1>4. a + b \in Nat /\ a \div w + b \div w \in Nat
  BY <1>1
<1> QED
  BY <1>3, <1>4, DivBound

-----------------------------------------------------------------------------
(* process_section_list.                                                   *)

\* The first output section of the name of input section i.
Of(i) == PS!ActionOf(in_name[i])

CollectTypes ==
  /\ pcP \in {"collect", "done"} /\ act \in 1 .. (NSect + 1) /\ inp \in 1 .. (NIn + 1)
  /\ in_name \in [Input -> {SectName[a] : a \in Sect}]
  /\ in_size \in [Input -> Nat] /\ in_lines \in [Input -> Nat]
  /\ out_sec \in [Input -> Sect \cup {NIL}] /\ data_disp \in [Input -> Nat]
  /\ s_size \in [Sect -> Nat] /\ s_nlnno \in [Sect -> Nat]
  /\ num_output_sects = act - 1
  /\ pcP = "done" => act = NSect + 1

\* The loops have put into sections exactly the input sections that they have
\* passed: those of an earlier output section and the front of those of this one.
Collected ==
  \A i \in Input :
    /\ out_sec[i] # NIL <=> (Of(i) < act \/ (Of(i) = act /\ i < inp))
    /\ out_sec[i] # NIL => out_sec[i] = Of(i)

\* The parts of an output section lie one behind the other ...
PartsInOrder ==
  \A i, j \in Input :
    j < i /\ out_sec[i] # NIL /\ out_sec[j] = out_sec[i]
    => data_disp[j] + in_size[j] <= data_disp[i]

\* ... and, as long as its size is not cut to 0, inside it.
Fits(i) == data_disp[i] + in_size[i] <= s_size[out_sec[i]]

PartsInSection ==
  \A i \in Input :
    out_sec[i] # NIL /\ (pcU = "start" \/ ~ UP!SegmentUninit(SectName[out_sec[i]]))
    => Fits(i)

CollectInv == CollectTypes /\ Collected /\ PartsInOrder /\ PartsInSection

\* There is a first output section of every name in the architecture file.
LEMMA OfFirst ==
  ASSUME in_name \in [Input -> {SectName[a] : a \in Sect}], NEW i \in Input
  PROVE  /\ Of(i) \in Sect /\ SectName[Of(i)] = in_name[i]
         /\ \A b \in Sect : SectName[b] = in_name[i] => Of(i) <= b
<1> DEFINE T == {a \in Sect : SectName[a] = in_name[i]}
<1>1. T # {} /\ T \in SUBSET Nat
  BY Numbers
<1>2. \E a \in T : \A b \in T : a <= b
  BY <1>1, LeastNumber
<1>3. \E a \in 1 .. NSect : /\ SectName[a] = in_name[i]
                            /\ \A b \in 1 .. NSect : SectName[b] = in_name[i] => a <= b
  BY <1>2 DEF Sect
<1> QED
  BY <1>3 DEF Of, PS!ActionOf, PS!Sect, Sect

\* No output section has parts before process_section_list.
LEMMA InitCollect == Init => CollectInv
<1> SUFFICES ASSUME Init PROVE CollectInv
  OBVIOUS
<1>1. in_name \in [Input -> {SectName[a] : a \in Sect}]
  BY DEF Init, PS!Init, PS!Input, PS!Sect, Input, Sect
<1>2. in_size \in [Input -> Nat]
  <2>1. PICK w \in [Input -> Words] :
          in_size = [i \in Input |-> w[i] * SectWord[Of(i)]]
    BY DEF Init, PS!Init, PS!Input, Input, Of
  <2>2. \A i \in Input : w[i] \in Nat /\ SectWord[Of(i)] \in Nat
    BY <1>1, <2>1, OfFirst, Numbers, LayoutAssumption
  <2>3. \A a, b \in Nat : a * b \in Nat
    OBVIOUS
  <2> QED
    BY <2>1, <2>2, <2>3
<1>3. in_lines \in [Input -> Nat]
  <2>1. in_lines \in [Input -> Lines]
    BY DEF Init, PS!Init, PS!Input, Input
  <2>2. Lines \subseteq Nat
    BY LayoutAssumption
  <2> QED
    BY <2>1, <2>2
<1>4. /\ pcP = "collect" /\ act = 1 /\ inp = 1 /\ num_output_sects = 0
      /\ out_sec = [i \in Input |-> NIL] /\ data_disp = [i \in Input |-> 0]
      /\ s_size = [a \in Sect |-> 0] /\ s_nlnno = [a \in Sect |-> 0]
  BY DEF Init, PS!Init, PS!Input, PS!Sect, PS!NIL, Input, Sect, NIL
<1>5. CollectTypes
  BY <1>1, <1>2, <1>3, <1>4, Numbers DEF CollectTypes
<1>6. Collected
  <2>1. \A i \in Input : Of(i) \in Sect
    BY <1>1, OfFirst
  <2>2. \A i \in Input : ~ (Of(i) < 1) /\ ~ (i < 1)
    BY <2>1, Numbers
  <2> QED
    BY <1>4, <2>2 DEF Collected
<1>7. PartsInOrder /\ PartsInSection
  BY <1>4 DEF PartsInOrder, PartsInSection
<1> QED
  BY <1>5, <1>6, <1>7 DEF CollectInv

\* Input section inp is added to section act.
LEMMA AddStep ==
  ASSUME CollectInv, pcU = "start", act \in Sect, inp \in Input,
         PS!Wanted(inp, act), PS!AddInputSection(inp, act), inp' = inp + 1,
         UNCHANGED <<pcP, act, in_name, in_size, in_lines, num_output_sects, pcU>>
  PROVE  CollectInv'
<1>1. /\ CollectTypes /\ act \in Nat \ {0} /\ inp \in Nat \ {0}
      /\ in_size[inp] \in Nat /\ s_size[act] \in Nat
  BY Numbers DEF CollectInv, CollectTypes
<1>2. /\ out_sec[inp] = NIL /\ in_name[inp] = SectName[act]
  BY DEF PS!Wanted, PS!NIL, NIL
<1>3. /\ out_sec'[inp] = act /\ data_disp'[inp] = s_size[act]
      /\ s_size'[act] = s_size[act] + in_size[inp]
      /\ \A i \in Input : i # inp => out_sec'[i] = out_sec[i] /\ data_disp'[i] = data_disp[i]
      /\ \A a \in Sect : a # act => s_size'[a] = s_size[a]
  BY <1>1 DEF CollectTypes, PS!AddInputSection
<1>4. \A i \in Input : Of(i) \in Sect /\ Of(i)' = Of(i)
  BY <1>1, OfFirst DEF CollectTypes, Of, PS!ActionOf
\* It was not taken before, and its name is that of act: act is the first.
<1>5. Of(inp) = act
  <2>1. Of(inp) <= act
    BY <1>1, <1>2, OfFirst DEF CollectTypes
  <2>2. ~ (Of(inp) < act)
    BY <1>2 DEF CollectInv, Collected
  <2>3. Of(inp) \in Nat
    BY <1>4, Numbers
  <2> QED
    BY <1>1, <2>1, <2>2, <2>3
<1>6. CollectTypes'
  <2>1. out_sec' \in [Input -> Sect \cup {NIL}] /\ data_disp' \in [Input -> Nat]
    BY <1>1 DEF CollectTypes, PS!AddInputSection
  <2>2. s_size' \in [Sect -> Nat]
    BY <1>1 DEF CollectTypes, PS!AddInputSection
  <2>3. s_nlnno' \in [Sect -> Nat]
    <3>1. \A a, b \in Nat : (a + b) % LnnoRange \in Nat
      BY LayoutAssumption
    <3>2. s_nlnno[act] \in Nat /\ in_lines[inp] \in Nat
      BY <1>1 DEF CollectTypes
    <3> QED
      BY <1>1, <3>1, <3>2 DEF CollectTypes, PS!AddInputSection
  <2>4. inp + 1 \in 1 .. (NIn + 1)
    BY Numbers DEF Input
  <2> QED
    BY <1>1, <2>1, <2>2, <2>3, <2>4 DEF CollectTypes
<1>7. Collected'
  <2>1. ASSUME NEW i \in Input
        PROVE  /\ out_sec'[i] # NIL <=> (Of(i) < act \/ (Of(i) = act /\ i < inp + 1))
               /\ out_sec'[i] # NIL => out_sec'[i] = Of(i)
    <3>1. CASE i = inp
      BY <1>1, <1>3, <1>5, <3>1 DEF NIL
    <3>2. CASE i # inp
      <4>1. i < inp + 1 <=> i < inp
        BY <1>1, <3>2, Numbers
      <4> QED
        BY <1>3, <3>2, <4>1 DEF CollectInv, Collected
    <3> QED
      BY <3>1, <3>2
  <2> QED
    BY <1>4, <2>1 DEF Collected
\* Every part that section act has so far is one of an earlier input section and
\* ends where the section ended.
<1>8. \A j \in Input : j # inp /\ out_sec[j] = act => j < inp /\ data_disp[j] + in_size[j] <= s_size[act]
  <2>1. SUFFICES ASSUME NEW j \in Input, out_sec[j] = act
                 PROVE  j < inp /\ data_disp[j] + in_size[j] <= s_size[act]
    OBVIOUS
  <2>2. out_sec[j] # NIL /\ Of(j) = act
    BY <1>1, <2>1 DEF CollectInv, Collected, NIL
  <2>3. j < inp
    BY <1>1, <2>2 DEF CollectInv, Collected
  <2>4. Fits(j)
    BY <2>2 DEF CollectInv, PartsInSection
  <2> QED
    BY <2>1, <2>3, <2>4 DEF Fits
<1>9. PartsInOrder'
  <2>1. ASSUME NEW i \in Input, NEW j \in Input, j < i, out_sec'[i] # NIL,
               out_sec'[j] = out_sec'[i]
        PROVE  data_disp'[j] + in_size[j] <= data_disp'[i]
    <3>1. CASE i = inp
      <4>1. j # inp
        BY <2>1, <3>1, Numbers
      <4> QED
        BY <1>3, <1>8, <2>1, <3>1, <4>1
    <3>2. CASE i # inp /\ j = inp
      <4>1. out_sec[i] = act
        BY <1>3, <2>1, <3>2
      <4>2. i < inp
        BY <1>8, <3>2, <4>1
      <4> QED
        BY <1>1, <2>1, <3>2, <4>2, Numbers
    <3>3. CASE i # inp /\ j # inp
      BY <1>3, <2>1, <3>3 DEF CollectInv, PartsInOrder
    <3> QED
      BY <3>1, <3>2, <3>3
  <2> QED
    BY <2>1 DEF PartsInOrder
<1>10. PartsInSection'
  <2>1. ASSUME NEW i \in Input, out_sec'[i] # NIL
        PROVE  data_disp'[i] + in_size[i] <= s_size'[out_sec'[i]]
    <3>1. CASE i = inp
      BY <1>1, <1>3, <3>1
    <3>2. CASE i # inp /\ out_sec[i] = act
      <4>1. data_disp[i] \in Nat /\ in_size[i] \in Nat
        BY <1>1 DEF CollectTypes
      <4> QED
        BY <1>1, <1>3, <1>8, <3>2, <4>1
    <3>3. CASE i # inp /\ out_sec[i] # act
      <4>1. out_sec[i] \in Sect /\ out_sec'[i] = out_sec[i]
        BY <1>1, <1>3, <2>1, <3>3 DEF CollectTypes
      <4>2. Fits(i)
        BY <2>1, <4>1 DEF CollectInv, PartsInSection
      <4> QED
        BY <1>3, <3>3, <4>1, <4>2 DEF Fits
    <3> QED
      BY <3>1, <3>2, <3>3
  <2> QED
    BY <2>1 DEF PartsInSection, Fits
<1> QED
  BY <1>6, <1>7, <1>9, <1>10 DEF CollectInv

\* Each test of its loops keeps the parts in order and inside their section.
LEMMA CollectStep ==
  ASSUME CollectInv, PS!Next, pcU = "start", pcU' = pcU
  PROVE  CollectInv'
<1>1. /\ CollectTypes /\ act \in Nat \ {0} /\ inp \in Nat \ {0}
  BY Numbers DEF CollectInv, CollectTypes
<1>2. UNCHANGED <<in_name, in_size, in_lines>>
  BY DEF PS!Next, PS!Collect, PS!FinishSection, PS!CheckInputSections, PS!inputs
<1>3. \A i \in Input : Of(i) \in Sect /\ Of(i)' = Of(i)
  BY <1>1, <1>2, OfFirst DEF CollectTypes, Of, PS!ActionOf
<1>4. ASSUME UNCHANGED <<out_sec, data_disp, s_size>>
      PROVE  PartsInOrder' /\ PartsInSection'
  BY <1>2, <1>4 DEF CollectInv, PartsInOrder, PartsInSection, Fits
<1>5. CASE PS!Collect
  <2>1. /\ act \in Sect /\ inp \in Input /\ inp' = inp + 1 /\ inp \in PS!Input
        /\ UNCHANGED <<pcP, act, num_output_sects>>
        /\ inp + 1 \in 1 .. (NIn + 1)
    BY <1>5, Numbers DEF PS!Collect, PS!Sect, PS!Input, Sect, Input
  <2>2. CASE PS!Wanted(inp, act)
    <3>1. PS!AddInputSection(inp, act)
      BY <1>5, <2>2 DEF PS!Collect
    <3> QED
      BY <1>2, <2>1, <2>2, <3>1, AddStep
  <2>3. CASE ~ PS!Wanted(inp, act)
    <3>1. UNCHANGED <<out_sec, data_disp, s_size, s_nlnno>>
      BY <1>5, <2>3 DEF PS!Collect, PS!outputs
    <3>2. CollectTypes'
      BY <1>1, <1>2, <2>1, <3>1 DEF CollectTypes
    \* It is in a section already, or its name is not that of this one.
    <3>3. Of(inp) # act \/ out_sec[inp] # NIL
      BY <1>1, <2>1, <2>3, OfFirst DEF CollectTypes, PS!Wanted, PS!NIL, NIL
    <3>4. ASSUME NEW i \in Input
          PROVE  out_sec[i] # NIL <=> (Of(i) < act \/ (Of(i) = act /\ i < inp + 1))
      <4>1. out_sec[i] # NIL <=> (Of(i) < act \/ (Of(i) = act /\ i < inp))
        BY DEF CollectInv, Collected
      <4>2. i # inp => (i < inp + 1 <=> i < inp)
        BY <1>1, Numbers
      <4>3. inp < inp + 1
        BY <1>1
      <4> QED
        BY <3>3, <4>1, <4>2, <4>3
    <3>5. Collected'
      BY <1>3, <2>1, <3>1, <3>4 DEF CollectInv, Collected
    <3> QED
      BY <1>4, <3>1, <3>2, <3>5 DEF CollectInv
  <2> QED
    BY <2>2, <2>3
<1>6. CASE PS!FinishSection
  <2>1. /\ act \in Sect /\ inp > NIn /\ act' = act + 1 /\ inp' = 1
        /\ num_output_sects' = num_output_sects + 1 /\ pcP' = pcP /\ pcP = "collect"
        /\ UNCHANGED <<out_sec, data_disp, s_size, s_nlnno>>
    BY <1>6 DEF PS!FinishSection, PS!outputs, PS!Sect, Sect
  <2>2. act + 1 \in 1 .. (NSect + 1) /\ 1 \in 1 .. (NIn + 1)
        /\ num_output_sects + 1 = (act + 1) - 1
    BY <1>1, <2>1, Numbers DEF CollectTypes, Sect
  <2>3. CollectTypes'
    BY <1>1, <1>2, <2>1, <2>2 DEF CollectTypes
  <2>4. ASSUME NEW i \in Input
        PROVE  out_sec[i] # NIL <=> (Of(i) < act + 1 \/ (Of(i) = act + 1 /\ i < 1))
    <3>1. out_sec[i] # NIL <=> (Of(i) < act \/ (Of(i) = act /\ i < inp))
      BY DEF CollectInv, Collected
    <3>2. i < inp /\ ~ (i < 1)
      BY <1>1, <2>1, Numbers DEF Input
    <3>3. Of(i) < act + 1 <=> (Of(i) < act \/ Of(i) = act)
      BY <1>1, <1>3, Numbers
    <3> QED
      BY <3>1, <3>2, <3>3
  <2>5. Collected'
    BY <1>3, <2>1, <2>4 DEF CollectInv, Collected
  <2> QED
    BY <1>4, <2>1, <2>3, <2>5 DEF CollectInv
<1>7. CASE PS!CheckInputSections
  <2>1. /\ act > NSect /\ pcP' = "done"
        /\ UNCHANGED <<act, inp, out_sec, data_disp, s_size, s_nlnno, num_output_sects>>
    BY <1>7 DEF PS!CheckInputSections, PS!outputs
  <2>2. CollectTypes'
    BY <1>1, <1>2, <2>1, Numbers DEF CollectTypes
  <2>3. Collected'
    BY <1>3, <2>1 DEF CollectInv, Collected
  <2> QED
    BY <1>4, <2>1, <2>2, <2>3 DEF CollectInv
<1> QED
  BY <1>5, <1>6, <1>7 DEF PS!Next

-----------------------------------------------------------------------------
(* allocate, between the two walks that share its lists.                   *)

\* What is proved about Allocate holds of the instance of it in Layout.
LEMMA SameInit == AL!Init => AP!Init
BY DEF AL!Init, AP!Init, AL!Sect, AP!Sect, AL!Mem, AP!Mem, AL!Node, AP!Node, AL!NIL, AP!NIL,
       AL!Unbound, AP!Unbound

\* And so of its steps.
LEMMA SameNext == AL!Next => AP!Next
BY DEF AL!Next, AL!AllocateAddressSpace, AL!NextSection, AL!AllSectionsDone, AL!OtherName,
       AL!SameName, AL!Insufficient, AL!SkipAllocated, AL!NoFreeNode, AL!TooSmall,
       AL!ExactFit, AL!Split, AL!AllocateIt, AL!AllocateAdjustMemory, AL!Need, AL!addr_head,
       AL!nodes, AL!Sect, AL!Mem, AL!Node, AL!NIL,
       AP!Next, AP!AllocateAddressSpace, AP!NextSection, AP!AllSectionsDone, AP!OtherName,
       AP!SameName, AP!Insufficient, AP!SkipAllocated, AP!NoFreeNode, AP!TooSmall,
       AP!ExactFit, AP!Split, AP!AllocateIt, AP!AllocateAdjustMemory, AP!Need, AP!addr_head,
       AP!nodes, AP!Sect, AP!Mem, AP!Node, AP!NIL

\* allocate only reads the sizes, and ends in "done" from "section" alone.
LEMMA AllocateReads ==
  ASSUME AL!Next
  PROVE  s_size' = s_size /\ pcA \notin {"done", "exit"}
BY DEF AL!Next, AL!AllocateAddressSpace, AL!NextSection, AL!AllSectionsDone, AL!OtherName,
       AL!SameName, AL!Insufficient, AL!SkipAllocated, AL!NoFreeNode, AL!TooSmall,
       AL!ExactFit, AL!Split, AL!AllocateIt

\* Every part of a section lies in the node that the section was given.
PartsInNode ==
  \A n \in live, i \in Input :
    out_sec[i] # NIL /\ sect_ptr[n] = out_sec[i]
    => (data_disp[i] + in_size[i]) \div SectWord[out_sec[i]] <= size[n]

AllocateInv ==
  /\ AP!ListInv
  /\ pcU = "start" => AP!IInv
  /\ pcA = "done" => PartsInNode
  /\ pcP # "done" => pcA = "space"
  /\ pcA # "done" => pcU = "start"

\* allocate has not begun before process_section_list.
LEMMA InitAllocate == Init => AllocateInv
<1> SUFFICES ASSUME Init PROVE AllocateInv
  OBVIOUS
<1>1. AP!Init /\ pcA = "space" /\ pcU = "start"
  BY SameInit DEF Init, AL!Init, UP!InitResult
<1>2. AP!IInv /\ AP!ListInv
  BY <1>1, ListAssumptions, AP!InitIInv, AP!InitListInv
<1> QED
  BY <1>1, <1>2 DEF AllocateInv

\* process_section_list does not touch the lists of allocate.
LEMMA CollectKeepsAllocate ==
  ASSUME CollectInv, AllocateInv, ProcessSectionList, CollectInv'
  PROVE  AllocateInv'
<1>1. pcP # "done" /\ pcA = "space" /\ pcU = "start"
  BY DEF ProcessSectionList, PS!Next, PS!Collect, PS!FinishSection, PS!CheckInputSections,
         AllocateInv
<1>2. /\ UNCHANGED <<pcA, sect, mptr, aptr, s_paddr, user_errors>>
      /\ UNCHANGED AP!nodes /\ pcU' = pcU
      /\ s_size' \in [AP!Sect -> Nat]
  BY DEF ProcessSectionList, allocating, updating, AP!nodes, AP!Sect, CollectInv, CollectTypes,
         Sect
<1>3. AP!ListInv'
  BY <1>2, ListAssumptions, AP!ListInvKept DEF AllocateInv
<1>4. AP!IInv'
  BY <1>1, <1>2, ListAssumptions, AP!SizesFree DEF AllocateInv
<1> QED
  BY <1>1, <1>2, <1>3, <1>4 DEF AllocateInv

\* What the node holds is the size of the section, which its parts are within.
LEMMA PartsFitNode ==
  AP!IInv /\ AP!ListInv /\ CollectInv /\ pcU = "start" => PartsInNode
<1> SUFFICES ASSUME AP!IInv, AP!ListInv, CollectInv, pcU = "start",
                    NEW n \in live, NEW i \in Input, out_sec[i] # NIL,
                    sect_ptr[n] = out_sec[i]
             PROVE  (data_disp[i] + in_size[i]) \div SectWord[out_sec[i]] <= size[n]
  BY DEF PartsInNode
<1> DEFINE s == out_sec[i]
<1>1. s \in Sect /\ data_disp[i] \in Nat /\ in_size[i] \in Nat
  BY DEF CollectInv, CollectTypes
<1>2. data_disp[i] + in_size[i] \in Nat /\ s_size[s] \in Nat /\ SectWord[s] \in Nat \ {0}
  BY <1>1, Numbers DEF CollectInv, CollectTypes
<1>3. data_disp[i] + in_size[i] <= s_size[s]
  BY DEF CollectInv, PartsInSection, Fits
<1>4. (data_disp[i] + in_size[i]) \div SectWord[s] <= s_size[s] \div SectWord[s]
  BY <1>2, <1>3, DivMonotone
<1>5. size[n] = s_size[s] \div SectWord[s]
  BY ListAssumptions, AP!NodeHoldsNeed DEF AP!Need, AP!NIL, NIL
<1> QED
  BY <1>4, <1>5

\* allocate keeps its invariant, and the parts of the sections.
LEMMA AllocateStep ==
  ASSUME CollectInv, AllocateInv, AllocateSections
  PROVE  CollectInv' /\ AllocateInv'
<1>1. /\ pcP = "done" /\ AL!Next /\ UNCHANGED <<collecting, updating>>
      /\ s_size' = s_size /\ pcA # "done" /\ pcU = "start" /\ pcU' = pcU
  BY AllocateReads DEF AllocateSections, updating, AllocateInv
<1>2. UNCHANGED <<pcP, act, inp, in_name, in_size, in_lines, out_sec, data_disp, s_nlnno,
                  num_output_sects>>
  BY <1>1 DEF collecting
<1>3. CollectInv'
  <2>1. \A i \in Input : Of(i)' = Of(i)
    BY <1>2 DEF Of, PS!ActionOf
  <2> QED
    BY <1>1, <1>2, <2>1
       DEF CollectInv, CollectTypes, Collected, PartsInOrder, PartsInSection, Fits
<1>4. AP!IInv' /\ AP!ListInv'
  <2>1. AP!IInv /\ AP!ListInv /\ [AP!Next]_(AP!vars)
    BY <1>1, SameNext DEF AllocateInv
  <2>2. AP!IInv'
    BY <2>1, ListAssumptions, AP!NextIInv
  <2>3. AP!ListInv'
    BY <2>1, ListAssumptions, AP!NextListInv
  <2> QED
    BY <2>2, <2>3
<1>5. PartsInNode'
  <2>1. (AP!IInv /\ AP!ListInv /\ CollectInv /\ pcU = "start")'
    BY <1>1, <1>3, <1>4
  <2>2. (AP!IInv /\ AP!ListInv /\ CollectInv /\ pcU = "start" => PartsInNode)'
    BY PartsFitNode, PTL
  <2> QED
    BY <2>1, <2>2
<1> QED
  BY <1>1, <1>2, <1>3, <1>4, <1>5 DEF AllocateInv

-----------------------------------------------------------------------------
(* update_section_information.                                             *)

\* The first walk has passed node n, at which a section was allocated.
Passed(n) ==
  /\ sect_ptr[n] # NIL
  /\ \/ pcU \in {"lines", "done"}
     \/ pcU = "sections" /\ (uptr = NIL \/ AP!Before(n, uptr))

UpdateTypes ==
  /\ pcU \in {"start", "sections", "lines", "done"}
  /\ uptr \in live \cup {NIL}
  /\ section_num \in [Sect -> Nat]
  /\ s_scnptr \in [Sect -> Nat] /\ s_lnnoptr \in [Sect -> Nat]
  /\ file_offset \in Nat /\ line_ptr \in Nat /\ last_num \in Nat
  /\ pcU = "start" => UP!InitResult

\* The sections passed bear the numbers 1 .. last_num, in the order of the list.
Numbered ==
  /\ \A n \in live, s \in Sect :
       Passed(n) /\ sect_ptr[n] = s => section_num[s] \in 1 .. last_num
  /\ \A n1, n2 \in live, s, t \in Sect :
       /\ Passed(n1) /\ Passed(n2) /\ AP!Before(n1, n2)
       /\ sect_ptr[n1] = s /\ sect_ptr[n2] = t
       => section_num[s] < section_num[t]
  /\ \A k \in 1 .. last_num : \E s \in Sect : section_num[s] = k
  /\ \A s \in Sect : section_num[s] # 0 => \E n \in live : Passed(n) /\ sect_ptr[n] = s

\* Their parts have addresses, and those with data have an offset.
Placed ==
  \A n \in live, s \in Sect :
    Passed(n) /\ sect_ptr[n] = s =>
      /\ s_scnptr[s] # 0 <=> UP!HasRawData(s)
      /\ \A i \in Input : out_sec[i] = s => in_paddr[i] = UP!PartAddress(i, s)

\* Raw data lies between the headers and file_offset ...
RawDataApart ==
  /\ pcU # "start" => HeadersEnd <= file_offset
  /\ \A s \in Sect : s_scnptr[s] # 0 =>
       /\ UP!HasRawData(s)
       /\ HeadersEnd <= s_scnptr[s] /\ s_scnptr[s] + s_size[s] <= file_offset
       /\ \A t \in Sect \ {s} : s_scnptr[t] # 0 =>
            s_scnptr[s] + s_size[s] <= s_scnptr[t] \/ s_scnptr[t] + s_size[t] <= s_scnptr[s]

\* ... and line entries between file_offset and line_ptr.
LinesApart ==
  /\ pcU \in {"start", "sections"} => \A s \in Sect : s_lnnoptr[s] = 0
  /\ pcU \in {"lines", "done"} => file_offset <= line_ptr
  /\ \A s \in Sect : s_lnnoptr[s] # 0 =>
       /\ file_offset <= s_lnnoptr[s] /\ LinesEnd(s) <= line_ptr
       /\ \A t \in Sect \ {s} : s_lnnoptr[t] # 0 =>
            LinesEnd(s) <= s_lnnoptr[t] \/ LinesEnd(t) <= s_lnnoptr[s]

UpdateInv == UpdateTypes /\ Numbered /\ Placed /\ RawDataApart /\ LinesApart

Inv == CollectInv /\ AllocateInv /\ UpdateInv

\* Before the walk begins nothing is numbered, placed or written.
LEMMA StartInv ==
  ASSUME UP!InitResult PROVE UpdateInv
<1>1. /\ pcU = "start" /\ uptr = NIL
      /\ section_num = [s \in Sect |-> 0] /\ s_scnptr = [s \in Sect |-> 0]
      /\ s_lnnoptr = [s \in Sect |-> 0]
      /\ file_offset = 0 /\ line_ptr = 0 /\ last_num = 0
  BY DEF UP!InitResult, UP!Sect, UP!NIL, Sect, NIL
<1>2. \A n \in live : ~ Passed(n)
  BY <1>1 DEF Passed
<1>3. 1 .. 0 = {}
  OBVIOUS
<1> QED
  BY <1>1, <1>2, <1>3
     DEF UpdateInv, UpdateTypes, Numbered, Placed, RawDataApart, LinesApart

\* The walk reads the parts and the list, and changes of the sizes only those of
\* UNINIT sections.
LEMMA UpdateReads ==
  ASSUME Inv, UpdateSectionInformation
  PROVE  /\ UNCHANGED <<collecting, allocating>> /\ pcA = "done" /\ pcP = "done"
         /\ pcU' # "start"
         /\ s_size' \in [Sect -> Nat]
         /\ \A s \in Sect : ~ UP!SegmentUninit(SectName[s]) => s_size'[s] = s_size[s]
<1>1. /\ UNCHANGED <<collecting, allocating>> /\ pcA = "done" /\ UP!Next
      /\ s_size \in [Sect -> Nat] /\ pcP = "done"
  BY DEF UpdateSectionInformation, Inv, CollectInv, CollectTypes, AllocateInv
<1>2. CASE UP!UpdateSection
  <2>1. /\ s_size' = [s_size EXCEPT ![sect_ptr[uptr]] = UP!SizeAfter(sect_ptr[uptr])]
        /\ pcU' = pcU /\ pcU = "sections"
    BY <1>2 DEF UP!UpdateSection, UP!Allocated
  <2>2. ASSUME NEW s \in Sect
        PROVE  s_size'[s] \in Nat /\ (~ UP!SegmentUninit(SectName[s]) => s_size'[s] = s_size[s])
    <3>1. CASE s = sect_ptr[uptr]
      BY <1>1, <2>1, <3>1 DEF UP!SizeAfter
    <3>2. CASE s # sect_ptr[uptr]
      BY <1>1, <2>1, <3>2
    <3> QED
      BY <3>1, <3>2
  <2>3. s_size' = [s \in Sect |-> s_size'[s]]
    BY <1>1, <2>1
  <2>4. s_size' \in [Sect -> Nat]
    BY <2>2, <2>3
  <2> QED
    BY <1>1, <2>1, <2>2, <2>4
<1>3. CASE ~ UP!UpdateSection
  BY <1>1, <1>3
     DEF UP!Next, UP!Start, UP!SkipFree, UP!StartLines, UP!UpdateLines, UP!Finish, UP!result
<1> QED
  BY <1>2, <1>3

\* update_section_information changes neither the parts nor the nodes.
LEMMA UpdateKeepsRest ==
  ASSUME Inv, UpdateSectionInformation
  PROVE  CollectInv' /\ AllocateInv'
<1>1. /\ UNCHANGED <<collecting, allocating>> /\ pcA = "done" /\ pcP = "done" /\ pcU' # "start"
      /\ s_size' \in [Sect -> Nat]
      /\ \A s \in Sect : ~ UP!SegmentUninit(SectName[s]) => s_size'[s] = s_size[s]
  BY UpdateReads
<1>2. UNCHANGED <<pcP, act, inp, in_name, in_size, in_lines, out_sec, data_disp, s_nlnno,
                  num_output_sects>>
  BY <1>1 DEF collecting
<1>3. CollectTypes' /\ Collected' /\ PartsInOrder'
  <2>1. \A i \in Input : Of(i)' = Of(i)
    BY <1>2 DEF Of, PS!ActionOf
  <2> QED
    BY <1>1, <1>2, <2>1 DEF Inv, CollectInv, CollectTypes, Collected, PartsInOrder
<1>4. PartsInSection'
  <2>1. ASSUME NEW i \in Input, out_sec[i] # NIL, ~ UP!SegmentUninit(SectName[out_sec[i]])
        PROVE  data_disp[i] + in_size[i] <= s_size'[out_sec[i]]
    <3>1. out_sec[i] \in Sect /\ Fits(i)
      BY <2>1 DEF Inv, CollectInv, CollectTypes, PartsInSection
    <3> QED
      BY <1>1, <2>1, <3>1 DEF Fits
  <2> QED
    BY <1>1, <1>2, <2>1 DEF PartsInSection, Fits, UP!SegmentUninit
<1>5. AllocateInv'
  <2>1. /\ UNCHANGED <<pcA, sect, s_paddr, user_errors>> /\ UNCHANGED AP!nodes
        /\ UNCHANGED <<live, sect_ptr, size>>
    BY <1>1 DEF allocating, AP!nodes
  <2>2. AP!ListInv'
    BY <2>1, ListAssumptions, AP!ListInvKept DEF Inv, AllocateInv
  <2>3. PartsInNode'
    BY <1>1, <1>2, <2>1 DEF Inv, AllocateInv, PartsInNode
  <2> QED
    BY <1>1, <2>1, <2>2, <2>3, <1>2 DEF AllocateInv
<1> QED
  BY <1>3, <1>4, <1>5 DEF CollectInv

\* The list that the walks follow.
LEMMA ListFacts ==
  ASSUME Inv, pcA = "done"
  PROVE  /\ 1 \in live /\ mem_ptr[1] = 1 /\ NIL \notin live
         /\ \A n \in live :
              /\ n \in Nat \ {0} /\ mem_ptr[n] \in Mem /\ mem_ptr[n] \in Nat \ {0}
              /\ sect_ptr[n] \in Sect \cup {NIL}
              /\ addr_type[n] \in {"free", "allocated"}
              /\ addr_type[n] = "allocated" <=> sect_ptr[n] # NIL
              /\ next[n] \in live \cup {NIL}
         /\ \A n1, n2 \in live : sect_ptr[n1] # NIL /\ sect_ptr[n1] = sect_ptr[n2] => n1 = n2
         /\ \A n, k \in live : (AP!Before(k, n) \/ k = n)
                               <=> (next[n] = NIL \/ AP!Before(k, next[n]))
<1>1. /\ AP!FieldsOK /\ AP!Recorded /\ AP!InOrder
  BY DEF Inv, AllocateInv, AP!ListInv
<1>2. /\ live \subseteq AP!Node /\ \A n \in AP!Node : n \in Nat \ {0} /\ mem_ptr[n] \in Mem
      /\ \A n \in AP!Node : sect_ptr[n] \in Sect \cup {NIL}
      /\ \A n \in AP!Node : addr_type[n] \in {"free", "allocated"}
  <2>1. AP!Mem = Mem /\ AP!Sect = Sect /\ AP!NIL = NIL
    BY DEF AP!Mem, AP!Sect, AP!NIL, Mem, Sect, NIL
  <2>2. \A n \in AP!Node : n \in Nat \ {0}
    BY Numbers DEF AP!Node
  <2>3. /\ live \subseteq AP!Node /\ mem_ptr \in [AP!Node -> Mem]
        /\ sect_ptr \in [AP!Node -> Sect \cup {NIL}]
        /\ addr_type \in [AP!Node -> {"free", "allocated"}]
    BY <1>1, <2>1 DEF AP!FieldsOK
  <2> QED
    BY <2>2, <2>3
<1>3. \A m \in Mem : m \in Nat \ {0}
  BY Numbers DEF Mem
<1>4. /\ \A n \in live : addr_type[n] = "allocated" <=> sect_ptr[n] # NIL
      /\ \A n1, n2 \in live : sect_ptr[n1] # NIL /\ sect_ptr[n1] = sect_ptr[n2] => n1 = n2
  BY <1>1 DEF AP!Recorded, AP!NIL, NIL
<1>5. /\ 1 \in live /\ mem_ptr[1] = 1
      /\ \A n \in live : next[n] \in live \cup {NIL}
      /\ \A n, k \in live : (AP!Before(k, n) \/ k = n)
                            <=> (next[n] = NIL \/ AP!Before(k, next[n]))
  BY <1>1 DEF AP!InOrder, AP!NIL, NIL
<1> QED
  BY <1>2, <1>3, <1>4, <1>5 DEF NIL

\* Before is a total order of the nodes, and node 1 is its first.
LEMMA BeforeOrder ==
  ASSUME Inv, pcA = "done"
  PROVE  /\ \A n \in live : ~ AP!Before(n, n) /\ ~ AP!Before(n, 1)
         /\ \A k, n \in live : k = n \/ AP!Before(k, n) \/ AP!Before(n, k)
         /\ \A k, n \in live : ~ (AP!Before(k, n) /\ AP!Before(n, k))
<1>1. /\ mem_ptr[1] = 1
      /\ \A n \in live : n \in Nat \ {0} /\ mem_ptr[n] \in Nat \ {0}
  BY ListFacts
<1> QED
  BY <1>1 DEF AP!Before

\* A step of the walk passes the node it is at, if a section was allocated there.
LEMMA PassedStep ==
  ASSUME Inv, UpdateSectionInformation
  PROVE  /\ \A n \in live : Passed(n)' <=> (Passed(n) \/ (UP!UpdateSection /\ n = uptr))
         /\ \A k, n \in live : AP!Before(k, n)' <=> AP!Before(k, n)
         /\ uptr' \in live \cup {NIL}
         /\ UP!UpdateSection => /\ uptr \in live /\ sect_ptr[uptr] \in Sect /\ sect_ptr[uptr] # NIL
                                /\ ~ Passed(uptr)
<1>1. /\ pcA = "done" /\ UP!Next
      /\ UNCHANGED <<live, next, addr_type, mem_ptr, sect_ptr>>
  BY DEF UpdateSectionInformation, allocating
<1>2. \A k, n \in live : AP!Before(k, n)' <=> AP!Before(k, n)
  BY <1>1 DEF AP!Before
<1>3. /\ 1 \in live /\ NIL \notin live
      /\ \A n \in live :
           /\ sect_ptr[n] \in Sect \cup {NIL}
           /\ addr_type[n] \in {"free", "allocated"}
           /\ addr_type[n] = "allocated" <=> sect_ptr[n] # NIL
           /\ next[n] \in live \cup {NIL}
      /\ \A n, k \in live : (AP!Before(k, n) \/ k = n)
                            <=> (next[n] = NIL \/ AP!Before(k, next[n]))
  BY <1>1, ListFacts
<1>4. \A n \in live : ~ AP!Before(n, n) /\ ~ AP!Before(n, 1)
  BY <1>1, BeforeOrder
<1>5. uptr \in live \cup {NIL}
  BY DEF Inv, UpdateInv, UpdateTypes
<1>6. CASE UP!Start
  <2>1. pcU = "start" /\ pcU' = "sections" /\ uptr' = 1
    BY <1>6 DEF UP!Start
  <2>2. \A n \in live : ~ AP!Before(n, uptr')
    BY <1>4, <2>1
  <2>3. \A n \in live : ~ Passed(n)' 
    BY <1>1, <1>3, <2>1, <2>2 DEF Passed, AP!Before
  <2> QED
    BY <1>2, <1>3, <2>1, <2>3 DEF Passed, UP!UpdateSection, UP!Allocated
<1>7. CASE UP!UpdateSection
  <2>1. /\ pcU = "sections" /\ pcU' = pcU /\ uptr # NIL /\ addr_type[uptr] = "allocated"
        /\ uptr' = next[uptr]
    BY <1>7 DEF UP!UpdateSection, UP!Allocated, UP!NIL, NIL
  <2>2. uptr \in live /\ sect_ptr[uptr] # NIL /\ sect_ptr[uptr] \in Sect
    BY <1>3, <1>5, <2>1
  <2>3. ~ Passed(uptr)
    BY <1>4, <2>1, <2>2 DEF Passed
  <2>4. \A n \in live : Passed(n) <=> (sect_ptr[n] # NIL /\ AP!Before(n, uptr))
    BY <2>1 DEF Passed
  <2>5. \A n \in live : Passed(n)' <=> (sect_ptr[n] # NIL
                                         /\ (next[uptr] = NIL \/ AP!Before(n, next[uptr])))
    BY <1>1, <2>1 DEF Passed, AP!Before
  <2> QED
    BY <1>2, <1>3, <1>7, <2>1, <2>2, <2>3, <2>4, <2>5
<1>8. CASE UP!SkipFree
  <2>1. /\ pcU \in {"sections", "lines"} /\ pcU' = pcU /\ uptr # NIL
        /\ addr_type[uptr] = "free" /\ uptr' = next[uptr]
    BY <1>8 DEF UP!SkipFree, UP!NIL, NIL
  <2>2. uptr \in live /\ sect_ptr[uptr] = NIL
    BY <1>3, <1>5, <2>1
  <2>3. CASE pcU = "sections"
    <3>1. \A n \in live : Passed(n) <=> (sect_ptr[n] # NIL /\ AP!Before(n, uptr))
      BY <2>1, <2>3 DEF Passed
    <3>2. \A n \in live : Passed(n)' <=> (sect_ptr[n] # NIL
                                           /\ (next[uptr] = NIL \/ AP!Before(n, next[uptr])))
      BY <1>1, <2>1, <2>3 DEF Passed, AP!Before
    <3> QED
      BY <1>2, <1>3, <2>1, <2>2, <3>1, <3>2 DEF UP!UpdateSection, UP!Allocated
  <2>4. CASE pcU = "lines"
    BY <1>1, <1>2, <1>3, <2>1, <2>2, <2>4 DEF Passed, UP!UpdateSection, UP!Allocated
  <2> QED
    BY <2>1, <2>3, <2>4
<1>9. CASE UP!StartLines
  <2>1. pcU = "sections" /\ uptr = NIL /\ pcU' = "lines" /\ uptr' = 1
    BY <1>9 DEF UP!StartLines, UP!NIL, NIL
  <2> QED
    BY <1>1, <1>2, <1>3, <2>1 DEF Passed, UP!UpdateSection, UP!Allocated, UP!NIL, NIL
<1>10. CASE UP!UpdateLines \/ UP!Finish
  <2>1. /\ pcU = "lines" /\ pcU' \in {"lines", "done"}
        /\ (uptr # NIL /\ uptr' = next[uptr]) \/ uptr' = uptr
    BY <1>10 DEF UP!UpdateLines, UP!Finish, UP!NIL, NIL
  <2>2. uptr' \in live \cup {NIL}
    BY <1>3, <1>5, <2>1
  <2> QED
    BY <1>1, <1>2, <2>1, <2>2 DEF Passed, UP!UpdateSection, UP!Allocated
<1> QED
  BY <1>1, <1>6, <1>7, <1>8, <1>9, <1>10 DEF UP!Next

\* The walk numbers, places and lays out the section at its node.
LEMMA SectionStep ==
  ASSUME Inv, UpdateSectionInformation, UP!UpdateSection
  PROVE  UpdateInv'
<1> DEFINE s == sect_ptr[uptr]
           raw == UP!HasRawData(s)
<1>1. /\ UNCHANGED <<collecting, allocating>> /\ pcA = "done"
      /\ UNCHANGED <<out_sec, data_disp, in_size, num_output_sects, s_nlnno,
                     s_paddr, live, sect_ptr, mem_ptr>>
      /\ s_size \in [Sect -> Nat] /\ s_nlnno \in [Sect -> Nat]
  BY DEF UpdateSectionInformation, collecting, allocating, Inv, CollectInv, CollectTypes
<1>2. /\ \A n \in live : Passed(n)' <=> (Passed(n) \/ n = uptr)
      /\ \A k, n \in live : AP!Before(k, n)' <=> AP!Before(k, n)
      /\ uptr' \in live \cup {NIL} /\ uptr \in live /\ s \in Sect /\ s # NIL /\ ~ Passed(uptr)
  BY PassedStep
<1>3. /\ \A n \in live : sect_ptr[n] \in Sect \cup {NIL}
      /\ \A n \in live : sect_ptr[n] = s => n = uptr
      /\ \A k, n \in live : k = n \/ AP!Before(k, n) \/ AP!Before(n, k)
      /\ \A k, n \in live : ~ (AP!Before(k, n) /\ AP!Before(n, k))
      /\ \A n \in live : ~ AP!Before(n, n)
  BY <1>1, <1>2, ListFacts, BeforeOrder
<1>4. UpdateTypes /\ Numbered /\ Placed /\ RawDataApart /\ LinesApart
  BY DEF Inv, UpdateInv
<1>5. /\ section_num \in [Sect -> Nat] /\ s_scnptr \in [Sect -> Nat]
      /\ file_offset \in Nat /\ last_num \in Nat
      /\ pcU = "sections" /\ pcU' = "sections"
  BY <1>4 DEF UpdateTypes, UP!UpdateSection, UP!Allocated
<1>6. /\ last_num' = last_num + 1 /\ section_num'[s] = last_num + 1
      /\ section_num' = [section_num EXCEPT ![s] = last_num + 1]
      /\ \A t \in Sect : t # s => section_num'[t] = section_num[t]
  BY <1>2, <1>5 DEF UP!UpdateSection, UP!NumberAfter
<1>7. /\ s_scnptr' = [s_scnptr EXCEPT ![s] = IF raw THEN file_offset ELSE 0]
      /\ s_scnptr'[s] = IF raw THEN file_offset ELSE 0
      /\ \A t \in Sect : t # s => s_scnptr'[t] = s_scnptr[t] /\ s_size'[t] = s_size[t]
      /\ raw => s_size'[s] = s_size[s]
      /\ file_offset' = IF raw THEN file_offset + s_size[s] ELSE file_offset
  BY <1>1, <1>2, <1>5
     DEF UP!UpdateSection, UP!HasRawData, UP!SizeAfter, UP!OffsetAfter
<1>8. /\ \A i \in Input : out_sec[i] = s => in_paddr'[i] = UP!PartAddress(i, s)
      /\ \A i \in Input : out_sec[i] # s => in_paddr'[i] = in_paddr[i]
  BY DEF UP!UpdateSection, UP!PartsOf, UP!Input, Input
<1>9. UNCHANGED <<s_lnnoptr, line_ptr>>
  BY DEF UP!UpdateSection
<1>10. /\ \A t \in Sect : UP!HasRawData(t)' <=> UP!HasRawData(t)
       /\ \A i \in Input : \A t \in Sect : UP!PartAddress(i, t)' = UP!PartAddress(i, t)
       /\ HeadersEnd' = HeadersEnd
  BY <1>1 DEF UP!HasRawData, UP!HasData, UP!PartsOf, UP!SegmentUninit, UP!PartAddress, HeadersEnd
<1>11. HeadersEnd <= file_offset /\ HeadersEnd \in Nat \ {0}
  <2>1. num_output_sects \in Nat
    BY Numbers DEF Inv, CollectInv, CollectTypes
  <2>2. SCNHSZ * num_output_sects \in Nat
    BY <2>1, LayoutAssumption
  <2>3. HeadersEnd \in Nat \ {0}
    BY <2>2, LayoutAssumption DEF HeadersEnd
  <2> QED
    BY <1>4, <1>5, <2>3 DEF RawDataApart
<1>12. file_offset' \in Nat /\ file_offset <= file_offset'
  BY <1>1, <1>2, <1>5, <1>7
<1> HIDE DEF raw
<1>13. UpdateTypes'
  <2>1. section_num' \in [Sect -> Nat] /\ last_num' \in Nat
    <3>1. last_num + 1 \in Nat
      BY <1>5
    <3>2. section_num' = [section_num EXCEPT ![s] = last_num + 1] /\ last_num' = last_num + 1
      BY <1>6
    <3> QED
      BY <1>2, <1>5, <3>1, <3>2
  <2>2. s_scnptr' \in [Sect -> Nat]
    BY <1>5, <1>7
  <2> QED
    BY <1>1, <1>2, <1>4, <1>5, <1>9, <1>12, <2>1, <2>2 DEF UpdateTypes
<1>14. \A n \in live : Passed(n) => sect_ptr[n] # s
  BY <1>2, <1>3
<1>15. Numbered'
  <2>1. ASSUME NEW n \in live, NEW t \in Sect, Passed(n) \/ n = uptr, sect_ptr[n] = t
        PROVE  section_num'[t] \in 1 .. (last_num + 1)
    <3>1. CASE n = uptr
      BY <1>5, <1>6, <2>1, <3>1
    <3>2. CASE n # uptr
      <4>1. t # s /\ section_num[t] \in 1 .. last_num
        BY <1>4, <1>14, <2>1, <3>2 DEF Numbered
      <4> QED
        BY <1>5, <1>6, <4>1
    <3> QED
      BY <3>1, <3>2
  <2>2. ASSUME NEW n1 \in live, NEW n2 \in live, NEW t1 \in Sect, NEW t2 \in Sect,
               Passed(n1) \/ n1 = uptr, Passed(n2) \/ n2 = uptr, AP!Before(n1, n2),
               sect_ptr[n1] = t1, sect_ptr[n2] = t2
        PROVE  section_num'[t1] < section_num'[t2]
    <3>1. \A n \in live : Passed(n) => AP!Before(n, uptr) 
      <4>1. uptr # NIL
        BY <1>2, <1>1, ListFacts
      <4> QED
        BY <1>5, <4>1 DEF Passed
    <3>2. n1 # uptr
      BY <1>2, <1>3, <2>2, <3>1
    <3>3. t1 # s /\ section_num[t1] \in 1 .. last_num /\ Passed(n1)
      BY <1>4, <1>14, <2>2, <3>2 DEF Numbered
    <3>4. CASE n2 = uptr
      BY <1>5, <1>6, <2>2, <3>3, <3>4
    <3>5. CASE n2 # uptr
      <4>1. t2 # s /\ section_num[t1] < section_num[t2]
        BY <1>4, <1>14, <2>2, <3>3, <3>5 DEF Numbered
      <4> QED
        BY <1>6, <3>3, <4>1
    <3> QED
      BY <3>4, <3>5
  \* s had no number before: giving it one takes none away.
  <2>3. section_num[s] = 0
    BY <1>2, <1>4, <1>14 DEF Numbered
  <2>4. ASSUME NEW k \in 1 .. (last_num + 1)
        PROVE  \E t \in Sect : section_num'[t] = k
    <3>1. CASE k = last_num + 1
      BY <1>2, <1>6, <3>1
    <3>2. CASE k # last_num + 1
      <4>1. k \in 1 .. last_num /\ k # 0
        BY <1>5, <3>2
      <4>2. PICK t \in Sect : section_num[t] = k
        BY <1>4, <4>1 DEF Numbered
      <4>3. t # s
        BY <2>3, <4>1, <4>2
      <4> QED
        BY <1>6, <4>2, <4>3
    <3> QED
      BY <3>1, <3>2
  <2>5. ASSUME NEW t \in Sect, section_num'[t] # 0
        PROVE  \E n \in live : (Passed(n) \/ n = uptr) /\ sect_ptr[n] = t
    <3>1. CASE t = s
      BY <1>2, <3>1
    <3>2. CASE t # s
      <4>1. section_num[t] # 0
        BY <1>6, <2>5, <3>2
      <4> QED
        BY <1>4, <4>1 DEF Numbered
    <3> QED
      BY <3>1, <3>2
  <2>6. \A n \in live, t \in Sect :
          Passed(n)' /\ sect_ptr[n] = t => section_num'[t] \in 1 .. last_num'
    BY <1>2, <1>6, <2>1
  <2>7. \A n1, n2 \in live, t1, t2 \in Sect :
          /\ Passed(n1)' /\ Passed(n2)' /\ AP!Before(n1, n2)'
          /\ sect_ptr[n1] = t1 /\ sect_ptr[n2] = t2
          => section_num'[t1] < section_num'[t2]
    BY <1>2, <2>2
  <2>8. \A t \in Sect : section_num'[t] # 0 => \E n \in live : Passed(n)' /\ sect_ptr[n] = t
    BY <1>2, <2>5
  <2> QED
    BY <1>1, <1>6, <2>4, <2>6, <2>7, <2>8 DEF Numbered
<1>16. Placed'
  <2>1. ASSUME NEW n \in live, NEW t \in Sect, Passed(n)', sect_ptr[n] = t
        PROVE  /\ s_scnptr'[t] # 0 <=> UP!HasRawData(t)
               /\ \A i \in Input : out_sec[i] = t => in_paddr'[i] = UP!PartAddress(i, t)
    <3>1. CASE n = uptr
      <4>1. t = s /\ (raw <=> UP!HasRawData(t)) /\ file_offset # 0
        BY <1>5, <1>11, <2>1, <3>1 DEF raw
      <4> QED
        BY <1>7, <1>8, <4>1
    <3>2. CASE n # uptr
      <4>1. Passed(n) /\ t # s
        BY <1>2, <1>14, <2>1, <3>2
      <4>2. /\ s_scnptr[t] # 0 <=> UP!HasRawData(t)
            /\ \A i \in Input : out_sec[i] = t => in_paddr[i] = UP!PartAddress(i, t)
        BY <1>4, <2>1, <4>1 DEF Placed
      <4> QED
        BY <1>7, <1>8, <4>1, <4>2
    <3> QED
      BY <3>1, <3>2
  <2> QED
    BY <1>1, <1>10, <2>1 DEF Placed
<1>17. RawDataApart'
  <2>1. HeadersEnd' <= file_offset'
    BY <1>5, <1>10, <1>11, <1>12
  <2>2. \A t \in Sect : s_scnptr[t] \in Nat /\ s_size[t] \in Nat
    BY <1>1, <1>5
  <2>3. \A t \in Sect : t # s /\ s_scnptr[t] # 0 => s_scnptr[t] + s_size[t] <= file_offset
    BY <1>4 DEF RawDataApart
  <2>4. ASSUME NEW t \in Sect, s_scnptr'[t] # 0
        PROVE  /\ UP!HasRawData(t)
               /\ HeadersEnd <= s_scnptr'[t] /\ s_scnptr'[t] + s_size'[t] <= file_offset'
               /\ \A u \in Sect \ {t} : s_scnptr'[u] # 0 =>
                    \/ s_scnptr'[t] + s_size'[t] <= s_scnptr'[u]
                    \/ s_scnptr'[u] + s_size'[u] <= s_scnptr'[t]
    <3>1. CASE t = s
      <4>1. /\ UP!HasRawData(t) /\ raw /\ s_scnptr'[t] = file_offset
            /\ s_size'[t] = s_size[t] /\ file_offset' = file_offset + s_size[t]
        BY <1>7, <2>4, <3>1 DEF raw
      <4>2. \A u \in Sect \ {t} : s_scnptr'[u] # 0 => s_scnptr'[u] + s_size'[u] <= file_offset
        BY <1>7, <2>3, <3>1
      <4>3. file_offset + s_size[t] <= file_offset'
        BY <1>5, <2>2, <4>1
      <4> QED
        BY <1>11, <4>1, <4>2, <4>3
    <3>2. CASE t # s
      <4>1. s_scnptr'[t] = s_scnptr[t] /\ s_size'[t] = s_size[t] /\ s_scnptr[t] # 0
        BY <1>7, <2>4, <3>2
      <4>2. /\ UP!HasRawData(t) /\ HeadersEnd <= s_scnptr[t]
            /\ s_scnptr[t] + s_size[t] <= file_offset
            /\ \A u \in Sect \ {t} : s_scnptr[u] # 0 =>
                 s_scnptr[t] + s_size[t] <= s_scnptr[u] \/ s_scnptr[u] + s_size[u] <= s_scnptr[t]
        BY <1>4, <4>1 DEF RawDataApart
      <4>3. s_scnptr[t] + s_size[t] <= file_offset'
        BY <1>5, <1>12, <2>2, <4>2
      <4>4. ASSUME NEW u \in Sect \ {t}, s_scnptr'[u] # 0
            PROVE  \/ s_scnptr'[t] + s_size'[t] <= s_scnptr'[u]
                   \/ s_scnptr'[u] + s_size'[u] <= s_scnptr'[t]
        <5>1. CASE u = s
          <6>1. s_scnptr'[u] = file_offset
            BY <1>7, <4>4, <5>1
          <6> QED
            BY <4>1, <4>2, <6>1
        <5>2. CASE u # s
          BY <1>7, <4>1, <4>2, <4>4, <5>2
        <5> QED
          BY <5>1, <5>2
      <4> QED
        BY <4>1, <4>2, <4>3, <4>4
    <3> QED
      BY <3>1, <3>2
  <2>5. (pcU' # "start" => HeadersEnd' <= file_offset')
    BY <2>1
  <2> QED
    BY <1>10, <2>4, <2>5 DEF RawDataApart
<1>18. LinesApart'
  BY <1>4, <1>5, <1>9 DEF LinesApart
<1> QED
  BY <1>13, <1>15, <1>16, <1>17, <1>18 DEF UpdateInv

\* The other steps of the walks pass no section, and change nothing of what the
\* first walk has determined.
LEMMA StillPlaced ==
  ASSUME Inv, UpdateSectionInformation, ~ UP!UpdateSection
  PROVE  Numbered' /\ Placed'
<1>1. /\ UNCHANGED <<collecting, allocating>>
      /\ UNCHANGED <<out_sec, data_disp, in_size, s_paddr, live, sect_ptr, mem_ptr>>
      /\ UNCHANGED <<section_num, s_scnptr, in_paddr, last_num>>
  BY DEF UpdateSectionInformation, collecting, allocating, UP!Next, UP!Start, UP!SkipFree,
         UP!StartLines, UP!UpdateLines, UP!Finish, UP!result
<1>2. /\ \A n \in live : Passed(n)' <=> Passed(n)
      /\ \A k, n \in live : AP!Before(k, n)' <=> AP!Before(k, n)
  BY PassedStep
<1>3. /\ \A t \in Sect : UP!HasRawData(t)' <=> UP!HasRawData(t)
      /\ \A i \in Input : \A t \in Sect : UP!PartAddress(i, t)' = UP!PartAddress(i, t)
  BY <1>1 DEF UP!HasRawData, UP!HasData, UP!PartsOf, UP!SegmentUninit, UP!PartAddress
<1>4. Numbered /\ Placed
  BY DEF Inv, UpdateInv
<1>5. Numbered'
  <2>1. \A n \in live, t \in Sect :
          Passed(n)' /\ sect_ptr[n] = t => section_num[t] \in 1 .. last_num
    BY <1>2, <1>4 DEF Numbered
  <2>2. \A n1, n2 \in live, t1, t2 \in Sect :
          /\ Passed(n1)' /\ Passed(n2)' /\ AP!Before(n1, n2)'
          /\ sect_ptr[n1] = t1 /\ sect_ptr[n2] = t2
          => section_num[t1] < section_num[t2]
    BY <1>2, <1>4 DEF Numbered
  <2>3. \A k \in 1 .. last_num : \E t \in Sect : section_num[t] = k
    BY <1>4 DEF Numbered
  <2>4. \A t \in Sect : section_num[t] # 0 => \E n \in live : Passed(n)' /\ sect_ptr[n] = t
    BY <1>2, <1>4 DEF Numbered
  <2> QED
    BY <1>1, <2>1, <2>2, <2>3, <2>4 DEF Numbered
<1>6. Placed'
  <2>1. \A n \in live, t \in Sect :
          Passed(n)' /\ sect_ptr[n] = t =>
            /\ s_scnptr[t] # 0 <=> UP!HasRawData(t)'
            /\ \A i \in Input : out_sec[i] = t => in_paddr[i] = UP!PartAddress(i, t)'
    BY <1>2, <1>3, <1>4 DEF Placed
  <2> QED
    BY <1>1, <2>1 DEF Placed
<1> QED
  BY <1>5, <1>6

\* The headers of the object file end at a number.
LEMMA HeadersEndNat == Inv => HeadersEnd \in Nat
<1> SUFFICES ASSUME Inv PROVE HeadersEnd \in Nat
  OBVIOUS
<1>1. num_output_sects \in Nat
  BY Numbers DEF Inv, CollectInv, CollectTypes
<1>2. SCNHSZ * num_output_sects \in Nat
  BY <1>1, LayoutAssumption
<1> QED
  BY <1>2, LayoutAssumption DEF HeadersEnd

\* The steps between the sections and between the walks.
LEMMA WalkStep ==
  ASSUME Inv, UpdateSectionInformation,
         UP!Start \/ UP!SkipFree \/ UP!StartLines \/ UP!Finish
  PROVE  UpdateInv'
<1>1. /\ UNCHANGED <<out_sec, in_size, num_output_sects, s_nlnno>>
      /\ UNCHANGED <<s_size, section_num, s_scnptr, s_lnnoptr, last_num>>
      /\ live' = live /\ pcA = "done"
  BY DEF UpdateSectionInformation, collecting, allocating, UP!Start, UP!SkipFree,
         UP!StartLines, UP!Finish, UP!result
<1>2. ~ UP!UpdateSection
  BY LayoutAssumption, ListFacts, <1>1
     DEF UP!Start, UP!SkipFree, UP!StartLines, UP!Finish, UP!UpdateSection, UP!Allocated
<1>3. UpdateTypes /\ RawDataApart /\ LinesApart
  BY DEF Inv, UpdateInv
<1>4. Numbered' /\ Placed'
  BY <1>2, StillPlaced
<1>5. /\ HeadersEnd' = HeadersEnd
      /\ \A t \in Sect : UP!HasRawData(t)' <=> UP!HasRawData(t)
      /\ \A t \in Sect : LinesEnd(t)' = LinesEnd(t)
  BY <1>1 DEF HeadersEnd, UP!HasRawData, UP!HasData, UP!PartsOf, UP!SegmentUninit, LinesEnd
<1>6. uptr' \in live' \cup {NIL}
  BY <1>1, PassedStep
<1>7. CASE UP!Start
  <2>1. /\ pcU = "start" /\ pcU' = "sections" /\ file_offset' = HeadersEnd
        /\ line_ptr' = line_ptr
    BY <1>7 DEF UP!Start, HeadersEnd
  <2>2. /\ \A t \in Sect : s_scnptr[t] = 0 /\ s_lnnoptr[t] = 0
    BY <1>3, <2>1 DEF UpdateTypes, UP!InitResult, UP!Sect, Sect
  <2>3. UpdateTypes'
    BY <1>1, <1>3, <1>6, <2>1, HeadersEndNat DEF UpdateTypes
  <2>4. RawDataApart'
    <3>1. HeadersEnd' <= file_offset'
      BY <1>5, <2>1, HeadersEndNat
    <3> QED
      BY <1>1, <2>2, <3>1 DEF RawDataApart
  <2>5. LinesApart'
    BY <1>1, <2>1, <2>2 DEF LinesApart
  <2> QED
    BY <1>4, <2>3, <2>4, <2>5 DEF UpdateInv
<1>8. CASE UP!StartLines
  <2>1. /\ pcU = "sections" /\ pcU' = "lines" /\ file_offset' = file_offset
        /\ line_ptr' = file_offset /\ file_offset \in Nat
    BY <1>3, <1>8 DEF UP!StartLines, UpdateTypes
  <2>2. UpdateTypes'
    BY <1>1, <1>3, <1>6, <2>1 DEF UpdateTypes
  <2>3. RawDataApart'
    BY <1>1, <1>3, <1>5, <2>1 DEF RawDataApart
  <2>4. LinesApart'
    BY <1>1, <1>3, <2>1 DEF LinesApart
  <2> QED
    BY <1>4, <2>2, <2>3, <2>4 DEF UpdateInv
<1>9. CASE UP!SkipFree \/ UP!Finish
  <2>1. /\ \/ pcU' = pcU /\ pcU # "start"
           \/ pcU = "lines" /\ pcU' = "done"
        /\ UNCHANGED <<file_offset, line_ptr>>
    BY <1>9 DEF UP!SkipFree, UP!Finish
  <2>2. UpdateTypes'
    BY <1>1, <1>3, <1>6, <2>1 DEF UpdateTypes
  <2>3. RawDataApart'
    BY <1>1, <1>3, <1>5, <2>1 DEF RawDataApart
  <2>4. LinesApart'
    BY <1>1, <1>3, <1>5, <2>1 DEF LinesApart
  <2> QED
    BY <1>4, <2>2, <2>3, <2>4 DEF UpdateInv
<1> QED
  BY <1>7, <1>8, <1>9

\* The second walk gives a section that has line entries the place behind those
\* it has laid out.
LEMMA LinesStep ==
  ASSUME Inv, UpdateSectionInformation, UP!UpdateLines
  PROVE  UpdateInv'
<1>1. /\ UNCHANGED <<out_sec, in_size, num_output_sects, s_nlnno>>
      /\ UNCHANGED <<s_size, section_num, s_scnptr, last_num, file_offset>>
      /\ live' = live /\ pcA = "done" /\ pcU = "lines" /\ pcU' = "lines"
      /\ uptr # NIL /\ addr_type[uptr] = "allocated"
      /\ s_nlnno \in [Sect -> Nat]
  BY DEF UpdateSectionInformation, collecting, allocating, UP!UpdateLines, Inv, CollectInv,
         CollectTypes, UP!NIL, NIL
<1>0. PICK s \in Sect : s = sect_ptr[uptr]
  BY <1>1, ListFacts DEF Inv, UpdateInv, UpdateTypes
<1> DEFINE put == ~ sflag /\ s_nlnno[s] # 0
<1>2. ~ UP!UpdateSection
  BY <1>1 DEF UP!UpdateSection, UP!Allocated
<1>3. UpdateTypes /\ RawDataApart /\ LinesApart
  BY DEF Inv, UpdateInv
<1>4. Numbered' /\ Placed'
  BY <1>2, StillPlaced
<1>5. /\ HeadersEnd' = HeadersEnd
      /\ \A t \in Sect : UP!HasRawData(t)' <=> UP!HasRawData(t)
  BY <1>1 DEF HeadersEnd, UP!HasRawData, UP!HasData, UP!PartsOf, UP!SegmentUninit
<1>6. uptr' \in live' \cup {NIL} 
  BY <1>1, PassedStep
<1>7. /\ s_nlnno[s] \in Nat /\ s_nlnno[s] * LINESZ \in Nat
      /\ line_ptr \in Nat /\ file_offset \in Nat /\ file_offset <= line_ptr
      /\ s_lnnoptr \in [Sect -> Nat]
  <2>1. s_nlnno[s] \in Nat
    BY <1>1, <1>0
  <2>2. s_nlnno[s] * LINESZ \in Nat
    BY <2>1, LayoutAssumption
  <2> QED
    BY <1>1, <1>3, <2>1, <2>2 DEF UpdateTypes, LinesApart
<1>8. RawDataApart'
  BY <1>1, <1>3, <1>5 DEF RawDataApart
<1>9. CASE ~ put
  <2>1. UNCHANGED <<s_lnnoptr, line_ptr>>
    BY <1>0, <1>9 DEF UP!UpdateLines
  <2>2. \A t \in Sect : LinesEnd(t)' = LinesEnd(t)
    BY <1>1, <2>1 DEF LinesEnd
  <2>3. LinesApart' /\ UpdateTypes'
    BY <1>1, <1>3, <1>6, <2>1, <2>2 DEF LinesApart, UpdateTypes
  <2> QED
    BY <1>4, <1>8, <2>3 DEF UpdateInv
<1>10. CASE put
  <2>1. /\ s_lnnoptr' = [s_lnnoptr EXCEPT ![s] = line_ptr]
        /\ line_ptr' = line_ptr + s_nlnno[s] * LINESZ
    BY <1>0, <1>10 DEF UP!UpdateLines
  <2>2. /\ s_lnnoptr'[s] = line_ptr
        /\ \A t \in Sect : t # s => s_lnnoptr'[t] = s_lnnoptr[t]
        /\ s_lnnoptr' \in [Sect -> Nat] /\ line_ptr' \in Nat /\ line_ptr <= line_ptr'
    BY <1>6, <1>7, <2>1
  <2>3. /\ LinesEnd(s)' = line_ptr'
        /\ \A t \in Sect : t # s => LinesEnd(t)' = LinesEnd(t)
    BY <1>1, <2>1, <2>2 DEF LinesEnd
  <2>4. \A t \in Sect : LinesEnd(t) \in Nat
    <3>1. ASSUME NEW t \in Sect PROVE s_lnnoptr[t] \in Nat /\ s_nlnno[t] * LINESZ \in Nat
      BY <1>1, <1>7, LayoutAssumption
    <3> QED
      BY <3>1 DEF LinesEnd
  <2>5. UpdateTypes'
    BY <1>1, <1>3, <1>6, <2>2 DEF UpdateTypes
  <2>6. \A t \in Sect : t # s /\ s_lnnoptr[t] # 0 =>
          file_offset <= s_lnnoptr[t] /\ LinesEnd(t) <= line_ptr
    BY <1>3 DEF LinesApart
  <2>7. ASSUME NEW t \in Sect, s_lnnoptr'[t] # 0
        PROVE  /\ file_offset <= s_lnnoptr'[t] /\ LinesEnd(t)' <= line_ptr'
               /\ \A u \in Sect \ {t} : s_lnnoptr'[u] # 0 =>
                    LinesEnd(t)' <= s_lnnoptr'[u] \/ LinesEnd(u)' <= s_lnnoptr'[t]
    <3>1. CASE t = s
      BY <1>7, <2>2, <2>3, <2>6, <3>1
    <3>2. CASE t # s
      <4>1. /\ file_offset <= s_lnnoptr[t] /\ LinesEnd(t) <= line_ptr
            /\ \A u \in Sect \ {t} : s_lnnoptr[u] # 0 =>
                 LinesEnd(t) <= s_lnnoptr[u] \/ LinesEnd(u) <= s_lnnoptr[t]
        BY <1>3, <2>2, <2>7, <3>2 DEF LinesApart
      <4>2. LinesEnd(t) <= line_ptr'
        BY <1>7, <2>2, <2>4, <4>1
      <4>3. ASSUME NEW u \in Sect \ {t}, s_lnnoptr'[u] # 0
            PROVE  LinesEnd(t)' <= s_lnnoptr'[u] \/ LinesEnd(u)' <= s_lnnoptr'[t]
        BY <2>2, <2>3, <3>2, <4>1, <4>3
      <4> QED
        BY <2>2, <2>3, <3>2, <4>1, <4>2, <4>3
    <3> QED
      BY <3>1, <3>2
  <2>8. LinesApart'
    <3>1. file_offset <= line_ptr'
      BY <1>7, <2>2
    <3> QED
      BY <1>1, <2>7, <3>1 DEF LinesApart
  <2> QED
    BY <1>4, <1>8, <2>5, <2>8 DEF UpdateInv
<1> QED
  BY <1>9, <1>10

\* The invariant holds before pass2.
LEMMA InitInv == Init => Inv
<1>1. Init => UP!InitResult
  BY DEF Init
<1> QED
  BY <1>1, InitCollect, InitAllocate, StartInv DEF Inv

\* Every step of the three parts of pass2 keeps it.
LEMMA NextInv == Inv /\ [Next]_vars => Inv'
<1> SUFFICES ASSUME Inv, [Next]_vars PROVE Inv'
  OBVIOUS
\* Until allocate is done nothing is updated.
<1>1. ASSUME pcU = "start", UNCHANGED updating PROVE UpdateInv'
  <2>1. UP!InitResult
    BY <1>1 DEF Inv, UpdateInv, UpdateTypes
  <2>2. (UP!InitResult => UpdateInv)'
    BY StartInv, PTL
  <2>3. UP!InitResult'
    BY <1>1, <2>1 DEF updating, UP!InitResult
  <2> QED
    BY <2>2, <2>3
<1>2. CASE ProcessSectionList
  <2>1. pcU = "start" /\ PS!Next /\ UNCHANGED updating /\ pcU' = pcU
    <3>1. pcP # "done" /\ PS!Next /\ UNCHANGED updating
      BY <1>2 DEF ProcessSectionList, PS!Next, PS!Collect, PS!FinishSection,
                  PS!CheckInputSections
    <3>2. pcA # "done"
      BY <3>1 DEF Inv, AllocateInv
    <3> QED
      BY <3>1, <3>2 DEF Inv, AllocateInv, updating
  <2>2. CollectInv'
    BY <2>1, CollectStep DEF Inv
  <2>3. AllocateInv'
    BY <1>2, <2>2, CollectKeepsAllocate DEF Inv
  <2> QED
    BY <1>1, <2>1, <2>2, <2>3 DEF Inv
<1>3. CASE AllocateSections
  <2>1. pcU = "start" /\ UNCHANGED updating
    <3>1. pcA # "done" /\ UNCHANGED updating
      BY <1>3, AllocateReads DEF AllocateSections
    <3> QED
      BY <3>1 DEF Inv, AllocateInv
  <2> QED
    BY <1>1, <1>3, <2>1, AllocateStep DEF Inv
<1>4. CASE UpdateSectionInformation
  <2>1. UP!Next
    BY <1>4 DEF UpdateSectionInformation
  <2>2. UpdateInv'
    BY <1>4, <2>1, SectionStep, WalkStep, LinesStep DEF UP!Next
  <2> QED
    BY <1>4, <2>2, UpdateKeepsRest DEF Inv
<1>5. CASE UNCHANGED vars
  <2>1. UNCHANGED <<collecting, allocating, updating, s_size>>
    BY <1>5 DEF vars
  <2>2. UNCHANGED <<pcP, act, inp, in_name, in_size, in_lines, out_sec, data_disp, s_nlnno,
                    num_output_sects>>
    BY <2>1 DEF collecting
  <2>3. /\ UNCHANGED <<pcA, sect, mptr, aptr, s_paddr, user_errors>> /\ UNCHANGED AP!nodes
        /\ UNCHANGED <<live, sect_ptr, size, mem_ptr>> /\ UNCHANGED AP!vars
    BY <2>1 DEF allocating, AP!nodes, AP!vars
  <2>4. UNCHANGED <<pcU, uptr, section_num, in_paddr, s_scnptr, s_lnnoptr, file_offset,
                    line_ptr, last_num>>
    BY <2>1 DEF updating
  <2>5. CollectInv'
    <3>1. \A i \in Input : Of(i)' = Of(i)
      BY <2>2 DEF Of, PS!ActionOf
    <3> QED
      BY <2>1, <2>2, <2>4, <3>1, SMTT(30)
         DEF Inv, CollectInv, CollectTypes, Collected, PartsInOrder, PartsInSection, Fits,
             UP!SegmentUninit
  <2>6. AllocateInv'
    <3>1. AP!ListInv'
      BY <2>3, ListAssumptions, AP!ListInvKept DEF Inv, AllocateInv
    <3>2. AP!IInv => AP!IInv'
      <4>1. [AP!Next]_(AP!vars)
        BY <2>3
      <4> QED
        BY <4>1, ListAssumptions, AP!NextIInv
    <3>3. PartsInNode <=> PartsInNode'
      BY <2>2, <2>3 DEF PartsInNode
    <3> QED
      BY <2>2, <2>3, <2>4, <3>1, <3>2, <3>3 DEF Inv, AllocateInv
  <2>7. UpdateTypes' /\ RawDataApart' /\ LinesApart'
    BY <2>1, <2>2, <2>3, <2>4
       DEF Inv, UpdateInv, UpdateTypes, RawDataApart, LinesApart, LinesEnd, HeadersEnd,
           UP!InitResult, UP!HasRawData, UP!HasData, UP!PartsOf, UP!SegmentUninit
  <2>8. Numbered' /\ Placed'
    <3>1. \A n \in live : Passed(n)' <=> Passed(n)
      BY <2>3, <2>4 DEF Passed, AP!Before
    <3>2. \A k, n \in live : AP!Before(k, n)' <=> AP!Before(k, n)
      BY <2>3 DEF AP!Before
    <3>3. /\ \A t \in Sect : UP!HasRawData(t)' <=> UP!HasRawData(t)
          /\ \A i \in Input : \A t \in Sect : UP!PartAddress(i, t)' = UP!PartAddress(i, t)
      BY <2>2, <2>3
         DEF UP!HasRawData, UP!HasData, UP!PartsOf, UP!SegmentUninit, UP!PartAddress
    <3>4. Numbered /\ Placed
      BY DEF Inv, UpdateInv
    <3>5. Numbered'
      BY <2>3, <2>4, <3>1, <3>2, <3>4 DEF Numbered
    <3>6. Placed'
      BY <2>2, <2>3, <2>4, <3>1, <3>3, <3>4 DEF Placed
    <3> QED
      BY <3>5, <3>6
  <2> QED
    BY <2>5, <2>6, <2>7, <2>8 DEF Inv, UpdateInv
<1> QED
  BY <1>2, <1>3, <1>4, <1>5 DEF Next

\* What the three parts of pass2 keep, along every run.
THEOREM SpecInv == Spec => []Inv
BY InitInv, NextInv, PTL DEF Spec

-----------------------------------------------------------------------------
(* What they promise.                                                      *)

\* Every input section joins the first output section of its name.
THEOREM JoinsFirst == Spec => []FirstOfName
<1>1. Inv => FirstOfName
  <2> SUFFICES ASSUME Inv, act > NSect, NEW i \in Input PROVE out_sec[i] = Of(i)
    BY DEF FirstOfName, PS!FirstOfName, PS!Input, Input, Of
  <2>1. Of(i) \in Sect /\ act \in 1 .. (NSect + 1)
    BY OfFirst DEF Inv, CollectInv, CollectTypes
  <2>2. Of(i) < act
    BY <2>1, Numbers DEF Sect
  <2> QED
    BY <2>2 DEF Inv, CollectInv, Collected
<1> QED
  BY <1>1, SpecInv, PTL

\* What the line entries of the parts so far are counted and placed by.
LineInv ==
  /\ line_disp \in [Input -> Nat]
  /\ \A a \in Sect : IsFiniteSet(LineEntries(a))
  /\ LinesTile

\* A section has no line entries before it has parts.
LEMMA InitLines == Init => LineInv
<1> SUFFICES ASSUME Init PROVE LineInv
  OBVIOUS
<1>1. /\ out_sec = [i \in Input |-> NIL] /\ line_disp = [i \in Input |-> 0]
      /\ s_nlnno = [a \in Sect |-> 0]
  BY DEF Init, PS!Init, PS!Input, PS!Sect, PS!NIL, Input, Sect, NIL
<1>2. ASSUME NEW a \in Sect PROVE PartsOf(a) = {} /\ LineEntries(a) = {}
  <2>1. PartsOf(a) = {}
    BY <1>1, Numbers DEF PartsOf, NIL
  <2> QED
    BY <2>1 DEF LineEntries
<1>3. \A a \in Sect : IsFiniteSet(LineEntries(a)) /\ Cardinality(LineEntries(a)) = 0
  BY <1>2, FS_EmptySet
<1> QED
  BY <1>1, <1>2, <1>3 DEF LineInv, LinesTile

\* Input section inp brings its line entries, which section act did not have.
LEMMA EntriesAdded ==
  ASSUME CollectInv, act \in Sect, inp \in Input,
         PS!Wanted(inp, act), PS!AddInputSection(inp, act),
         UNCHANGED <<act, in_lines>>,
         IsFiniteSet(LineEntries(act))
  PROVE  /\ PartsOf(act)' = PartsOf(act) \cup {inp} /\ inp \notin PartsOf(act)
         /\ \A a \in Sect : a # act =>
              PartsOf(a)' = PartsOf(a) /\ LineEntries(a)' = LineEntries(a)
         /\ IsFiniteSet(LineEntries(act)')
         /\ Cardinality(LineEntries(act)') = Cardinality(LineEntries(act)) + in_lines[inp]
<1>1. /\ out_sec[inp] = NIL /\ out_sec'[inp] = act
      /\ \A i \in Input : i # inp => out_sec'[i] = out_sec[i]
      /\ \A a \in Sect : a # NIL
      /\ in_lines[inp] \in Nat
  BY Numbers
     DEF CollectInv, CollectTypes, PS!Wanted, PS!NIL, PS!AddInputSection, NIL
<1>2. PartsOf(act)' = PartsOf(act) \cup {inp} /\ inp \notin PartsOf(act)
  BY <1>1 DEF PartsOf
<1>3. ASSUME NEW a \in Sect, a # act
      PROVE  PartsOf(a)' = PartsOf(a) /\ LineEntries(a)' = LineEntries(a)
  <2>1. PartsOf(a)' = PartsOf(a)
    BY <1>1, <1>3 DEF PartsOf
  <2> QED
    BY <2>1 DEF LineEntries
<1> DEFINE new == {inp} \X (1 .. in_lines[inp])
<1>4. LineEntries(act)' = LineEntries(act) \cup new /\ LineEntries(act) \cap new = {}
  BY <1>2 DEF LineEntries
<1>5. IsFiniteSet(new) /\ Cardinality(new) = in_lines[inp]
  <2>1. IsFiniteSet({inp}) /\ Cardinality({inp}) = 1
    BY FS_Singleton
  <2>2. IsFiniteSet(1 .. in_lines[inp]) /\ Cardinality(1 .. in_lines[inp]) = in_lines[inp]
    <3>1. /\ IsFiniteSet(1 .. in_lines[inp])
          /\ Cardinality(1 .. in_lines[inp])
             = IF 1 > in_lines[inp] THEN 0 ELSE in_lines[inp] - 1 + 1
      BY <1>1, FS_Interval
    <3> QED
      BY <1>1, <3>1
  <2>3. /\ IsFiniteSet({inp} \X (1 .. in_lines[inp]))
        /\ Cardinality({inp} \X (1 .. in_lines[inp]))
           = Cardinality({inp}) * Cardinality(1 .. in_lines[inp])
    BY <2>1, <2>2, FS_Product, Zenon
  <2>4. 1 * in_lines[inp] = in_lines[inp]
    BY <1>1
  <2> QED
    BY <2>1, <2>2, <2>3, <2>4
<1> HIDE DEF new
<1>6. /\ IsFiniteSet(LineEntries(act) \cup new)
      /\ Cardinality(LineEntries(act) \cup new)
         = Cardinality(LineEntries(act)) + Cardinality(new) - Cardinality({})
  BY <1>4, <1>5, FS_Union
<1>7. Cardinality({}) = 0 /\ Cardinality(LineEntries(act)) \in Nat
  BY FS_EmptySet, FS_CardinalityType
<1> QED
  BY <1>1, <1>2, <1>3, <1>4, <1>5, <1>6, <1>7

\* They go behind those of the parts it has; the sum is below the range of the
\* counter only if it was so before.
LEMMA LinesAdded ==
  ASSUME CollectInv, LineInv, act \in Sect, inp \in Input,
         PS!Wanted(inp, act), PS!AddInputSection(inp, act),
         UNCHANGED <<act, in_lines>>
  PROVE  LineInv'
<1> DEFINE old == Cardinality(LineEntries(act))
<1>1. /\ inp \in Nat /\ s_nlnno[act] \in Nat /\ in_lines[inp] \in Nat
      /\ \A i \in Input : line_disp[i] \in Nat /\ in_lines[i] \in Nat /\ i \in Nat
      /\ LnnoRange \in Nat \ {0}
  BY Numbers, LayoutAssumption DEF CollectInv, CollectTypes, LineInv
<1>2. /\ PartsOf(act)' = PartsOf(act) \cup {inp} /\ inp \notin PartsOf(act)
      /\ \A a \in Sect : a # act => PartsOf(a)' = PartsOf(a) /\ LineEntries(a)' = LineEntries(a)
      /\ IsFiniteSet(LineEntries(act)')
      /\ Cardinality(LineEntries(act)') = old + in_lines[inp]
  BY EntriesAdded DEF LineInv
<1>3. old \in Nat
  BY FS_CardinalityType DEF LineInv
<1> HIDE DEF old
<1>4. /\ line_disp' \in [Input -> Nat] /\ line_disp'[inp] = s_nlnno[act]
      /\ \A i \in Input : i # inp => line_disp'[i] = line_disp[i]
      /\ s_nlnno'[act] = (s_nlnno[act] + in_lines[inp]) % LnnoRange
      /\ \A a \in Sect : a # act => s_nlnno'[a] = s_nlnno[a]
  BY <1>1 DEF PS!AddInputSection, CollectInv, CollectTypes, LineInv
<1>5. \A j \in PartsOf(act) : j \in Input /\ j < inp
  <2>1. SUFFICES ASSUME NEW j \in Input, out_sec[j] = act PROVE j < inp
    BY DEF PartsOf
  <2>2. out_sec[j] # NIL /\ Of(j) = act
    BY <2>1, Numbers DEF CollectInv, Collected, NIL
  <2>3. ~ (Of(j) < act)
    BY <2>2, Numbers
  <2> QED
    BY <2>2, <2>3 DEF CollectInv, Collected
<1>6. ASSUME old + in_lines[inp] < LnnoRange
      PROVE  /\ s_nlnno'[act] = old + in_lines[inp]
             /\ \A i \in PartsOf(act) \cup {inp} :
                  /\ line_disp'[i] + in_lines[i] <= s_nlnno'[act]
                  /\ \A j \in PartsOf(act) \cup {inp} :
                       j < i => line_disp'[j] + in_lines[j] <= line_disp'[i]
  <2>1. /\ old < LnnoRange
        /\ s_nlnno[act] = old
        /\ \A i \in PartsOf(act) :
             /\ line_disp[i] + in_lines[i] <= s_nlnno[act]
             /\ \A j \in PartsOf(act) : j < i => line_disp[j] + in_lines[j] <= line_disp[i]
    <3>1. old < LnnoRange
      BY <1>1, <1>3, <1>6
    <3> QED
      BY <3>1 DEF LineInv, LinesTile, old
  <2>2. s_nlnno'[act] = old + in_lines[inp]
    <3>1. \A x \in Nat : x < LnnoRange => x % LnnoRange = x
      BY <1>1
    <3> QED
      BY <1>1, <1>3, <1>4, <1>6, <2>1, <3>1
  <2>3. ASSUME NEW i \in PartsOf(act) \cup {inp}
        PROVE  line_disp'[i] + in_lines[i] <= s_nlnno'[act]
    <3>1. CASE i = inp
      BY <1>1, <1>4, <2>1, <2>2, <3>1
    <3>2. CASE i \in PartsOf(act)
      <4>1. /\ line_disp'[i] = line_disp[i] /\ line_disp[i] \in Nat /\ in_lines[i] \in Nat
            /\ line_disp[i] + in_lines[i] <= old
        BY <1>1, <1>2, <1>4, <1>5, <2>1, <3>2
      <4> QED
        BY <1>1, <1>3, <2>2, <4>1
    <3> QED
      BY <3>1, <3>2
  <2>4. ASSUME NEW i \in PartsOf(act) \cup {inp}, NEW j \in PartsOf(act) \cup {inp}, j < i
        PROVE  line_disp'[j] + in_lines[j] <= line_disp'[i]
    <3>1. j \in PartsOf(act)
      <4>1. i <= inp /\ i \in Nat
        <5>1. CASE i = inp
          BY <1>1, <5>1
        <5>2. CASE i \in PartsOf(act)
          <6>1. i \in Input /\ i < inp
            BY <1>5, <5>2
          <6>2. i \in Nat
            BY <1>1, <6>1
          <6> QED
            BY <1>1, <6>1, <6>2
        <5> QED
          BY <5>1, <5>2
      <4>2. j # inp
        BY <1>1, <2>4, <4>1
      <4> QED
        BY <4>2
    <3>2. CASE i = inp
      BY <1>2, <1>4, <1>5, <2>1, <3>1, <3>2
    <3>3. CASE i \in PartsOf(act)
      BY <1>2, <1>4, <1>5, <2>1, <2>4, <3>1, <3>3
    <3> QED
      BY <3>2, <3>3
  <2> QED
    BY <2>2, <2>3, <2>4
<1>7. ASSUME NEW a \in Sect, a # act, Cardinality(LineEntries(a)) < LnnoRange
      PROVE  /\ s_nlnno'[a] = Cardinality(LineEntries(a))
             /\ \A i \in PartsOf(a) :
                  /\ line_disp'[i] + in_lines[i] <= s_nlnno'[a]
                  /\ \A j \in PartsOf(a) :
                       j < i => line_disp'[j] + in_lines[j] <= line_disp'[i]
  <2>1. \A i \in PartsOf(a) : line_disp'[i] = line_disp[i]
    <3>1. out_sec[inp] # a
      BY <1>7, Numbers DEF PS!Wanted, PS!NIL
    <3> QED
      BY <1>4, <3>1 DEF PartsOf
  <2> QED
    BY <1>4, <1>7, <2>1 DEF LineInv, LinesTile
<1>8. \A a \in Sect : IsFiniteSet(LineEntries(a)')
  BY <1>2 DEF LineInv
<1>9. LinesTile'
  BY <1>2, <1>6, <1>7 DEF LinesTile
<1> QED
  BY <1>4, <1>8, <1>9 DEF LineInv

\* No other step of the pass touches line entries.
LEMMA LinesKept == Inv /\ LineInv /\ [Next]_vars => LineInv'
<1> SUFFICES ASSUME Inv, LineInv, [Next]_vars PROVE LineInv'
  OBVIOUS
<1>1. ASSUME UNCHANGED <<in_lines, out_sec, line_disp, s_nlnno>> PROVE LineInv'
  <2>1. \A a \in Sect : PartsOf(a)' = PartsOf(a) /\ LineEntries(a)' = LineEntries(a)
    BY <1>1 DEF PartsOf, LineEntries
  <2> QED
    BY <1>1, <2>1 DEF LineInv, LinesTile
<1>2. CASE ProcessSectionList
  <2>1. CASE PS!Collect
    <3>1. act \in Sect /\ inp \in Input /\ UNCHANGED <<act, in_lines>>
      BY <2>1 DEF PS!Collect, PS!Sect, PS!Input, PS!inputs, Sect, Input
    <3>2. CASE PS!Wanted(inp, act)
      BY <2>1, <3>1, <3>2, LinesAdded DEF PS!Collect, Inv
    <3>3. CASE ~ PS!Wanted(inp, act)
      BY <1>1, <2>1, <3>1, <3>3 DEF PS!Collect, PS!outputs
    <3> QED
      BY <3>2, <3>3
  <2>2. CASE PS!FinishSection \/ PS!CheckInputSections
    BY <1>1, <2>2 DEF PS!FinishSection, PS!CheckInputSections, PS!inputs, PS!outputs
  <2> QED
    BY <1>2, <2>1, <2>2 DEF ProcessSectionList, PS!Next
<1>3. CASE AllocateSections \/ UpdateSectionInformation \/ UNCHANGED vars
  BY <1>1, <1>3 DEF AllocateSections, UpdateSectionInformation, vars, collecting
<1> QED
  BY <1>2, <1>3 DEF Next

\* The line entries of the input sections tile those of their output section, as
\* far as s_nlnno can count them (add_input_section).
THEOREM LinesPlaced == Spec => []LinesTile
<1>1. LineInv => LinesTile
  BY DEF LineInv
<1> QED
  BY <1>1, InitLines, LinesKept, SpecInv, PTL DEF Spec

\* At the end every input section is part of a section, and the walk has passed
\* every node that records one.
LEMMA DoneFacts ==
  ASSUME Inv, Done
  PROVE  /\ pcA = "done" /\ pcP = "done"
         /\ num_output_sects = NSect
         /\ \A i \in Input : out_sec[i] \in Sect /\ out_sec[i] # NIL
         /\ \A n \in live : sect_ptr[n] # NIL => Passed(n)
<1>1. pcA = "done" /\ pcP = "done"
  BY DEF Done, Inv, AllocateInv
<1>2. act = NSect + 1 /\ num_output_sects = NSect
  BY <1>1, Numbers DEF Inv, CollectInv, CollectTypes
<1>3. ASSUME NEW i \in Input PROVE out_sec[i] \in Sect /\ out_sec[i] # NIL
  <2>1. Of(i) \in Sect
    BY OfFirst DEF Inv, CollectInv, CollectTypes
  <2>2. Of(i) < act
    BY <1>2, <2>1, Numbers DEF Sect
  <2> QED
    BY <2>1, <2>2 DEF Inv, CollectInv, Collected
<1>4. \A n \in live : sect_ptr[n] # NIL => Passed(n)
  BY DEF Done, Passed
<1> QED
  BY <1>1, <1>2, <1>3, <1>4

\* A part of a bound section lies in the node of the section, and that in its
\* segment.
LEMMA PartPlaced ==
  ASSUME Inv, Done, NEW i \in Input, Bound(out_sec[i])
  PROVE  \E n \in live :
           /\ sect_ptr[n] = out_sec[i] /\ SegmentsOf(out_sec[i]) = {mem_ptr[n]}
           /\ n \in Nat /\ mem_ptr[n] \in Mem
           /\ addr[n] \in Nat /\ size[n] \in Nat
           /\ in_paddr[i] = addr[n] + (data_disp[i] \div SectWord[out_sec[i]])
           /\ in_paddr[i] \in Nat /\ InputWords(i) \in Nat
           /\ PartEnd(i) = in_paddr[i] + InputWords(i)
           /\ addr[n] <= in_paddr[i] /\ PartEnd(i) <= addr[n] + size[n]
           /\ MemStart[mem_ptr[n]] <= addr[n]
           /\ addr[n] + size[n] <= AL!SegmentEnd(mem_ptr[n])
<1> DEFINE s == out_sec[i]
           w == SectWord[s]
<1>1. /\ s \in Sect /\ s # NIL /\ w \in Nat \ {0}
      /\ data_disp[i] \in Nat /\ in_size[i] \in Nat /\ pcA = "done"
  BY DoneFacts, Numbers DEF Inv, CollectInv, CollectTypes
<1>2. AP!FieldsOK /\ AP!Recorded /\ AP!NodesInside
  BY DEF Inv, AllocateInv, AP!ListInv
<1>3. PICK n \in live : sect_ptr[n] = s
  BY <1>1, <1>2 DEF AP!Recorded, AP!Bound, AP!Unbound, Bound, AL!Unbound, AP!Sect, Sect
<1>4. /\ n \in Nat /\ mem_ptr[n] \in Mem /\ addr[n] \in Nat /\ size[n] \in Nat
  <2>1. n \in Nat /\ mem_ptr[n] \in Mem
    BY <1>1, ListFacts
  <2>2. addr[n] \in Nat /\ size[n] \in Nat
    BY <1>2 DEF AP!FieldsOK
  <2> QED
    BY <2>1, <2>2
<1>5. s_paddr[s] = addr[n]
  BY <1>1, <1>2, <1>3 DEF AP!Recorded, AP!NIL, NIL
<1>6. SegmentsOf(s) = {mem_ptr[n]}
  <2>1. \A k \in live : sect_ptr[k] = s => k = n
    BY <1>1, <1>3, ListFacts
  <2> QED
    BY <1>3, <2>1 DEF SegmentsOf
<1>7. in_paddr[i] = addr[n] + (data_disp[i] \div w)
  <2>1. Passed(n)
    BY <1>1, <1>3, DoneFacts
  <2>2. in_paddr[i] = UP!PartAddress(i, s)
    BY <1>1, <1>3, <2>1 DEF Inv, UpdateInv, Placed
  <2> QED
    BY <1>5, <2>2 DEF UP!PartAddress
<1>8. /\ data_disp[i] \div w \in Nat /\ in_size[i] \div w \in Nat
      /\ (data_disp[i] + in_size[i]) \div w \in Nat
      /\ (data_disp[i] \div w) + (in_size[i] \div w) <= (data_disp[i] + in_size[i]) \div w
  <2>1. data_disp[i] + in_size[i] \in Nat
    BY <1>1
  <2> QED
    BY <1>1, <2>1, DivNat, DivSum
<1>9. (data_disp[i] + in_size[i]) \div w <= size[n]
  BY <1>1, <1>3 DEF Inv, AllocateInv, PartsInNode
<1>10. /\ MemStart[mem_ptr[n]] <= addr[n] /\ addr[n] + size[n] <= AL!SegmentEnd(mem_ptr[n])
  BY <1>2 DEF AP!NodesInside, AP!NodeEnd, AP!SegmentEnd, AL!SegmentEnd
<1>11. PartEnd(i) = in_paddr[i] + InputWords(i) /\ InputWords(i) = in_size[i] \div w
  BY DEF PartEnd, InputWords
<1> HIDE DEF w
<1>12. PartEnd(i) <= addr[n] + size[n] /\ addr[n] <= in_paddr[i] /\ in_paddr[i] \in Nat
  BY <1>4, <1>7, <1>8, <1>9, <1>11
<1> QED
  BY <1>3, <1>4, <1>6, <1>7, <1>8, <1>10, <1>11, <1>12 DEF w

\* No two input sections share an address, unless their segments do.
LEMMA ApartWhenDone ==
  ASSUME Inv, Done, NEW i \in Input, NEW j \in Input, i < j,
         Bound(out_sec[i]), Bound(out_sec[j]),
         AL!Overlapping(in_paddr[i], PartEnd(i), in_paddr[j], PartEnd(j))
  PROVE  \E m1 \in SegmentsOf(out_sec[i]), m2 \in SegmentsOf(out_sec[j]) :
           /\ m1 # m2
           /\ AL!Overlapping(MemStart[m1], AL!SegmentEnd(m1), MemStart[m2], AL!SegmentEnd(m2))
<1>1. PICK n \in live :
        /\ sect_ptr[n] = out_sec[i] /\ SegmentsOf(out_sec[i]) = {mem_ptr[n]}
        /\ n \in Nat /\ mem_ptr[n] \in Mem
        /\ addr[n] \in Nat /\ size[n] \in Nat
        /\ in_paddr[i] = addr[n] + (data_disp[i] \div SectWord[out_sec[i]])
        /\ in_paddr[i] \in Nat /\ InputWords(i) \in Nat
        /\ PartEnd(i) = in_paddr[i] + InputWords(i)
        /\ addr[n] <= in_paddr[i] /\ PartEnd(i) <= addr[n] + size[n]
        /\ MemStart[mem_ptr[n]] <= addr[n]
        /\ addr[n] + size[n] <= AL!SegmentEnd(mem_ptr[n])
  BY PartPlaced
<1>2. PICK k \in live :
        /\ sect_ptr[k] = out_sec[j] /\ SegmentsOf(out_sec[j]) = {mem_ptr[k]}
        /\ k \in Nat /\ mem_ptr[k] \in Mem
        /\ addr[k] \in Nat /\ size[k] \in Nat
        /\ in_paddr[j] = addr[k] + (data_disp[j] \div SectWord[out_sec[j]])
        /\ in_paddr[j] \in Nat /\ InputWords(j) \in Nat
        /\ PartEnd(j) = in_paddr[j] + InputWords(j)
        /\ addr[k] <= in_paddr[j] /\ PartEnd(j) <= addr[k] + size[k]
        /\ MemStart[mem_ptr[k]] <= addr[k]
        /\ addr[k] + size[k] <= AL!SegmentEnd(mem_ptr[k])
  BY PartPlaced
<1>3. in_paddr[i] < PartEnd(j) /\ in_paddr[j] < PartEnd(i)
  BY DEF AL!Overlapping
\* Two parts of one section lie one behind the other.
<1>4. n # k
  <2>1. SUFFICES ASSUME n = k PROVE FALSE
    OBVIOUS
  <2> DEFINE s == out_sec[i]
             w == SectWord[s]
  <2>2. out_sec[j] = s /\ s # NIL /\ s \in Sect /\ w \in Nat \ {0}
    BY <1>1, <1>2, <2>1, DoneFacts, Numbers
  <2>3. /\ data_disp[i] \in Nat /\ in_size[i] \in Nat /\ data_disp[j] \in Nat
        /\ data_disp[i] + in_size[i] \in Nat
        /\ data_disp[i] + in_size[i] <= data_disp[j]
    BY <2>2 DEF Inv, CollectInv, CollectTypes, PartsInOrder
  <2>4. /\ data_disp[i] \div w \in Nat /\ in_size[i] \div w \in Nat
        /\ data_disp[j] \div w \in Nat /\ (data_disp[i] + in_size[i]) \div w \in Nat
        /\ (data_disp[i] \div w) + (in_size[i] \div w) <= (data_disp[i] + in_size[i]) \div w
        /\ (data_disp[i] + in_size[i]) \div w <= data_disp[j] \div w
    BY <2>2, <2>3, DivNat, DivSum, DivMonotone
  <2>5. /\ in_paddr[i] = addr[n] + (data_disp[i] \div w)
        /\ in_paddr[j] = addr[n] + (data_disp[j] \div w)
        /\ PartEnd(i) = in_paddr[i] + (in_size[i] \div w)
    BY <1>1, <1>2, <2>1, <2>2 DEF PartEnd, InputWords
  <2> HIDE DEF w
  <2> QED
    BY <1>1, <1>3, <2>4, <2>5
\* Two nodes of a segment do not overlap.
<1>5. mem_ptr[n] # mem_ptr[k]
  <2>1. SUFFICES ASSUME mem_ptr[n] = mem_ptr[k] PROVE FALSE
    OBVIOUS
  <2>2. addr[n] + size[n] <= addr[k] \/ addr[k] + size[k] <= addr[n]
    <3>1. n < k \/ k < n
      BY <1>1, <1>2, <1>4
    <3> QED
      BY <2>1, <3>1 DEF Inv, AllocateInv, AP!ListInv, AP!AddressOrder, AP!NodeEnd
  <2> QED
    BY <1>1, <1>2, <1>3, <2>2
<1>6. \A m \in Mem : MemStart[m] \in Nat /\ AL!SegmentEnd(m) \in Nat
  BY MemoryAssumption DEF AL!SegmentEnd, Mem
<1>7. AL!Overlapping(MemStart[mem_ptr[n]], AL!SegmentEnd(mem_ptr[n]),
                     MemStart[mem_ptr[k]], AL!SegmentEnd(mem_ptr[k]))
  BY <1>1, <1>2, <1>3, <1>6 DEF AL!Overlapping
<1> QED
  BY <1>1, <1>2, <1>5, <1>7

\* Input sections are put where they belong and nowhere twice.
THEOREM PlacedOnce == Spec => []InputsPlaced
<1>1. Inv => InputsApart
  BY ApartWhenDone DEF InputsApart
<1>2. Inv => InputsInSegment
  <2> SUFFICES ASSUME Inv, Done, NEW i \in Input, Bound(out_sec[i]),
                      NEW m \in SegmentsOf(out_sec[i])
               PROVE  MemStart[m] <= in_paddr[i] /\ PartEnd(i) <= AL!SegmentEnd(m)
    BY DEF InputsInSegment
  <2>1. PICK n \in live :
          /\ SegmentsOf(out_sec[i]) = {mem_ptr[n]} /\ mem_ptr[n] \in Mem
          /\ addr[n] \in Nat /\ size[n] \in Nat
          /\ in_paddr[i] \in Nat /\ InputWords(i) \in Nat
          /\ PartEnd(i) = in_paddr[i] + InputWords(i)
          /\ addr[n] <= in_paddr[i] /\ PartEnd(i) <= addr[n] + size[n]
          /\ MemStart[mem_ptr[n]] <= addr[n]
          /\ addr[n] + size[n] <= AL!SegmentEnd(mem_ptr[n])
    BY PartPlaced
  <2>2. m = mem_ptr[n]
    BY <2>1
  <2>3. MemStart[m] \in Nat /\ AL!SegmentEnd(m) \in Nat
    BY <2>1, <2>2, MemoryAssumption, SMTT(30) DEF AL!SegmentEnd, Mem
  <2> QED
    BY <2>1, <2>2, <2>3
<1>3. Inv => InputsPlaced
  BY <1>1, <1>2 DEF InputsPlaced
<1> QED
  BY <1>3, SpecInv, PTL

\* When no section was refused, every section has a node that the walk has passed.
LEMMA AllNumbered ==
  ASSUME Inv, Done, user_errors = 0, NEW s \in Sect
  PROVE  \E n \in live :
           /\ sect_ptr[n] = s /\ Passed(n) /\ mem_ptr[n] \in SegmentsOf(s)
           /\ n \in Nat /\ mem_ptr[n] \in Mem /\ addr[n] \in Nat /\ size[n] \in Nat
           /\ s_paddr[s] = addr[n] /\ section_num[s] \in 1 .. last_num
           /\ MemStart[mem_ptr[n]] <= addr[n]
           /\ addr[n] + size[n] <= AL!SegmentEnd(mem_ptr[n])
<1>1. AP!FieldsOK /\ AP!Recorded /\ AP!NodesInside /\ AP!NoneRefused /\ pcA = "done" /\ s # NIL
  BY DoneFacts, Numbers DEF Inv, AllocateInv, AP!ListInv, NIL
<1>2. AP!Bound(s)
  BY <1>1 DEF AP!NoneRefused, AP!Sect, Sect
<1>3. PICK n \in live : sect_ptr[n] = s
  BY <1>1, <1>2 DEF AP!Recorded, AP!Sect, Sect
<1>4. /\ n \in Nat /\ mem_ptr[n] \in Mem
  BY <1>1, ListFacts
<1>5. addr[n] \in Nat /\ size[n] \in Nat
  BY <1>1 DEF AP!FieldsOK
<1>6. s_paddr[s] = addr[n]
  BY <1>1, <1>3 DEF AP!Recorded, AP!NIL, NIL
<1>7. Passed(n)
  BY <1>1, <1>3, DoneFacts
<1>8. section_num[s] \in 1 .. last_num
  BY <1>3, <1>7 DEF Inv, UpdateInv, Numbered
<1>9. MemStart[mem_ptr[n]] <= addr[n] /\ addr[n] + size[n] <= AL!SegmentEnd(mem_ptr[n])
  BY <1>1 DEF AP!NodesInside, AP!NodeEnd, AP!SegmentEnd, AL!SegmentEnd
<1> QED
  BY <1>3, <1>4, <1>5, <1>6, <1>7, <1>8, <1>9 DEF SegmentsOf

\* The numbers of two sections are in the order of their nodes.
LEMMA NumbersFollow ==
  ASSUME Inv, Done, NEW n1 \in live, NEW n2 \in live, NEW s \in Sect, NEW t \in Sect,
         sect_ptr[n1] = s, sect_ptr[n2] = t, Passed(n1), Passed(n2)
  PROVE  /\ section_num[s] = section_num[t] => s = t
         /\ section_num[s] < section_num[t] => AP!Before(n1, n2)
<1>1. \A k, n \in live : k = n \/ AP!Before(k, n) \/ AP!Before(n, k)
  BY BeforeOrder, DoneFacts
<1>2. Numbered /\ section_num[s] \in Nat /\ section_num[t] \in Nat
  BY DEF Inv, UpdateInv, UpdateTypes
<1>3. AP!Before(n1, n2) => section_num[s] < section_num[t]
  BY <1>2 DEF Numbered
<1>4. AP!Before(n2, n1) => section_num[t] < section_num[s]
  BY <1>2 DEF Numbered
<1> QED
  BY <1>1, <1>2, <1>3, <1>4

\* As many numbers are given as there are sections.
LEMMA LastNumber ==
  ASSUME Inv, Done, user_errors = 0
  PROVE  last_num = NSect
<1>1. section_num \in [Sect -> 1 .. last_num] /\ last_num \in Nat /\ NSect \in Nat
  <2>1. \A s \in Sect : section_num[s] \in 1 .. last_num
    BY AllNumbered
  <2>2. section_num \in [Sect -> Nat] /\ last_num \in Nat
    BY DEF Inv, UpdateInv, UpdateTypes
  <2> QED
    BY <2>1, <2>2, Numbers
<1>2. section_num \in Injection(Sect, 1 .. last_num)
  <2>1. ASSUME NEW s \in Sect, NEW t \in Sect, section_num[s] = section_num[t] PROVE s = t
    <3>1. PICK n1 \in live : sect_ptr[n1] = s /\ Passed(n1)
      BY AllNumbered
    <3>2. PICK n2 \in live : sect_ptr[n2] = t /\ Passed(n2)
      BY AllNumbered
    <3> QED
      BY <2>1, <3>1, <3>2, NumbersFollow
  <2> QED
    BY <1>1, <2>1 DEF Injection, IsInjective
<1>3. section_num \in Surjection(Sect, 1 .. last_num)
  <2>1. \A k \in 1 .. last_num : \E s \in Sect : section_num[s] = k
    BY DEF Inv, UpdateInv, Numbered
  <2> QED
    BY <1>1, <2>1 DEF Surjection
<1>4. IsFiniteSet(1 .. last_num) /\ Cardinality(1 .. last_num) = last_num
  <2>1. /\ IsFiniteSet(1 .. last_num)
        /\ Cardinality(1 .. last_num) = IF 1 > last_num THEN 0 ELSE last_num - 1 + 1
    BY <1>1, FS_Interval
  <2> QED
    BY <1>1, <2>1
<1>5. Cardinality(Sect) = NSect
  <2>1. Cardinality(1 .. NSect) = IF 1 > NSect THEN 0 ELSE NSect - 1 + 1
    BY <1>1, FS_Interval
  <2> QED
    BY <1>1, <2>1 DEF Sect
<1>6. Cardinality(Sect) = Cardinality(1 .. last_num)
  BY <1>2, <1>3, <1>4, FS_Injection
<1> QED
  BY <1>4, <1>5, <1>6

\* The sections are numbered without a gap, in the order of their addresses.
THEOREM NumbersSound == Spec => []NumbersInAddressOrder
<1>1. ASSUME Inv, Done, user_errors = 0
      PROVE  {section_num[s] : s \in Sect} = 1 .. num_output_sects
  <2>1. last_num = num_output_sects
    BY <1>1, LastNumber, DoneFacts
  <2>2. \A s \in Sect : section_num[s] \in 1 .. last_num
    BY <1>1, AllNumbered
  <2>3. \A k \in 1 .. last_num : \E s \in Sect : section_num[s] = k
    BY <1>1 DEF Inv, UpdateInv, Numbered
  <2> QED
    BY <2>1, <2>2, <2>3
<1>2. ASSUME Inv, Done, user_errors = 0, NEW s \in Sect, NEW t \in Sect,
             section_num[s] < section_num[t], s_paddr[t] < s_paddr[s]
      PROVE  \E m1 \in SegmentsOf(s), m2 \in SegmentsOf(t) :
               m1 < m2 /\ MemStart[m2] < AL!SegmentEnd(m1)
  <2>1. PICK n1 \in live :
          /\ sect_ptr[n1] = s /\ Passed(n1) /\ mem_ptr[n1] \in SegmentsOf(s)
          /\ n1 \in Nat /\ mem_ptr[n1] \in Mem /\ addr[n1] \in Nat /\ size[n1] \in Nat
          /\ s_paddr[s] = addr[n1]
          /\ addr[n1] + size[n1] <= AL!SegmentEnd(mem_ptr[n1])
    BY <1>2, AllNumbered
  <2>2. PICK n2 \in live :
          /\ sect_ptr[n2] = t /\ Passed(n2) /\ mem_ptr[n2] \in SegmentsOf(t)
          /\ n2 \in Nat /\ mem_ptr[n2] \in Mem /\ addr[n2] \in Nat
          /\ s_paddr[t] = addr[n2]
          /\ MemStart[mem_ptr[n2]] <= addr[n2]
    BY <1>2, AllNumbered
  <2>3. AP!Before(n1, n2)
    BY <1>2, <2>1, <2>2, NumbersFollow
  <2>4. mem_ptr[n1] < mem_ptr[n2]
    <3>1. SUFFICES ASSUME mem_ptr[n1] = mem_ptr[n2], n1 < n2 PROVE FALSE
      BY <2>3 DEF AP!Before
    <3>2. addr[n1] + size[n1] <= addr[n2]
      BY <1>2, <3>1 DEF Inv, AllocateInv, AP!ListInv, AP!AddressOrder, AP!NodeEnd
    <3> QED
      BY <1>2, <2>1, <2>2, <3>2
  <2>5. \A m \in Mem : MemStart[m] \in Nat /\ AL!SegmentEnd(m) \in Nat
    BY MemoryAssumption DEF AL!SegmentEnd, Mem
  <2>6. MemStart[mem_ptr[n2]] < AL!SegmentEnd(mem_ptr[n1])
    BY <1>2, <2>1, <2>2, <2>5
  <2> QED
    BY <2>1, <2>2, <2>4, <2>6
<1>3. Inv => NumbersInAddressOrder
  BY <1>1, <1>2 DEF NumbersInAddressOrder
<1> QED
  BY <1>3, SpecInv, PTL

\* Headers, raw data, line entries and symbol table are apart in the object file.
THEOREM RegionsApart == Spec => []FileRegionsApart
<1>1. ASSUME Inv, Done, NEW i \in Input, s_scnptr[out_sec[i]] # 0
      PROVE  data_disp[i] + in_size[i] <= s_size[out_sec[i]]
  <2>1. out_sec[i] \in Sect /\ out_sec[i] # NIL
    BY <1>1, DoneFacts
  <2>2. UP!HasRawData(out_sec[i])
    BY <1>1, <2>1 DEF Inv, UpdateInv, RawDataApart
  <2> QED
    BY <1>1, <2>1, <2>2 DEF UP!HasRawData, Inv, CollectInv, PartsInSection, Fits
<1>2. Inv => FileRegionsApart
  <2> SUFFICES ASSUME Inv, Done PROVE FileRegionsApart
    BY DEF FileRegionsApart
  <2> QED
    BY <1>1 DEF FileRegionsApart, Inv, UpdateInv, RawDataApart, LinesApart
<1> QED
  BY <1>2, SpecInv, PTL

\* A section has no data in the file exactly if its segment is declared UNINIT.
THEOREM UninitSound == Spec => []UninitAsDeclared
<1>1. ASSUME Inv, Done, NEW i \in Input, in_size[i] > 0, Bound(out_sec[i]),
             NEW m \in SegmentsOf(out_sec[i]),
             \A k \in Mem : MemName[k] = MemName[m] => MemUninit[k] = MemUninit[m]
      PROVE  MemUninit[m] <=> s_scnptr[out_sec[i]] = 0
  <2> DEFINE s == out_sec[i]
  <2>1. PICK n \in live : sect_ptr[n] = s /\ mem_ptr[n] = m /\ m \in Mem
    BY <1>1, PartPlaced
  <2>2. s \in Sect /\ s # NIL /\ Passed(n)
    BY <1>1, <2>1, DoneFacts
  <2>3. MemName[m] = SectName[s]
    BY <1>1, <2>1, <2>2 DEF Inv, AllocateInv, AP!ListInv, AP!Recorded, AP!NIL, NIL
  <2>4. s_scnptr[s] # 0 <=> UP!HasRawData(s)
    BY <1>1, <2>1, <2>2 DEF Inv, UpdateInv, Placed
  <2>5. UP!HasRawData(s) <=> ~ UP!SegmentUninit(SectName[s])
    BY <1>1 DEF UP!HasRawData, UP!HasData, UP!PartsOf, UP!Input, Input
  \* segment_uninit asks the first segment of that name.
  <2>6. UP!SegmentUninit(SectName[s]) <=> MemUninit[m]
    <3> DEFINE T == {k \in Mem : MemName[k] = SectName[s]}
    <3>1. T # {} /\ T \in SUBSET Nat
      BY <2>1, <2>3, Numbers
    <3>2. \E k \in T : \A l \in T : k <= l
      BY <3>1, LeastNumber
    <3>3. \E k \in 1 .. NMem : /\ MemName[k] = SectName[s]
                               /\ \A l \in 1 .. NMem : MemName[l] = SectName[s] => k <= l
      BY <3>2 DEF Mem
    <3>4. PICK k \in Mem : MemName[k] = SectName[s] /\ UP!SegmentUninit(SectName[s]) = MemUninit[k]
      BY <3>3 DEF UP!SegmentUninit, UP!Mem, Mem
    <3>5. MemUninit[k] = MemUninit[m]
      BY <1>1, <2>3, <3>4
    <3> QED
      BY <3>4, <3>5
  <2> QED
    BY <2>4, <2>5, <2>6
<1>2. Inv => UninitAsDeclared
  BY <1>1 DEF UninitAsDeclared
<1> QED
  BY <1>2, SpecInv, PTL
=============================================================================
