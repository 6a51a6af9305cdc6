--------------------------- MODULE Allocate_proofs ---------------------------
(* Proofs about module Allocate, for every memory list and section list.   *)
EXTENDS Allocate, TLAPS

\* Segments, sections and nodes are numbers.
LEMMA Numbers ==
  /\ NMem \in Nat \ {0} /\ NSect \in Nat
  /\ \A m \in Mem : m \in Nat /\ m \in Node
  /\ \A s \in Sect : s \in Nat /\ s + 1 \in 1 .. (NSect + 1) /\ NMem + s \in Node \ Mem
  /\ \A n \in Node : n \in Nat
BY SegmentAssumption, SectionAssumption DEF Mem, Sect, Node

\* The words a section needs are a natural number, and a step changes them for
\* no section: allocate.c only reads s_size.
LEMMA NeedNat ==
  ASSUME TypeOK PROVE \A s \in Sect : Need(s) \in Nat
<1>1. \A a \in Nat, b \in Nat \ {0} : a \div b \in Nat
  OBVIOUS
<1> QED
  BY <1>1, SectionAssumption DEF TypeOK, Need

\* What a section needs is read from its size alone.
LEMMA NeedStable == ASSUME s_size' = s_size PROVE \A s \in Sect : Need(s)' = Need(s)
BY DEF Need

\* The initial state satisfies the inductive invariant.
LEMMA InitIInv == Init => IInv
<1> SUFFICES ASSUME Init PROVE IInv
  OBVIOUS
<1> USE SegmentAssumption, SectionAssumption
<1>0. PICK w \in [Sect -> Words] : s_size = [s \in Sect |-> w[s] * SectWord[s]]
  BY DEF Init
<1>1. s_size \in [Sect -> Nat]
  <2>1. \A a, b \in Nat : a * b \in Nat
    OBVIOUS
  <2>2. \A s \in Sect : w[s] \in Nat /\ SectWord[s] \in Nat
    BY <1>0
  <2> QED
    BY <1>0, <2>1, <2>2
<1>2. TypeOK
  BY <1>1 DEF Init, TypeOK, Mem, Sect, Node, NIL, Unbound
<1> QED
  BY <1>2 DEF Init, IInv, Chained, NodesDisjoint, NodesInside, OneFreeNode,
              BoundToNode, WalkInsideSegment, Bound

-----------------------------------------------------------------------------
\* The actions that only move the cursors leave every node as it was.
LEMMA CursorStep ==
  ASSUME IInv, UNCHANGED <<s_size, s_paddr, nodes>>,
         pc # "space", pc' \in {"section", "memory", "scan", "done", "exit"},
         sect' \in 1 .. (NSect + 1), sect <= sect',
         mptr' \in 1 .. (NMem + 1), aptr' \in Node \cup {NIL}, user_errors' \in Nat,
         pc' \in {"memory", "scan"} => sect' \in Sect,
         pc' = "scan" => MemName[mptr'] = SectName[sect'],
         WalkInsideSegment'
  PROVE  IInv'
<1> USE SegmentAssumption, SectionAssumption DEF nodes
<1>1. TypeOK'
  BY DEF IInv, TypeOK, Unbound
<1>2. Chained'
  BY DEF IInv, Chained, NodeEnd, SegmentEnd, addr_head
<1>3. NodesDisjoint' /\ NodesInside' /\ OneFreeNode'
  BY DEF IInv, NodesDisjoint, NodesInside, OneFreeNode, NodeEnd, SegmentEnd
<1>4. BoundToNode'
  BY DEF IInv, BoundToNode, Bound, Need
<1>5. sect \in 1 .. (NSect + 1)
  BY DEF IInv, TypeOK
<1>6. /\ \A n \in live' : addr_type'[n] = "allocated" => sect_ptr'[n] < sect'
      /\ \A n \in live' \ Mem : n < NMem + sect'
      /\ \A s \in Sect : Bound(s)' => s < sect'
  <2>1. \A n \in live : addr_type[n] = "allocated" =>
          sect_ptr[n] \in Sect \cup {NIL} /\ sect_ptr[n] < sect
    BY DEF IInv, TypeOK
  <2>2. \A n \in live \ Mem : n \in Node /\ n < NMem + sect
    BY DEF IInv, TypeOK
  <2>3. \A s \in Sect : Bound(s)' => Bound(s)
    BY DEF Bound
  <2>4. ASSUME NEW n \in live', addr_type'[n] = "allocated"
        PROVE  sect_ptr'[n] < sect'
    <3>1. n \in live /\ sect_ptr'[n] = sect_ptr[n] /\ addr_type[n] = "allocated"
      BY <2>4
    <3>2. sect_ptr[n] \in Int /\ sect_ptr[n] < sect
      BY <2>1, <3>1 DEF Sect, NIL
    <3> QED
      BY <1>5, <3>1, <3>2
  <2>5. \A n \in live' \ Mem : n < NMem + sect'
    BY <1>5, <2>2 DEF Node
  <2>6. \A s \in Sect : Bound(s)' => s < sect'
    <3>1. \A s \in Sect : Bound(s) => s < sect
      BY DEF IInv
    <3> QED
      BY <1>5, <2>3, <3>1 DEF Sect
  <2> QED
    BY <2>4, <2>5, <2>6
<1> QED
  BY <1>1, <1>2, <1>3, <1>4, <1>6 DEF IInv

\* A free node for the whole of every segment (allocate_address_space): the
\* invariant holds of these.
LEMMA SpaceStep == ASSUME IInv, AllocateAddressSpace PROVE IInv'
<1> USE SegmentAssumption, SectionAssumption
<1>1. /\ live = {} /\ sect = 1 /\ live' = Mem /\ Mem \subseteq Node
      /\ \A s \in Sect : ~ Bound(s) /\ ~ Bound(s)'
  BY DEF IInv, AllocateAddressSpace, BoundToNode, Bound, Mem, Node
<1>2. TypeOK'
  <2>1. next' \in [Node -> Node \cup {NIL}]
    BY DEF AllocateAddressSpace, Node, NIL
  <2>2. /\ mem_ptr' \in [Node -> Mem]
        /\ addr' \in [Node -> Nat] /\ size' \in [Node -> Nat]
    BY DEF AllocateAddressSpace, Mem
  <2> QED
    BY <1>1, <2>1, <2>2 DEF IInv, TypeOK, AllocateAddressSpace
<1>3. \A m \in Mem : /\ addr'[m] = MemStart[m] /\ size'[m] = MemLength[m]
                     /\ mem_ptr'[m] = m
  BY <1>1 DEF AllocateAddressSpace
<1>4. Chained'
  <2>1. \A m \in Mem : addr_tail'[m] = m
    BY DEF IInv, AllocateAddressSpace
  <2> QED
    BY <1>1, <1>3, <2>1 DEF Chained, NodeEnd, SegmentEnd, addr_head
<1>5. /\ NodesDisjoint' /\ NodesInside' /\ OneFreeNode' /\ BoundToNode'
      /\ WalkInsideSegment'
  BY <1>1, <1>3, <1>4
     DEF NodesDisjoint, NodesInside, OneFreeNode, BoundToNode, WalkInsideSegment,
         NodeEnd, SegmentEnd, AllocateAddressSpace, IInv
<1>6. \A n \in live' : addr_type'[n] = "free"
  BY <1>1 DEF AllocateAddressSpace, IInv
<1> QED
  BY <1>1, <1>2, <1>4, <1>5, <1>6 DEF IInv, AllocateAddressSpace

\* A bound section keeps its node, and the new one gets node aptr: what ExactFit
\* and Split have in common, given what they do to the list.
LEMMA BindStep ==
  ASSUME IInv, pc = "scan", addr_type[aptr] = "free", AllocateIt,
         live \subseteq live',
         \A n \in live : /\ addr'[n] = addr[n] /\ mem_ptr'[n] = mem_ptr[n]
                         /\ n # aptr => size'[n] = size[n],
         size'[aptr] = Need(sect),
         MemName[mem_ptr[aptr]] = SectName[sect],
         addr \in [Node -> Nat]
  PROVE  /\ BoundToNode'
         /\ \A s \in Sect : Bound(s)' => s < sect'
<1> USE SegmentAssumption, SectionAssumption
<1>1. /\ sect \in Sect /\ sect' = sect + 1 /\ aptr \in live /\ aptr \in Node
      /\ \A s \in Sect : Need(s)' = Need(s)
  BY DEF IInv, TypeOK, AllocateIt, WalkInsideSegment, Need
<1>2. /\ addr_type'[aptr] = "allocated" /\ sect_ptr'[aptr] = sect
      /\ s_paddr'[sect] = addr[aptr]
  BY <1>1 DEF IInv, TypeOK, AllocateIt
<1>3. \A n \in live : n # aptr =>
        addr_type'[n] = addr_type[n] /\ sect_ptr'[n] = sect_ptr[n]
  BY DEF IInv, TypeOK, AllocateIt
<1>4. \A s \in Sect : s # sect => s_paddr'[s] = s_paddr[s]
  BY DEF IInv, TypeOK, AllocateIt
<1>5. ASSUME NEW s \in Sect, Bound(s)'
      PROVE  \E n \in live' : /\ addr_type'[n] = "allocated" /\ sect_ptr'[n] = s
                              /\ addr'[n] = s_paddr'[s] /\ size'[n] = Need(s)'
                              /\ MemName[mem_ptr'[n]] = SectName[s]
  <2>1. CASE s = sect
    BY <1>1, <1>2, <2>1
  <2>2. CASE s # sect
    <3>1. Bound(s)
      BY <1>4, <1>5, <2>2 DEF Bound
    <3>2. PICK n \in live : /\ addr_type[n] = "allocated" /\ sect_ptr[n] = s
                            /\ addr[n] = s_paddr[s] /\ size[n] = Need(s)
                            /\ MemName[mem_ptr[n]] = SectName[s]
      BY <3>1 DEF IInv, BoundToNode
    <3>3. n # aptr
      BY <3>2
    <3> QED
      BY <1>1, <1>3, <1>4, <2>2, <3>2, <3>3
  <2> QED
    BY <2>1, <2>2
<1>6. \A s \in Sect : Bound(s)' => s < sect'
  <2> SUFFICES ASSUME NEW s \in Sect, Bound(s)' PROVE s < sect'
    OBVIOUS
  <2>1. s \in Nat /\ sect \in Nat /\ sect' = sect + 1
    BY <1>1 DEF Sect
  <2>2. CASE s = sect
    BY <2>1, <2>2
  <2>3. CASE s # sect
    <3>1. Bound(s)
      BY <1>4, <2>3 DEF Bound
    <3>2. s < sect
      BY <3>1 DEF IInv
    <3> QED
      BY <2>1, <3>2
  <2> QED
    BY <2>2, <2>3
<1> QED
  BY <1>5, <1>6 DEF BoundToNode

\* The segment being searched has the section's name.
LEMMA ScanName ==
  ASSUME IInv, pc = "scan"
  PROVE  /\ aptr \in live /\ aptr \in Node /\ mptr \in Mem /\ mem_ptr[aptr] = mptr
         /\ sect \in Sect /\ MemName[mptr] = SectName[sect]
BY DEF IInv, WalkInsideSegment, TypeOK

\* So does giving a section the whole of a free node (allocate_it).
LEMMA ExactFitStep == ASSUME IInv, ExactFit PROVE IInv'
<1>1. /\ pc = "scan" /\ addr_type[aptr] = "free" /\ Need(sect) = size[aptr]
      /\ AllocateIt /\ UNCHANGED <<live, next, addr, size, mem_ptr, addr_tail>>
  BY DEF ExactFit
<1>2. /\ aptr \in live /\ aptr \in Node /\ mptr \in Mem /\ mem_ptr[aptr] = mptr
      /\ sect \in Sect /\ MemName[mptr] = SectName[sect] /\ TypeOK
  BY <1>1, ScanName DEF IInv
<1>3. TypeOK'
  <2>1. sect + 1 \in 1 .. (NSect + 1) /\ addr[aptr] \in Nat
    BY <1>2, Numbers DEF TypeOK
  <2>2. s_paddr' \in [Sect -> Nat \cup {Unbound}]
    BY <1>1, <1>2, <2>1 DEF TypeOK, AllocateIt
  <2> QED
    BY <1>1, <1>2, <2>1, <2>2 DEF TypeOK, AllocateIt
<1>4. Chained' /\ NodesDisjoint' /\ NodesInside'
  BY <1>1 DEF IInv, Chained, NodesDisjoint, NodesInside, NodeEnd, SegmentEnd,
              addr_head, AllocateIt
<1>5. OneFreeNode' /\ WalkInsideSegment'
  BY <1>1, <1>2 DEF IInv, TypeOK, OneFreeNode, WalkInsideSegment, AllocateIt
<1>6. BoundToNode' /\ \A s \in Sect : Bound(s)' => s < sect'
  BY <1>1, <1>2, BindStep DEF TypeOK
<1>7. /\ \A n \in live' : addr_type'[n] = "allocated" => sect_ptr'[n] < sect'
      /\ \A n \in live' \ Mem : n < NMem + sect'
  <2>1. sect' = sect + 1 /\ sect \in Int
    BY <1>1, <1>2, Numbers DEF AllocateIt
  <2>2. ASSUME NEW n \in live, addr_type'[n] = "allocated"
        PROVE  sect_ptr'[n] < sect'
    <3>1. CASE n = aptr
      BY <1>1, <1>2, <2>1, <3>1 DEF TypeOK, AllocateIt
    <3>2. CASE n # aptr
      <4>1. n \in Node
        BY <1>2 DEF TypeOK
      <4>2. sect_ptr'[n] = sect_ptr[n] /\ addr_type[n] = "allocated"
        BY <1>1, <1>2, <2>2, <3>2, <4>1 DEF TypeOK, AllocateIt
      <4>3. sect_ptr[n] < sect
        BY <4>2 DEF IInv
      <4>4. sect_ptr[n] \in Int
        <5>1. sect_ptr[n] \in Sect \cup {NIL}
          BY <1>2, <4>1 DEF TypeOK
        <5> QED
          BY <5>1, Numbers DEF NIL
      <4> QED
        BY <2>1, <4>2, <4>3, <4>4
    <3> QED
      BY <3>1, <3>2
  <2>3. \A n \in live \ Mem : n \in Int /\ n < NMem + sect
    BY <1>2, Numbers DEF IInv, TypeOK
  <2> QED
    BY <1>1, <2>1, <2>2, <2>3, Numbers
<1>8. \A n \in Node \ live' : addr_type'[n] = "free"
  BY <1>1, <1>2 DEF IInv, TypeOK, AllocateIt
<1> QED
  BY <1>1, <1>3, <1>4, <1>5, <1>6, <1>7, <1>8 DEF IInv, AllocateIt

\* So does cutting the section off the front of a larger one, with a node made
\* for the rest (allocate_adjust_memory).
LEMMA SplitStep == ASSUME IInv, Split PROVE IInv'
<1> DEFINE new  == NMem + sect
           need == Need(sect)
<1>1. /\ pc = "scan" /\ addr_type[aptr] = "free" /\ need < size[aptr] /\ AllocateIt
      /\ AllocateAdjustMemory(aptr, new, need + addr[aptr])
  BY DEF Split
<1>2. /\ aptr \in live /\ aptr \in Node /\ mptr \in Mem /\ mem_ptr[aptr] = mptr
      /\ sect \in Sect /\ MemName[mptr] = SectName[sect] /\ TypeOK
  BY <1>1, ScanName DEF IInv
<1>3. /\ new \in Node /\ new \notin live /\ new \notin Mem /\ new # aptr
  <2>1. new \in Node /\ new \notin Mem
    BY <1>2, Numbers
  <2>2. new \notin live
    <3>1. \A n \in live \ Mem : n < new
      BY DEF IInv
    <3>2. new \in Int
      BY <2>1, Numbers
    <3>3. ~ (new < new)
      BY <3>2
    <3> QED
      BY <2>1, <3>1, <3>3
  <2> QED
    BY <1>2, <2>1, <2>2
<1>4. /\ addr[aptr] \in Nat /\ size[aptr] \in Nat /\ need \in Nat
      /\ addr_tail[mptr] = aptr
  BY <1>1, <1>2, NeedNat DEF IInv, TypeOK, OneFreeNode
\* What the split does to the nodes, field by field.
<1>5. /\ live' = live \cup {new}
      /\ addr'[aptr] = addr[aptr] /\ addr'[new] = need + addr[aptr]
      /\ size'[aptr] = need /\ size'[new] = size[aptr] - need
      /\ size'[new] \in Nat /\ addr'[new] \in Nat
      /\ mem_ptr'[aptr] = mptr /\ mem_ptr'[new] = mptr
      /\ next'[aptr] = new
      /\ addr_tail'[mptr] = new
      /\ addr_type'[aptr] = "allocated" /\ addr_type'[new] = addr_type[new]
      /\ sect_ptr'[aptr] = sect /\ sect_ptr'[new] = sect_ptr[new]
  BY <1>1, <1>2, <1>3, <1>4 DEF TypeOK, AllocateAdjustMemory, AllocateIt
<1>6. \A n \in live : n \in Node /\ n # new /\
        (n # aptr => /\ addr'[n] = addr[n] /\ size'[n] = size[n]
                     /\ mem_ptr'[n] = mem_ptr[n] /\ next'[n] = next[n]
                     /\ addr_type'[n] = addr_type[n] /\ sect_ptr'[n] = sect_ptr[n])
  BY <1>1, <1>2, <1>3 DEF TypeOK, AllocateAdjustMemory, AllocateIt
<1>7. \A m \in Mem : m # mptr => addr_tail'[m] = addr_tail[m]
  BY <1>1, <1>2 DEF TypeOK, AllocateAdjustMemory
<1>8. TypeOK'
  <2>1. sect + 1 \in 1 .. (NSect + 1)
    BY <1>2, Numbers
  <2>2. s_paddr' \in [Sect -> Nat \cup {Unbound}]
    BY <1>1, <1>2, <1>4 DEF TypeOK, AllocateIt
  <2>3. addr' \in [Node -> Nat] /\ size' \in [Node -> Nat]
    BY <1>1, <1>2, <1>3, <1>4, <1>5 DEF TypeOK, AllocateAdjustMemory
  <2>4. /\ mem_ptr' \in [Node -> Mem] /\ addr_tail' \in [Mem -> Node]
        /\ next' \in [Node -> Node \cup {NIL}]
    BY <1>1, <1>2, <1>3 DEF TypeOK, AllocateAdjustMemory
  <2> QED
    BY <1>1, <1>2, <1>3, <1>5, <2>1, <2>2, <2>3, <2>4 DEF TypeOK, AllocateIt
<1>9. Chained'
  <2>1. /\ \A m \in Mem : /\ m \in live /\ addr[addr_head(m)] = MemStart[m]
                          /\ addr_tail[m] \in live /\ mem_ptr[addr_tail[m]] = m
                          /\ NodeEnd(addr_tail[m]) = SegmentEnd(m)
        /\ \A n \in live : n # addr_tail[mem_ptr[n]] =>
             /\ next[n] \in live /\ mem_ptr[next[n]] = mem_ptr[n]
             /\ addr[next[n]] = NodeEnd(n)
    BY <1>1 DEF IInv, Chained
  <2>2. ASSUME NEW m \in Mem
        PROVE  /\ m \in live' /\ addr'[m] = MemStart[m]
               /\ addr_tail'[m] \in live' /\ mem_ptr'[addr_tail'[m]] = m
               /\ addr'[addr_tail'[m]] + size'[addr_tail'[m]] = SegmentEnd(m)
    <3>1. m \in live /\ addr'[m] = MemStart[m]
      BY <1>5, <1>6, <2>1 DEF addr_head
    <3>2. CASE m = mptr
      <4>1. addr[aptr] + size[aptr] = SegmentEnd(m)
        BY <1>4, <2>1, <3>2 DEF NodeEnd
      <4>2. addr'[new] + size'[new] = addr[aptr] + size[aptr]
        BY <1>4, <1>5
      <4> QED
        BY <1>5, <3>1, <3>2, <4>1, <4>2
    <3>3. CASE m # mptr
      <4>1. addr_tail'[m] = addr_tail[m] /\ addr_tail[m] \in live /\ addr_tail[m] # aptr
        BY <1>2, <1>7, <2>1, <3>3
      <4> QED
        BY <1>5, <1>6, <2>1, <3>1, <4>1 DEF NodeEnd
    <3> QED
      BY <3>2, <3>3
  <2>3. ASSUME NEW n \in live', n # addr_tail'[mem_ptr'[n]]
        PROVE  /\ next'[n] \in live' /\ mem_ptr'[next'[n]] = mem_ptr'[n]
               /\ addr'[next'[n]] = addr'[n] + size'[n]
    <3>1. CASE n = new
      BY <1>5, <2>3, <3>1
    <3>2. CASE n = aptr
      BY <1>4, <1>5, <3>2
    <3>3. CASE n \in live /\ n # aptr
      <4>1. n # addr_tail[mem_ptr[n]] /\ mem_ptr[n] \in Mem
        BY <1>2, <1>4, <1>6, <1>7, <2>3, <3>3 DEF TypeOK
      <4>2. next[n] \in live /\ mem_ptr[next[n]] = mem_ptr[n] /\ addr[next[n]] = addr[n] + size[n]
        BY <2>1, <3>3, <4>1 DEF NodeEnd
      <4> QED
        BY <1>5, <1>6, <3>3, <4>2, <1>2
    <3> QED
      BY <1>5, <2>3, <3>1, <3>2, <3>3
  <2> QED
    BY <2>2, <2>3 DEF Chained, NodeEnd, SegmentEnd, addr_head
<1>10. NodesDisjoint'
  <2> DEFINE Apart(n1, n2) == \/ addr'[n1] + size'[n1] <= addr'[n2]
                              \/ addr'[n2] + size'[n2] <= addr'[n1]
  <2>1. \A n \in live : addr[n] \in Nat /\ size[n] \in Nat
    BY <1>2 DEF TypeOK
  <2>2. ASSUME NEW n \in live, n # aptr, mem_ptr'[n] = mptr
        PROVE  Apart(n, aptr) /\ Apart(n, new)
    <3>1. \/ addr[n] + size[n] <= addr[aptr]
          \/ addr[aptr] + size[aptr] <= addr[n]
      BY <1>1, <1>2, <1>6, <2>2 DEF IInv, NodesDisjoint, NodeEnd
    <3> QED
      BY <1>1, <1>4, <1>5, <1>6, <2>1, <2>2, <3>1
  <2>3. Apart(aptr, new)
    BY <1>4, <1>5
  <2>4. ASSUME NEW n1 \in live, NEW n2 \in live, n1 # aptr, n2 # aptr, n1 # n2,
               mem_ptr'[n1] = mem_ptr'[n2]
        PROVE  Apart(n1, n2)
    BY <1>6, <2>4 DEF IInv, NodesDisjoint, NodeEnd
  <2>5. ASSUME NEW n1 \in live', NEW n2 \in live', n1 # n2, mem_ptr'[n1] = mem_ptr'[n2]
        PROVE  Apart(n1, n2)
    <3> HIDE DEF Apart
    <3>0. \A a, b : Apart(a, b) => Apart(b, a)
      BY DEF Apart
    <3> QED
      BY <1>5, <2>2, <2>3, <2>4, <2>5, <3>0
  <2> QED
    BY <2>5 DEF NodesDisjoint, NodeEnd
<1>11. NodesInside'
  <2>1. /\ MemStart[mptr] <= addr[aptr] /\ addr[aptr] + size[aptr] <= SegmentEnd(mptr)
        /\ MemStart[mptr] \in Nat /\ SegmentEnd(mptr) \in Nat
    BY <1>2, SegmentAssumption DEF IInv, NodesInside, NodeEnd, SegmentEnd
  <2>2. /\ MemStart[mptr] <= addr'[aptr] /\ addr'[aptr] + size'[aptr] <= SegmentEnd(mptr)
        /\ MemStart[mptr] <= addr'[new] /\ addr'[new] + size'[new] <= SegmentEnd(mptr)
    BY <1>1, <1>4, <1>5, <2>1
  <2>3. \A n \in live : n # aptr =>
          /\ MemStart[mem_ptr'[n]] <= addr'[n]
          /\ addr'[n] + size'[n] <= SegmentEnd(mem_ptr'[n])
    BY <1>6 DEF IInv, NodesInside, NodeEnd
  <2>4. \A n \in live' : /\ MemStart[mem_ptr'[n]] <= addr'[n]
                         /\ addr'[n] + size'[n] <= SegmentEnd(mem_ptr'[n])
    BY <1>5, <2>2, <2>3
  <2> QED
    BY <2>4 DEF NodesInside, NodeEnd, SegmentEnd
<1>12. OneFreeNode' /\ WalkInsideSegment'
  <2>1. \A n \in live : addr_type[n] = "free" => n = addr_tail[mem_ptr[n]]
    BY DEF IInv, OneFreeNode
  <2>2. \A n \in live : mem_ptr[n] \in Mem
    BY <1>2 DEF TypeOK
  <2> QED
    BY <1>1, <1>4, <1>5, <1>6, <1>7, <2>1, <2>2
       DEF OneFreeNode, WalkInsideSegment, AllocateIt
<1>13. BoundToNode' /\ \A s \in Sect : Bound(s)' => s < sect'
  <2>1. live \subseteq live' /\ MemName[mem_ptr[aptr]] = SectName[sect]
    BY <1>2, <1>5
  <2> QED
    BY <1>1, <1>2, <1>5, <1>6, <2>1, BindStep DEF TypeOK
<1>14. /\ \A n \in live' : addr_type'[n] = "allocated" => sect_ptr'[n] < sect'
       /\ \A n \in live' \ Mem : n < NMem + sect'
       /\ \A n \in Node \ live' : addr_type'[n] = "free"
  <2>1. sect' = sect + 1 /\ sect \in Nat /\ new \in Nat /\ NMem \in Nat
    BY <1>1, <1>2, <1>3, Numbers DEF AllocateIt
  <2>2. ASSUME NEW n \in live', addr_type'[n] = "allocated"
        PROVE  sect_ptr'[n] < sect'
    <3>1. CASE n = aptr
      BY <1>5, <2>1, <3>1
    <3>2. CASE n # aptr
      <4>1. n \in live /\ n \in Node
        BY <1>3, <1>5, <1>6, <2>2, <3>2 DEF IInv
      <4>2. sect_ptr'[n] = sect_ptr[n] /\ addr_type[n] = "allocated"
        BY <1>6, <2>2, <3>2, <4>1
      <4>3. sect_ptr[n] < sect /\ sect_ptr[n] \in Sect \cup {NIL}
        BY <1>2, <4>1, <4>2 DEF IInv, TypeOK
      <4>4. sect_ptr[n] \in Int
        BY <4>3, Numbers DEF NIL
      <4> QED
        BY <2>1, <4>2, <4>3, <4>4
    <3> QED
      BY <3>1, <3>2
  <2>3. ASSUME NEW n \in live', n \notin Mem
        PROVE  n < NMem + sect'
    <3>1. CASE n = new
      BY <2>1, <3>1
    <3>2. CASE n # new
      <4>1. n \in live /\ n < NMem + sect
        BY <1>5, <2>3, <3>2 DEF IInv
      <4>2. n \in Nat
        BY <1>6, <4>1, Numbers
      <4> QED
        BY <2>1, <4>1, <4>2
    <3> QED
      BY <3>1, <3>2
  <2>4. \A n \in Node \ live' : addr_type'[n] = "free"
    BY <1>1, <1>2, <1>5 DEF IInv, TypeOK, AllocateIt
  <2> QED
    BY <2>2, <2>3, <2>4
<1>15. \A m \in live' \cap Mem : mem_ptr'[m] = m
  <2>1. \A m \in live \cap Mem : mem_ptr[m] = m
    BY DEF IInv
  <2> QED
    BY <1>2, <1>3, <1>5, <1>6, <2>1
<1> QED
  BY <1>1, <1>8, <1>9, <1>10, <1>11, <1>12, <1>13, <1>14, <1>15 DEF IInv, AllocateIt

-----------------------------------------------------------------------------
\* The search for a segment and the walk over its nodes.
LEMMA SearchStep ==
  ASSUME IInv,
         NextSection \/ AllSectionsDone \/ OtherName \/ SameName \/ Insufficient
           \/ SkipAllocated \/ NoFreeNode \/ TooSmall
  PROVE  IInv'
<1>1. /\ TypeOK /\ sect \in 1 .. (NSect + 1) /\ mptr \in 1 .. (NMem + 1)
      /\ NMem \in Nat /\ NSect \in Nat
  BY Numbers DEF IInv, TypeOK
<1>2. \A m \in Mem : m + 1 \in 1 .. (NMem + 1)
  BY <1>1 DEF Mem
<1>3. CASE NextSection
  <2>1. 1 \in 1 .. (NMem + 1)
    BY <1>1
  <2> QED
    BY <1>1, <1>3, <2>1, CursorStep DEF NextSection, TypeOK, WalkInsideSegment
<1>4. CASE AllSectionsDone
  BY <1>1, <1>4, CursorStep DEF AllSectionsDone, TypeOK, WalkInsideSegment
<1>5. CASE OtherName
  <2>1. sect \in Sect
    BY <1>5 DEF IInv, OtherName
  <2> QED
    BY <1>1, <1>2, <1>5, <2>1, CursorStep DEF OtherName, TypeOK, WalkInsideSegment
<1>6. CASE SameName
  <2>1. mptr \in Node /\ mptr \in live /\ mem_ptr[mptr] = mptr /\ sect \in Sect
    <3>1. mptr \in live /\ addr_tail[mptr] \in live /\ sect \in Sect
      BY <1>6 DEF IInv, Chained, SameName
    <3>2. mem_ptr[mptr] = mptr
      BY <1>6, <3>1 DEF IInv, SameName
    <3> QED
      BY <1>1, <3>1, <3>2 DEF TypeOK
  <2> QED
    BY <1>1, <1>6, <2>1, CursorStep
       DEF SameName, TypeOK, WalkInsideSegment, addr_head, nodes
<1>7. CASE Insufficient
  <2>1. sect \in Sect /\ sect <= sect + 1 /\ sect + 1 \in 1 .. (NSect + 1)
    BY <1>1, <1>7, Numbers DEF IInv, Insufficient
  <2>2. user_errors + 1 \in Nat
    BY <1>1 DEF TypeOK
  <2>3. pc' \in {"exit", "section"}
    BY <1>7 DEF Insufficient
  <2>4. aptr' \in Node \cup {NIL}
    BY <1>1, <1>7 DEF Insufficient, TypeOK
  <2> QED
    BY <1>1, <1>7, <2>1, <2>2, <2>3, <2>4, CursorStep
       DEF Insufficient, WalkInsideSegment
<1>8. CASE SkipAllocated
  <2>1. /\ aptr \in live /\ mem_ptr[aptr] = mptr /\ mptr \in Mem /\ sect \in Sect
        /\ MemName[mptr] = SectName[sect]
    BY <1>8, ScanName DEF SkipAllocated
  <2>2. next[aptr] \in live /\ mem_ptr[next[aptr]] = mptr
    BY <1>8, <2>1 DEF IInv, Chained, SkipAllocated
  <2> QED
    BY <1>1, <1>8, <2>1, <2>2, CursorStep
       DEF SkipAllocated, TypeOK, WalkInsideSegment, nodes
<1>9. CASE NoFreeNode
  <2>1. mptr \in Mem /\ sect \in Sect
    BY <1>9, ScanName DEF NoFreeNode
  <2> QED
    BY <1>1, <1>2, <1>9, <2>1, CursorStep DEF NoFreeNode, TypeOK, WalkInsideSegment
<1>10. CASE TooSmall
  <2>1. mptr \in Mem /\ sect \in Sect
    BY <1>10, ScanName DEF TooSmall
  <2> QED
    BY <1>1, <1>2, <1>10, <2>1, CursorStep DEF TooSmall, TypeOK, WalkInsideSegment
<1> QED
  BY <1>3, <1>4, <1>5, <1>6, <1>7, <1>8, <1>9, <1>10

\* Every step of the allocator keeps the invariant.
LEMMA NextIInv == IInv /\ [Next]_vars => IInv'
<1>1. ASSUME IInv, Next PROVE IInv'
  BY <1>1, SpaceStep, SearchStep, ExactFitStep, SplitStep DEF Next
<1>2. ASSUME IInv, UNCHANGED vars PROVE IInv'
  BY <1>2 DEF vars, nodes, IInv, TypeOK, Chained, NodesDisjoint, NodesInside,
              OneFreeNode, BoundToNode, WalkInsideSegment, Bound, Need,
              NodeEnd, SegmentEnd, addr_head
<1> QED
  BY <1>1, <1>2

\* allocate.c keeps every segment cut into nodes without gap or overlap.
THEOREM SpecIInv == Spec => []IInv
BY InitIInv, NextIInv, PTL DEF Spec

\* Every variable keeps its type.
THEOREM TypeCorrect == Spec => []TypeOK
<1>1. IInv => TypeOK
  BY DEF IInv
<1> QED
  BY <1>1, SpecIInv, PTL

\* The walk over the nodes of a segment ends inside it.
THEOREM WalkStaysInside == Spec => []WalkInsideSegment
<1>1. IInv => WalkInsideSegment
  BY DEF IInv
<1> QED
  BY <1>1, SpecIInv, PTL

\* Stopping at the first FREE node overlooks no free space.
THEOREM OnlyTailFree == Spec => []OneFreeNode
<1>1. IInv => OneFreeNode
  BY DEF IInv
<1> QED
  BY <1>1, SpecIInv, PTL

\* A bound section lies inside one segment of its own name.
THEOREM SectionsContained == Spec => []SectionInsideSegment
<1>1. ASSUME IInv, NEW s \in Sect, Bound(s)
      PROVE  \E m \in Mem : /\ MemName[m] = SectName[s]
                            /\ MemStart[m] <= s_paddr[s]
                            /\ SectionEnd(s) <= SegmentEnd(m)
  <2>1. PICK n \in live : /\ addr_type[n] = "allocated" /\ sect_ptr[n] = s
                          /\ addr[n] = s_paddr[s] /\ size[n] = Need(s)
                          /\ MemName[mem_ptr[n]] = SectName[s]
    BY <1>1 DEF IInv, BoundToNode
  <2>2. mem_ptr[n] \in Mem
    BY <1>1 DEF IInv, TypeOK
  <2>3. MemStart[mem_ptr[n]] <= addr[n] /\ NodeEnd(n) <= SegmentEnd(mem_ptr[n])
    BY <1>1 DEF IInv, NodesInside
  <2> QED
    BY <2>1, <2>2, <2>3 DEF NodeEnd, SectionEnd
<1>2. IInv => SectionInsideSegment
  BY <1>1 DEF SectionInsideSegment
<1> QED
  BY <1>2, SpecIInv, PTL

\* Sections share an address only where their segments do.
THEOREM NoSectionOverlap == Spec => []SectionsDisjoint
<1>1. ASSUME IInv, NEW s1 \in Sect, NEW s2 \in Sect,
             s1 # s2, Bound(s1), Bound(s2),
             Overlapping(s_paddr[s1], SectionEnd(s1), s_paddr[s2], SectionEnd(s2))
      PROVE  \E m1, m2 \in Mem :
               /\ m1 # m2
               /\ MemName[m1] = SectName[s1] /\ MemName[m2] = SectName[s2]
               /\ Overlapping(MemStart[m1], SegmentEnd(m1), MemStart[m2], SegmentEnd(m2))
  <2>1. PICK n1 \in live : /\ sect_ptr[n1] = s1 /\ addr[n1] = s_paddr[s1]
                           /\ size[n1] = Need(s1) /\ MemName[mem_ptr[n1]] = SectName[s1]
    BY <1>1 DEF IInv, BoundToNode
  <2>2. PICK n2 \in live : /\ sect_ptr[n2] = s2 /\ addr[n2] = s_paddr[s2]
                           /\ size[n2] = Need(s2) /\ MemName[mem_ptr[n2]] = SectName[s2]
    BY <1>1 DEF IInv, BoundToNode
  <2>3. /\ mem_ptr[n1] \in Mem /\ mem_ptr[n2] \in Mem
        /\ addr[n1] \in Nat /\ size[n1] \in Nat /\ addr[n2] \in Nat /\ size[n2] \in Nat
    BY <1>1 DEF IInv, TypeOK
  <2>4. addr[n1] < addr[n2] + size[n2] /\ addr[n2] < addr[n1] + size[n1]
    BY <1>1, <2>1, <2>2 DEF Overlapping, SectionEnd
  <2>5. mem_ptr[n1] # mem_ptr[n2]
    <3>1. SUFFICES ASSUME mem_ptr[n1] = mem_ptr[n2] PROVE FALSE
      OBVIOUS
    <3>2. addr[n1] + size[n1] <= addr[n2] \/ addr[n2] + size[n2] <= addr[n1]
      BY <1>1, <2>1, <2>2, <3>1 DEF IInv, NodesDisjoint, NodeEnd
    <3> QED
      BY <2>3, <2>4, <3>2
  <2>6. /\ MemStart[mem_ptr[n1]] <= addr[n1] /\ addr[n1] + size[n1] <= SegmentEnd(mem_ptr[n1])
        /\ MemStart[mem_ptr[n2]] <= addr[n2] /\ addr[n2] + size[n2] <= SegmentEnd(mem_ptr[n2])
    BY <1>1 DEF IInv, NodesInside, NodeEnd
  <2>7. \A m \in Mem : MemStart[m] \in Nat /\ SegmentEnd(m) \in Nat
    BY SegmentAssumption DEF SegmentEnd
  <2>8. Overlapping(MemStart[mem_ptr[n1]], SegmentEnd(mem_ptr[n1]),
                    MemStart[mem_ptr[n2]], SegmentEnd(mem_ptr[n2]))
    BY <2>3, <2>4, <2>6, <2>7 DEF Overlapping
  <2> QED
    BY <2>1, <2>2, <2>3, <2>5, <2>8
<1>2. IInv => SectionsDisjoint
  BY <1>1 DEF SectionsDisjoint
<1> QED
  BY <1>2, SpecIInv, PTL

\* Sections are kept in their segments and apart from each other.
THEOREM PlacementSafe == Spec => []SectionsPlaced
<1>1. SectionInsideSegment /\ SectionsDisjoint => SectionsPlaced
  BY DEF SectionsPlaced
<1> QED
  BY <1>1, SectionsContained, NoSectionOverlap, PTL

-----------------------------------------------------------------------------
\* A step that binds a section gives no segment more room.
LEMMA RoomShrinks ==
  ASSUME IInv, ExactFit \/ Split, NEW m \in Mem, NEW words \in Nat, HasRoom(m, words)'
  PROVE  HasRoom(m, words)
<1> USE DEF HasRoom
<1>1. PICK n \in live' : mem_ptr'[n] = m /\ addr_type'[n] = "free" /\ words <= size'[n]
  OBVIOUS
<1>2. TypeOK /\ pc = "scan" /\ AllocateIt /\ addr_type[aptr] = "free"
  BY DEF IInv, ExactFit, Split
<1>3. /\ aptr \in live /\ aptr \in Node /\ mem_ptr[aptr] = mptr /\ sect \in Sect
      /\ mptr \in Mem
  BY <1>2, ScanName
<1>4. \A k \in Node : k # aptr => addr_type'[k] = addr_type[k]
  BY <1>2, <1>3 DEF TypeOK, AllocateIt
<1>5. n # aptr
  BY <1>1, <1>2, <1>3 DEF TypeOK, AllocateIt
<1>6. CASE ExactFit
  <2>1. n \in live /\ n \in Node /\ mem_ptr[n] = m /\ words <= size[n]
    BY <1>1, <1>2, <1>6 DEF ExactFit, TypeOK
  <2> QED
    BY <1>1, <1>4, <1>5, <2>1
<1>7. CASE Split
  <2>1. AllocateAdjustMemory(aptr, NMem + sect, Need(sect) + addr[aptr]) /\ Need(sect) < size[aptr]
    BY <1>7 DEF Split
  <2>2. /\ NMem + sect \in Node /\ NMem + sect # aptr
        /\ Need(sect) \in Nat /\ addr[aptr] \in Nat /\ size[aptr] \in Nat
    <3>1. NMem + sect \in Node /\ NMem + sect \notin Mem
      BY <1>3, Numbers
    <3>2. aptr \notin Mem => aptr < NMem + sect
      BY <1>3 DEF IInv
    <3>3. aptr \in Nat /\ NMem + sect \in Nat
      BY <1>3, <3>1, Numbers
    <3> QED
      BY <1>2, <1>3, <3>1, <3>2, <3>3, NeedNat DEF TypeOK
  <2>3. CASE n = NMem + sect
    <3>1. /\ mem_ptr'[n] = mptr
          /\ size'[n] = size[aptr] - ((Need(sect) + addr[aptr]) - addr[aptr])
      BY <1>2, <1>3, <2>1, <2>2, <2>3 DEF TypeOK, AllocateAdjustMemory
    <3>2. words <= size[aptr]
      BY <1>1, <2>2, <3>1
    <3> QED
      BY <1>1, <1>2, <1>3, <3>1, <3>2
  <2>4. CASE n # NMem + sect
    <3>1. n \in live /\ n \in Node
      BY <1>1, <1>2, <2>1, <2>4 DEF TypeOK, AllocateAdjustMemory
    <3>2. mem_ptr'[n] = mem_ptr[n] /\ size'[n] = size[n]
      BY <1>2, <1>3, <1>5, <2>1, <2>2, <2>4, <3>1 DEF TypeOK, AllocateAdjustMemory
    <3> QED
      BY <1>1, <1>4, <1>5, <3>1, <3>2
  <2> QED
    BY <2>3, <2>4
<1> QED
  BY <1>6, <1>7

\* The refusal invariant holds along every step.
LEMMA NextRefusal == ASSUME IInv, RefusalInv, [Next]_vars PROVE RefusalInv'
<1>1. /\ TypeOK /\ sect \in Nat /\ mptr \in Nat /\ NMem \in Nat
      /\ \A s \in Sect : s \in Nat /\ Need(s) \in Nat
      /\ \A m \in Mem : m \in Nat
  BY Numbers, NeedNat DEF IInv, TypeOK
<1>2. s_size' = s_size
  BY DEF Next, vars, AllocateAddressSpace, NextSection, AllSectionsDone, OtherName,
         SameName, Insufficient, SkipAllocated, NoFreeNode, TooSmall, ExactFit,
         Split, AllocateIt
<1>3. \A s \in Sect : Need(s)' = Need(s)
  BY <1>2, NeedStable
<1> DEFINE Passed(s, lim) ==
      \A m \in Mem : m < lim /\ MemName[m] = SectName[s] => ~ HasRoom(m, Need(s))
<1>4. \* A segment that is left without a binding has no room for the section.
      ASSUME NoFreeNode \/ TooSmall
      PROVE  ~ HasRoom(mptr, Need(sect)) /\ mptr \in Mem /\ sect \in Sect
  <2>1. pc = "scan" /\ aptr \in live /\ mem_ptr[aptr] = mptr /\ mptr \in Mem /\ sect \in Sect
    BY <1>4, ScanName DEF NoFreeNode, TooSmall
  <2>2. SUFFICES ASSUME NEW n \in live, mem_ptr[n] = mptr, addr_type[n] = "free",
                        Need(sect) <= size[n]
                 PROVE  FALSE
    BY <2>1 DEF HasRoom
  <2>3. n = addr_tail[mptr]
    BY <2>2 DEF IInv, OneFreeNode
  <2>4. CASE NoFreeNode
    BY <2>2, <2>3, <2>4 DEF NoFreeNode
  <2>5. CASE TooSmall
    <3>1. aptr = addr_tail[mptr] /\ Need(sect) > size[aptr]
      BY <2>1, <2>5 DEF TooSmall, IInv, OneFreeNode
    <3>2. size[n] \in Nat
      BY <1>1 DEF TypeOK
    <3> QED
      BY <1>1, <2>1, <2>2, <2>3, <3>1, <3>2
  <2> QED
    BY <1>4, <2>4, <2>5
<1>5. ASSUME UNCHANGED <<live, mem_ptr, addr_type, size>>
      PROVE  \A s \in Sect : \A m \in Mem : HasRoom(m, Need(s))' = HasRoom(m, Need(s))
  BY <1>3, <1>5 DEF HasRoom
<1>6. CASE AllocateAddressSpace
  BY <1>6 DEF IInv, RefusalInv, RefusedOnlyWhenFull, AllocateAddressSpace, Sect
<1>7. CASE NextSection
  <2>1. \A m \in Mem : ~ (m < 1)
    BY SegmentAssumption DEF Mem
  <2> QED
    BY <1>5, <1>7, <2>1 DEF NextSection, nodes, RefusalInv, RefusedOnlyWhenFull, Bound
<1>8. CASE AllSectionsDone \/ UNCHANGED vars
  <2>1. /\ UNCHANGED <<sect, mptr, s_paddr, nodes>>
        /\ pc' \in {"memory", "scan"} => pc \in {"memory", "scan"}
    BY <1>8 DEF AllSectionsDone, vars
  <2>2. RefusedOnlyWhenFull'
    BY <1>5, <2>1 DEF nodes, RefusalInv, RefusedOnlyWhenFull, Bound
  <2>3. pc \in {"memory", "scan"} => sect \in Sect
    BY DEF IInv
  <2> QED
    BY <1>5, <2>1, <2>2, <2>3 DEF nodes, RefusalInv
<1>9. CASE SameName \/ SkipAllocated
  <2>1. sect \in Sect
    BY <1>9 DEF IInv, SameName, SkipAllocated
  <2> QED
    BY <1>5, <1>9, <2>1
       DEF SameName, SkipAllocated, nodes, RefusalInv, RefusedOnlyWhenFull, Bound
<1>10. CASE OtherName \/ NoFreeNode \/ TooSmall
  <2>1. /\ sect \in Sect /\ mptr \in Mem /\ pc' = "memory" /\ mptr' = mptr + 1
        /\ UNCHANGED <<sect, s_paddr, nodes>> /\ pc \in {"memory", "scan"}
    BY <1>4, <1>10 DEF IInv, OtherName, NoFreeNode, TooSmall
  <2>2. MemName[mptr] = SectName[sect] => ~ HasRoom(mptr, Need(sect))
    BY <1>4, <1>10 DEF OtherName
  <2>3. Passed(sect, mptr + 1)
    <3>1. \A m \in Mem : m < mptr + 1 => m < mptr \/ m = mptr
      BY <1>1
    <3> QED
      BY <2>1, <2>2, <3>1 DEF RefusalInv
  <2> QED
    BY <1>5, <2>1, <2>3 DEF nodes, RefusalInv, RefusedOnlyWhenFull, Bound
<1>11. CASE Insufficient
  <2>1. /\ sect \in Sect /\ pc = "memory" /\ mptr > NMem /\ sect' = sect + 1
        /\ UNCHANGED <<s_paddr, nodes>> /\ pc' \notin {"memory", "scan"}
    BY <1>11 DEF IInv, Insufficient
  <2>2. \A m \in Mem : MemName[m] = SectName[sect] => ~ HasRoom(m, Need(sect))
    <3>1. \A m \in Mem : m < mptr
      BY <1>1, <2>1, SegmentAssumption DEF Mem
    <3> QED
      BY <2>1, <3>1 DEF RefusalInv
  <2>3. \A s \in Sect : s < sect + 1 => s < sect \/ s = sect
    BY <1>1, <2>1
  <2> QED
    BY <1>5, <2>1, <2>2, <2>3 DEF nodes, RefusalInv, RefusedOnlyWhenFull, Bound
<1>12. CASE ExactFit \/ Split
  <2>1. /\ sect \in Sect /\ pc = "scan" /\ AllocateIt /\ aptr \in Node /\ addr[aptr] \in Nat
    BY <1>1, <1>12, ScanName DEF ExactFit, Split, TypeOK
  <2>2. /\ sect' = sect + 1 /\ pc' = "section" /\ s_paddr'[sect] # Unbound
        /\ \A s \in Sect : s # sect => s_paddr'[s] = s_paddr[s]
    <3>1. /\ sect' = sect + 1 /\ pc' = "section" /\ s_paddr'[sect] = addr[aptr]
          /\ \A s \in Sect : s # sect => s_paddr'[s] = s_paddr[s]
      BY <1>1, <2>1 DEF AllocateIt, TypeOK
    <3>2. addr[aptr] # -1
      BY <2>1
    <3> QED
      BY <3>1, <3>2 DEF Unbound
  <2>3. ASSUME NEW s \in Sect, s < sect', ~ Bound(s)', NEW m \in Mem,
               MemName[m] = SectName[s]
        PROVE  ~ HasRoom(m, Need(s))'
    <3>1. s < sect /\ ~ Bound(s)
      <4>1. s # sect
        BY <2>2, <2>3 DEF Bound
      <4>2. s < sect + 1 /\ s \in Nat
        BY <1>1, <2>2, <2>3
      <4> QED
        BY <1>1, <2>2, <2>3, <4>1, <4>2 DEF Bound
    <3>2. ~ HasRoom(m, Need(s))
      BY <2>3, <3>1 DEF RefusalInv, RefusedOnlyWhenFull
    <3>3. HasRoom(m, Need(s))' => HasRoom(m, Need(s))
      <4>1. Need(s)' = Need(s) /\ Need(s) \in Nat
        BY <1>1, <1>3
      <4>2. HasRoom(m, Need(s))' = (\E n \in live' : mem_ptr'[n] = m /\ addr_type'[n] = "free"
                                                      /\ Need(s) <= size'[n])
        BY <4>1 DEF HasRoom
      <4>3. ASSUME NEW w \in Nat, HasRoom(m, w)' PROVE HasRoom(m, w)
        BY <1>12, <4>3, RoomShrinks
      <4> QED
        BY <4>1, <4>2, <4>3 DEF HasRoom
    <3> QED
      BY <3>2, <3>3
  <2> QED
    BY <2>2, <2>3 DEF RefusalInv, RefusedOnlyWhenFull
<1> QED
  BY <1>6, <1>7, <1>8, <1>9, <1>10, <1>11, <1>12 DEF Next

\* A section is refused only if no segment of its name has room for it, at the
\* time and ever after.
THEOREM RefusalJustified == Spec => []RefusedOnlyWhenFull
<1>1. Init => RefusalInv
  <2>1. Init => \A s \in Sect : ~ (s < sect)
    BY Numbers DEF Init, Sect
  <2> QED
    BY <2>1 DEF Init, RefusalInv, RefusedOnlyWhenFull
<1>2. IInv /\ RefusalInv /\ [Next]_vars => RefusalInv'
  BY NextRefusal
<1>3. RefusalInv => RefusedOnlyWhenFull
  BY DEF RefusalInv
<1> QED
  BY <1>1, <1>2, <1>3, SpecIInv, PTL DEF Spec

-----------------------------------------------------------------------------
(* The refinement of SegmentSpace.                                         *)

\* The linker has not given up yet: fewer errors than the limit were counted.
ErrorsBelowLimit == pc # "exit" => user_errors < MaxErrors

\* Every step leaves the count of errors below the limit while the pass goes on.
LEMMA NextErrors == IInv /\ ErrorsBelowLimit /\ [Next]_vars => ErrorsBelowLimit'
<1> SUFFICES ASSUME IInv, ErrorsBelowLimit, [Next]_vars PROVE ErrorsBelowLimit'
  OBVIOUS
<1>1. CASE Insufficient
  <2>1. user_errors \in Nat /\ MaxErrors \in Nat
    BY SectionAssumption DEF IInv, TypeOK
  <2>2. user_errors' = user_errors + 1 /\ (~ (user_errors' >= MaxErrors) <=> pc' # "exit")
    BY <1>1 DEF Insufficient
  <2> QED
    BY <2>1, <2>2 DEF ErrorsBelowLimit
<1>2. CASE UNCHANGED vars
  BY <1>2 DEF ErrorsBelowLimit, vars
<1>3. CASE ~ Insufficient /\ Next
  <2>1. pc # "exit" /\ user_errors' = user_errors
    BY <1>3 DEF Next, AllocateAddressSpace, NextSection, AllSectionsDone, OtherName,
         SameName, SkipAllocated, NoFreeNode, TooSmall, ExactFit, Split, AllocateIt
  <2> QED
    BY <2>1 DEF ErrorsBelowLimit
<1> QED
  BY <1>1, <1>2, <1>3

\* What SegmentSpace calls the room of a segment is what its FREE node holds.
LEMMA RoomIsTail ==
  ASSUME IInv, pc # "space", NEW m \in Mem, NEW words \in Nat
  PROVE  words <= Room(m) <=> HasRoom(m, words)
<1> DEFINE tail == addr_tail[m]
<1>1. tail \in live /\ tail \in Node /\ mem_ptr[tail] = m /\ size[tail] \in Nat
  BY DEF IInv, TypeOK, Chained
<1>2. CASE addr_type[tail] = "free"
  <2>1. Room(m) = size[tail]
    BY <1>2 DEF Room
  <2>2. \A n \in live : mem_ptr[n] = m /\ addr_type[n] = "free" => n = tail
    BY DEF IInv, OneFreeNode
  <2> QED
    BY <1>1, <1>2, <2>1, <2>2 DEF HasRoom
<1>3. CASE addr_type[tail] # "free"
  <2>1. Room(m) = -1
    BY <1>3 DEF Room
  <2>2. ~ HasRoom(m, words)
    BY <1>3 DEF IInv, OneFreeNode, HasRoom
  <2> QED
    BY <2>1, <2>2
<1> QED
  BY <1>2, <1>3

\* Where the search has come to is the end of what the segment has been filled to.
LEMMA ScanAtTail ==
  ASSUME IInv, pc = "scan", addr_type[aptr] = "free"
  PROVE  /\ mptr \in Mem /\ aptr \in Node /\ aptr = addr_tail[mptr] /\ Room(mptr) = size[aptr]
         /\ size[aptr] \in Nat /\ addr[aptr] = MemStart[mptr] + MemLength[mptr] - Room(mptr)
<1>1. /\ aptr \in live /\ aptr \in Node /\ mptr \in Mem /\ mem_ptr[aptr] = mptr
  BY ScanName
<1>2. aptr = addr_tail[mptr]
  BY <1>1 DEF IInv, OneFreeNode
<1>3. addr[aptr] + size[aptr] = MemStart[mptr] + MemLength[mptr]
  BY <1>1, <1>2 DEF IInv, Chained, NodeEnd, SegmentEnd
<1>4. addr[aptr] \in Nat /\ size[aptr] \in Nat /\ MemStart[mptr] \in Nat /\ MemLength[mptr] \in Nat
  BY <1>1, SegmentAssumption DEF IInv, TypeOK
<1>5. Room(mptr) = size[aptr]
  BY <1>2 DEF Room
<1> QED
  BY <1>1, <1>2, <1>3, <1>4, <1>5

\* All room is there before the first section is allocated.
LEMMA InitSpace == Init => Space!Init
<1> SUFFICES ASSUME Init PROVE Space!Init
  OBVIOUS
<1>1. TypeOK
  BY InitIInv DEF IInv
<1>2. [s \in Sect |-> Need(s)] \in [Sect -> Nat]
  BY <1>1, NeedNat
<1>3. [m \in Mem |-> Room(m)] = MemLength
  BY SegmentAssumption DEF Init, Room
<1> QED
  BY <1>2, <1>3 DEF Init, Space!Init, Space!Mem, Space!Sect, Space!Unbound, Mem, Sect, Unbound

\* A step that only moves the cursors, or makes the first nodes, is no step of
\* SegmentSpace.
LEMMA SearchStutters ==
  ASSUME IInv, s_size' = s_size, UNCHANGED <<sect, s_paddr, user_errors, addr_tail, addr_type>>,
         \/ pc # "space" /\ pc' # "space" /\ size' = size
         \/ AllocateAddressSpace
         \/ pc' = pc /\ size' = size
  PROVE  UNCHANGED Space!vars
<1>1. \A m \in Mem : Room(m)' = Room(m)
  <2>1. CASE AllocateAddressSpace
    <3>1. \A m \in Mem : addr_tail[m] = m /\ addr_type[m] = "free" /\ size'[m] = MemLength[m]
      BY <2>1, Numbers DEF AllocateAddressSpace, IInv
    <3> QED
      BY <2>1, <3>1 DEF AllocateAddressSpace, Room
  <2>2. CASE ~ AllocateAddressSpace
    BY <2>2 DEF Room
  <2> QED
    BY <2>1, <2>2
<1>2. [s \in Sect |-> Need(s)]' = [s \in Sect |-> Need(s)]
  BY DEF Need
<1>3. [m \in Mem |-> Room(m)]' = [m \in Mem |-> Room(m)]
  BY <1>1
<1> QED
  BY <1>2, <1>3 DEF Space!vars

\* The segments the search has passed do not fit, in SegmentSpace's words.
LEMMA PassedDoNotFit ==
  ASSUME IInv, RefusalInv, pc \in {"memory", "scan"}, NEW m \in Mem, m < mptr
  PROVE  ~ Space!Fits(sect, m)
<1>1. sect \in Sect /\ Need(sect) \in Nat
  BY NeedNat DEF IInv
<1>2. MemName[m] = SectName[sect] => ~ (Need(sect) <= Room(m))
  BY <1>1, RoomIsTail DEF RefusalInv
<1> QED
  BY <1>1, <1>2 DEF Space!Fits, Space!Mem, Space!Sect, Mem, Sect

\* A section that is reported as not fitting is one that the abstract allocator
\* may refuse.
LEMMA RefuseStep ==
  ASSUME IInv, RefusalInv, ErrorsBelowLimit, Insufficient
  PROVE  Space!Refuse
<1>1. /\ pc = "memory" /\ mptr > NMem /\ sect \in Sect /\ sect' = sect + 1
      /\ user_errors' = user_errors + 1 /\ UNCHANGED <<s_size, s_paddr, nodes>>
      /\ pc' # "space" /\ user_errors < MaxErrors
  BY DEF IInv, Insufficient, ErrorsBelowLimit
<1>2. \A m \in Mem : ~ Space!Fits(sect, m)
  <2>1. \A m \in Mem : m < mptr
    BY <1>1, Numbers DEF IInv, TypeOK, Mem
  <2> QED
    BY <1>1, <2>1, PassedDoNotFit
<1>3. [s \in Sect |-> Need(s)]' = [s \in Sect |-> Need(s)]
  BY <1>1 DEF Need
<1>4. [m \in Mem |-> Room(m)]' = [m \in Mem |-> Room(m)]
  BY <1>1 DEF Room, nodes
<1> QED
  BY <1>1, <1>2, <1>3, <1>4 DEF Space!Refuse, Space!Mem, Space!Sect, Mem, Sect

\* A section is bound where the segment was filled to, in the first segment of
\* its name that has room.
LEMMA BindRefined ==
  ASSUME IInv, RefusalInv, ErrorsBelowLimit, ExactFit \/ Split
  PROVE  Space!Bind(mptr)
<1> DEFINE need == [s \in Sect |-> Need(s)]
           room == [m \in Mem |-> Room(m)]
<1>1. /\ pc = "scan" /\ addr_type[aptr] = "free" /\ AllocateIt
  BY DEF ExactFit, Split
<1>2. /\ mptr \in Mem /\ aptr \in Node /\ aptr \in live /\ mem_ptr[aptr] = mptr
      /\ sect \in Sect /\ MemName[mptr] = SectName[sect] /\ TypeOK
      /\ aptr = addr_tail[mptr] /\ Room(mptr) = size[aptr] /\ size[aptr] \in Nat
      /\ addr[aptr] = MemStart[mptr] + MemLength[mptr] - Room(mptr)
      /\ Need(sect) \in Nat
  BY <1>1, ScanName, ScanAtTail, NeedNat DEF IInv
<1>3. Need(sect) <= Room(mptr) /\ (Need(sect) = size[aptr] <=> ExactFit)
  BY <1>2 DEF ExactFit, Split
<1>4. Space!Fits(sect, mptr)
  BY <1>2, <1>3 DEF Space!Fits, Space!Mem, Space!Sect, Mem, Sect
<1>5. \A m \in Mem : m < mptr => ~ Space!Fits(sect, m)
  BY <1>1, PassedDoNotFit
<1>6. /\ s_paddr' = [s_paddr EXCEPT ![sect] = MemStart[mptr] + MemLength[mptr] - Room(mptr)]
      /\ sect' = sect + 1 /\ user_errors' = user_errors /\ s_size' = s_size
      /\ pc' = "section" /\ user_errors < MaxErrors
  BY <1>1, <1>2 DEF AllocateIt, ErrorsBelowLimit
<1>7. need' = need
  BY <1>6 DEF Need
<1>8. ASSUME NEW m \in Mem, m # mptr PROVE Room(m)' = Room(m)
  <2>1. addr_tail[m] \in live /\ addr_tail[m] \in Node /\ addr_tail[m] # aptr
    BY <1>1, <1>2, <1>8 DEF IInv, TypeOK, Chained
  <2>2. addr_type'[addr_tail[m]] = addr_type[addr_tail[m]]
    BY <1>1, <1>2, <2>1 DEF TypeOK, AllocateIt
  <2>3. CASE ExactFit
    BY <1>1, <1>6, <2>2, <2>3 DEF ExactFit, Room
  <2>4. CASE Split
    <3>1. AllocateAdjustMemory(aptr, NMem + sect, Need(sect) + addr[aptr])
      BY <2>4 DEF Split
    <3>2. addr_tail[m] # NMem + sect
      <4>1. addr_tail[m] \in Mem \/ addr_tail[m] < NMem + sect
        BY <2>1 DEF IInv
      <4> QED
        BY <1>2, <2>1, <4>1, Numbers
    <3>3. size'[addr_tail[m]] = size[addr_tail[m]] /\ addr_tail'[m] = addr_tail[m]
      BY <1>2, <1>8, <2>1, <3>1, <3>2 DEF TypeOK, AllocateAdjustMemory
    <3> QED
      BY <1>1, <1>6, <2>2, <3>3 DEF Room
  <2> QED
    BY <2>3, <2>4
<1>9. ASSUME NEW m \in Mem, m = mptr
      PROVE  Room(m)' = IF Need(sect) = Room(m) THEN -1 ELSE Room(m) - Need(sect)
  <2>1. addr_type'[aptr] = "allocated"
    BY <1>1, <1>2 DEF TypeOK, AllocateIt
  <2>2. CASE ExactFit
    BY <1>1, <1>2, <1>3, <1>6, <1>9, <2>1, <2>2 DEF ExactFit, Room
  <2>3. CASE Split
    <3> DEFINE new == NMem + sect
    <3>1. AllocateAdjustMemory(aptr, new, Need(sect) + addr[aptr])
      BY <2>3 DEF Split
    <3>2. new \in Node /\ new # aptr /\ new \notin live
      <4>1. new \in Node /\ new \notin Mem
        BY <1>2, Numbers
      <4>2. \A n \in live \ Mem : n < new
        BY DEF IInv
      <4>3. ~ (new < new)
        BY <4>1, Numbers
      <4> QED
        BY <1>2, <4>1, <4>2, <4>3
    <3>3. addr_tail'[m] = new /\ size'[new] = size[aptr] - (Need(sect) + addr[aptr] - addr[aptr])
      BY <1>2, <1>9, <3>1, <3>2 DEF TypeOK, AllocateAdjustMemory
    <3>4. addr_type'[new] = "free"
      BY <1>1, <1>2, <3>2 DEF IInv, TypeOK, AllocateIt
    <3>5. size'[new] = size[aptr] - Need(sect)
      <4>1. addr[aptr] \in Nat
        BY <1>2 DEF TypeOK
      <4> QED
        BY <1>2, <3>3, <4>1
    <3>6. Need(sect) # size[aptr]
      BY <1>2, <2>3 DEF Split
    <3> QED
      BY <1>2, <1>6, <1>9, <3>3, <3>4, <3>5, <3>6 DEF Room
  <2> QED
    BY <2>2, <2>3
<1>10. room' = [room EXCEPT ![mptr] = IF need[sect] = room[mptr] THEN -1
                                      ELSE room[mptr] - need[sect]]
  BY <1>2, <1>8, <1>9
<1> HIDE DEF need, room
<1>11. need[sect] = Need(sect) /\ room[mptr] = Room(mptr)
  BY <1>2 DEF need, room
<1> QED
  BY <1>2, <1>4, <1>5, <1>6, <1>7, <1>10, <1>11
     DEF need, room, Space!Bind, Space!Mem, Space!Sect, Space!Full, Mem, Sect

\* The walk over the nodes, and their splitting, implement the filling of
\* segments from their start, each section in the first that has room for it.
THEOREM SpaceFilled == Spec => Space!Spec
<1>1. ASSUME IInv, RefusalInv, ErrorsBelowLimit, [Next]_vars
      PROVE  [Space!Next]_(Space!vars)
  <2>1. CASE AllocateAddressSpace
    BY <1>1, <2>1, SearchStutters DEF AllocateAddressSpace
  <2>2. CASE NextSection \/ AllSectionsDone \/ OtherName \/ SameName
             \/ SkipAllocated \/ NoFreeNode \/ TooSmall
    BY <1>1, <2>2, SearchStutters
       DEF NextSection, AllSectionsDone, OtherName, SameName, SkipAllocated, NoFreeNode,
           TooSmall, nodes
  <2>3. CASE Insufficient
    BY <1>1, <2>3, RefuseStep DEF Space!Next
  <2>4. CASE ExactFit \/ Split
    <3>1. Space!Bind(mptr) /\ mptr \in Mem
      BY <1>1, <2>4, BindRefined, ScanName DEF ExactFit, Split
    <3> QED
      BY <3>1 DEF Space!Next, Space!Mem, Mem
  <2>5. CASE UNCHANGED vars
    BY <1>1, <2>5, SearchStutters DEF vars, nodes
  <2> QED
    BY <1>1, <2>1, <2>2, <2>3, <2>4, <2>5 DEF Next
<1>2. Init => RefusalInv /\ ErrorsBelowLimit
  <2>1. Init => \A s \in Sect : ~ (s < sect)
    BY Numbers DEF Init, Sect
  <2> QED
    BY <2>1, SectionAssumption DEF Init, RefusalInv, RefusedOnlyWhenFull, ErrorsBelowLimit
<1>3. Spec => [](RefusalInv /\ ErrorsBelowLimit)
  <2>1. IInv /\ RefusalInv /\ [Next]_vars => RefusalInv'
    BY NextRefusal
  <2> QED
    BY <1>2, <2>1, NextErrors, SpecIInv, PTL DEF Spec
<1> QED
  BY <1>1, <1>3, InitSpace, SpecIInv, PTL DEF Spec, Space!Spec

-----------------------------------------------------------------------------
(* What the walk of update_section_information finds on avail_list: module *)
(* Layout_proofs uses it.  Nothing here depends on s_size, which that walk *)
(* changes.                                                                *)

\* Node k comes before node n on avail_list: segments in their order, and within
\* a segment the nodes as they were split off.
Before(k, n) == mem_ptr[k] < mem_ptr[n] \/ (mem_ptr[k] = mem_ptr[n] /\ k < n)

\* The fields of the nodes have their types.
FieldsOK ==
  /\ live \in SUBSET Node
  /\ next \in [Node -> Node \cup {NIL}]
  /\ addr_type \in [Node -> {"free", "allocated"}]
  /\ addr \in [Node -> Nat] /\ size \in [Node -> Nat]
  /\ mem_ptr \in [Node -> Mem]
  /\ sect_ptr \in [Node -> Sect \cup {NIL}]
  /\ s_paddr \in [Sect -> Nat \cup {Unbound}]

\* A node records a section exactly if it is allocated, no two record the same
\* one, and the bound sections are those that are recorded.
Recorded ==
  /\ \A n \in Node \ live : sect_ptr[n] = NIL
  /\ \A n \in live : addr_type[n] = "allocated" <=> sect_ptr[n] # NIL
  /\ \A n \in live : sect_ptr[n] # NIL =>
       /\ s_paddr[sect_ptr[n]] = addr[n]
       /\ MemName[mem_ptr[n]] = SectName[sect_ptr[n]]
  /\ \A n1, n2 \in live : sect_ptr[n1] # NIL /\ sect_ptr[n1] = sect_ptr[n2] => n1 = n2
  /\ \A s \in Sect : Bound(s) => \E n \in live : sect_ptr[n] = s

\* From node 1 on, next leads through all nodes in order.
InOrder ==
  pc # "space" =>
    /\ 1 \in live /\ mem_ptr[1] = 1
    /\ \A n \in live : next[n] \in live \cup {NIL}
    /\ \A n, k \in live :
         (Before(k, n) \/ k = n) <=> (next[n] = NIL \/ Before(k, next[n]))

\* Within a segment that order is the order of the addresses.
AddressOrder ==
  /\ \A k, n \in live : k < n /\ mem_ptr[k] = mem_ptr[n] => NodeEnd(k) <= addr[n]
  /\ \A n \in live : n <= addr_tail[mem_ptr[n]]

\* As long as no error was counted, every section passed was bound.
NoneRefused ==
  /\ pc # "exit" /\ user_errors = 0 => \A s \in Sect : s < sect => Bound(s)
  /\ pc = "done" => \A s \in Sect : s < sect

ListInv ==
  /\ FieldsOK /\ NodesInside /\ Recorded /\ InOrder /\ AddressOrder /\ NoneRefused

\* It holds of the empty list.
LEMMA InitListInv == Init => ListInv
<1> SUFFICES ASSUME Init PROVE ListInv
  OBVIOUS
<1>1. FieldsOK
  BY InitIInv DEF IInv, TypeOK, FieldsOK
<1>2. \A s \in Sect : ~ (s < sect)
  BY Numbers DEF Init, Sect
<1> QED
  BY <1>1, <1>2 DEF Init, ListInv, NodesInside, Recorded, InOrder, AddressOrder,
     NoneRefused, Bound

\* The steps that leave the nodes alone.
LEMMA CursorListInv ==
  ASSUME IInv, ListInv, UNCHANGED <<s_paddr, nodes>>, pc # "space",
         NoneRefused'
  PROVE  ListInv'
BY DEF nodes, ListInv, FieldsOK, NodesInside, Recorded, InOrder, AddressOrder, Before,
       Bound, NodeEnd, SegmentEnd

\* The steps of the search change no node.
LEMMA SearchListInv ==
  ASSUME IInv, ListInv, 
         NextSection \/ AllSectionsDone \/ OtherName \/ SameName \/ Insufficient
           \/ SkipAllocated \/ NoFreeNode \/ TooSmall
  PROVE  ListInv'
<1>1. /\ UNCHANGED <<s_paddr, nodes>> /\ pc \notin {"space", "exit"}
  BY DEF NextSection, AllSectionsDone, OtherName, SameName, Insufficient, SkipAllocated,
         NoFreeNode, TooSmall
<1>2. CASE Insufficient
  <2>1. user_errors \in Nat /\ user_errors' = user_errors + 1 /\ pc' # "done"
    BY <1>2 DEF IInv, TypeOK, Insufficient
  <2>2. NoneRefused'
    BY <2>1 DEF NoneRefused
  <2> QED
    BY <1>1, <2>2, CursorListInv
<1>3. CASE AllSectionsDone
  <2>1. \A s \in Sect : s < sect
    BY <1>3, Numbers DEF AllSectionsDone, IInv, TypeOK, Sect
  <2>2. NoneRefused'
    BY <1>1, <1>3, <2>1 DEF AllSectionsDone, ListInv, NoneRefused, Bound
  <2> QED
    BY <1>1, <2>2, CursorListInv
<1>4. CASE ~ Insufficient /\ ~ AllSectionsDone
  <2>1. pc' # "done" /\ sect' = sect /\ user_errors' = user_errors
    BY <1>4 DEF NextSection, OtherName, SameName, SkipAllocated, NoFreeNode, TooSmall
  <2>2. NoneRefused'
    BY <1>1, <2>1 DEF ListInv, NoneRefused, Bound
  <2> QED
    BY <1>1, <2>2, CursorListInv
<1> QED
  BY <1>2, <1>3, <1>4

\* The nodes of the segments are listed in the order of these.
LEMMA SpaceListInv == ASSUME IInv, ListInv, AllocateAddressSpace PROVE ListInv'
<1>1. IInv'
  BY SpaceStep
<1>2. FieldsOK' /\ NodesInside'
  BY <1>1 DEF IInv, TypeOK, FieldsOK
<1>3. /\ live = {} /\ live' = Mem /\ Mem \subseteq Node /\ 1 \in Mem
      /\ \A m \in Mem : mem_ptr'[m] = m /\ addr_tail'[m] = m
      /\ \A n \in Node : sect_ptr[n] = NIL
      /\ \A s \in Sect : ~ Bound(s) /\ ~ Bound(s)'
  BY Numbers DEF IInv, ListInv, Recorded, AllocateAddressSpace, Bound, Mem
<1>4. Recorded'
  <2>1. addr_type' = addr_type /\ sect_ptr' = sect_ptr
    BY DEF AllocateAddressSpace
  <2>2. \A n \in Node : addr_type[n] = "free"
    BY <1>3 DEF IInv
  <2> QED
    BY <1>3, <2>1, <2>2 DEF Recorded
<1>5. InOrder'
  <2>1. \A m \in Mem : next'[m] = IF m < NMem THEN m + 1 ELSE NIL
    BY <1>3 DEF AllocateAddressSpace
  <2>2. \A m \in Mem : next'[m] \in Mem \cup {NIL}
    BY <2>1, Numbers DEF Mem
  <2>3. ASSUME NEW n \in Mem, NEW k \in Mem
        PROVE  (k < n \/ k = n) <=> (next'[n] = NIL \/ k < next'[n])
    BY <2>1, Numbers DEF Mem, NIL
  <2> QED
    BY <1>3, <2>2, <2>3 DEF InOrder, Before
<1>6. AddressOrder'
  BY <1>3, Numbers DEF AddressOrder
<1>7. NoneRefused'
  BY DEF AllocateAddressSpace, ListInv, NoneRefused, Bound
<1> QED
  BY <1>2, <1>4, <1>5, <1>6, <1>7 DEF ListInv

\* What a section bound to the free node aptr means for the nodes: aptr records
\* it, and no other node changes what it records.
LEMMA BindRecords ==
  ASSUME IInv, ListInv, pc = "scan", addr_type[aptr] = "free", AllocateIt,
         live \subseteq live',
         \A n \in live' \ live : n \in Node,
         \A n \in live : addr'[n] = addr[n] /\ mem_ptr'[n] = mem_ptr[n]
  PROVE  /\ Recorded'
         /\ NoneRefused'
<1>1. /\ aptr \in live /\ aptr \in Node /\ mptr \in Mem /\ mem_ptr[aptr] = mptr
      /\ sect \in Sect /\ MemName[mptr] = SectName[sect] /\ TypeOK
      /\ sect \in Nat /\ sect # NIL /\ \A s \in Sect : s \in Nat
  BY ScanName, Numbers DEF IInv, Sect, NIL
<1>2. /\ addr_type'[aptr] = "allocated" /\ sect_ptr'[aptr] = sect
      /\ s_paddr'[sect] = addr[aptr] /\ sect' = sect + 1 /\ user_errors' = user_errors
      /\ pc' = "section" /\ addr[aptr] # Unbound
      /\ \A n \in Node : n # aptr => /\ addr_type'[n] = addr_type[n]
                                     /\ sect_ptr'[n] = sect_ptr[n]
      /\ \A s \in Sect : s # sect => s_paddr'[s] = s_paddr[s]
  <2>1. addr[aptr] \in Nat
    BY <1>1 DEF TypeOK
  <2>2. addr[aptr] # -1
    BY <2>1
  <2> QED
    BY <1>1, <2>2 DEF AllocateIt, TypeOK, Unbound
\* The section had no node before: it is not bound.
<1>3. /\ sect_ptr[aptr] = NIL
      /\ \A n \in live : sect_ptr[n] # sect
  <2>1. sect_ptr[aptr] = NIL
    BY <1>1 DEF ListInv, Recorded
  <2>2. \A n \in live : addr_type[n] = "allocated" => sect_ptr[n] < sect
    BY DEF IInv
  <2>3. \A n \in live : sect_ptr[n] # NIL => addr_type[n] = "allocated"
    BY DEF ListInv, Recorded
  <2>4. ~ (sect < sect)
    BY <1>1
  <2> QED
    BY <1>1, <2>1, <2>2, <2>3, <2>4
<1>4. live \subseteq Node /\ live' \subseteq Node
  BY <1>1 DEF TypeOK
<1>5. \A n \in live' \ live : /\ sect_ptr'[n] = NIL
                              /\ addr_type'[n] = "free"
  <2>1. \A n \in Node \ live : sect_ptr[n] = NIL /\ addr_type[n] = "free"
    BY DEF IInv, ListInv, Recorded
  <2> QED
    BY <1>1, <1>2, <1>4, <2>1
<1>6. Recorded'
  <2>1. \A n \in Node \ live' : sect_ptr'[n] = NIL
    BY <1>1, <1>2 DEF ListInv, Recorded
  <2>2. \A n \in live' : addr_type'[n] = "allocated" <=> sect_ptr'[n] # NIL
    <3>1. \A n \in live : addr_type[n] = "allocated" <=> sect_ptr[n] # NIL
      BY DEF ListInv, Recorded
    <3> QED
      BY <1>1, <1>2, <1>4, <1>5, <3>1
  <2>3. ASSUME NEW n \in live', sect_ptr'[n] # NIL
        PROVE  /\ s_paddr'[sect_ptr'[n]] = addr'[n]
               /\ MemName[mem_ptr'[n]] = SectName[sect_ptr'[n]]
    <3>1. n \in live
      BY <1>5, <2>3
    <3>2. CASE n = aptr
      BY <1>1, <1>2, <3>1, <3>2
    <3>3. CASE n # aptr
      <4>1. sect_ptr'[n] = sect_ptr[n] /\ sect_ptr[n] # sect /\ sect_ptr[n] \in Sect
        BY <1>1, <1>2, <1>3, <1>4, <2>3, <3>1, <3>3 DEF TypeOK
      <4>2. s_paddr[sect_ptr[n]] = addr[n] /\ MemName[mem_ptr[n]] = SectName[sect_ptr[n]]
        BY <2>3, <3>1, <4>1 DEF ListInv, Recorded
      <4> QED
        BY <1>2, <3>1, <4>1, <4>2
    <3> QED
      BY <3>2, <3>3
  <2>4. ASSUME NEW n1 \in live', NEW n2 \in live', sect_ptr'[n1] # NIL,
               sect_ptr'[n1] = sect_ptr'[n2]
        PROVE  n1 = n2
    <3>1. n1 \in live /\ n2 \in live
      BY <1>5, <2>4
    <3>2. n1 # aptr /\ n2 # aptr => sect_ptr[n1] # NIL /\ sect_ptr[n1] = sect_ptr[n2]
      BY <1>2, <1>4, <2>4, <3>1
    <3>3. n1 # aptr /\ n2 # aptr => n1 = n2
      BY <3>1, <3>2 DEF ListInv, Recorded
    <3> QED
      BY <1>2, <1>3, <1>4, <2>4, <3>1, <3>3
  <2>5. ASSUME NEW s \in Sect, Bound(s)'
        PROVE  \E n \in live' : sect_ptr'[n] = s
    <3>1. CASE s = sect
      BY <1>1, <1>2, <3>1
    <3>2. CASE s # sect
      <4>1. Bound(s)
        BY <1>2, <2>5, <3>2 DEF Bound
      <4>2. PICK n \in live : sect_ptr[n] = s
        BY <4>1 DEF ListInv, Recorded
      <4>3. n # aptr
        BY <1>1, <1>3, <4>2 DEF Sect, NIL
      <4> QED
        BY <1>2, <1>4, <4>2, <4>3
    <3> QED
      BY <3>1, <3>2
  <2> QED
    BY <2>1, <2>2, <2>3, <2>4, <2>5 DEF Recorded
<1>7. NoneRefused'
  <2>1. ASSUME user_errors = 0, NEW s \in Sect, s < sect + 1
        PROVE  Bound(s)'
    <3>1. s = sect \/ s < sect
      BY <1>1, <2>1
    <3>2. s # sect => Bound(s)
      BY <1>1, <2>1, <3>1 DEF ListInv, NoneRefused
    <3> QED
      BY <1>2, <3>2 DEF Bound
  <2> QED
    BY <1>2, <2>1 DEF NoneRefused
<1> QED
  BY <1>6, <1>7

\* A node that is taken whole stays where it is.
LEMMA ExactFitListInv == ASSUME IInv, ListInv, ExactFit PROVE ListInv'
<1>1. /\ pc = "scan" /\ addr_type[aptr] = "free" /\ AllocateIt
      /\ UNCHANGED <<live, next, addr, size, mem_ptr, addr_tail>>
  BY DEF ExactFit
<1>2. IInv'
  BY ExactFitStep
<1>3. FieldsOK' /\ NodesInside'
  BY <1>2 DEF IInv, TypeOK, FieldsOK
<1>4. Recorded' /\ NoneRefused'
  BY <1>1, BindRecords
<1>5. InOrder' /\ AddressOrder'
  BY <1>1 DEF ListInv, InOrder, AddressOrder, Before, NodeEnd
<1> QED
  BY <1>3, <1>4, <1>5 DEF ListInv

\* The node made for the rest goes directly behind the one cut.
LEMMA SplitListInv == ASSUME IInv, ListInv, Split PROVE ListInv'
<1> DEFINE new  == NMem + sect
           need == Need(sect)
<1>1. /\ pc = "scan" /\ addr_type[aptr] = "free" /\ need < size[aptr] /\ AllocateIt
      /\ AllocateAdjustMemory(aptr, new, need + addr[aptr])
  BY DEF Split
<1>2. /\ aptr \in live /\ aptr \in Node /\ mptr \in Mem /\ mem_ptr[aptr] = mptr
      /\ sect \in Sect /\ TypeOK /\ new \in Node /\ new \notin Mem
  BY <1>1, ScanName, Numbers DEF IInv
<1>3. /\ live \subseteq Node /\ \A n \in Node : n \in Nat
      /\ \A n \in Node : mem_ptr[n] \in Mem /\ addr[n] \in Nat /\ size[n] \in Nat
      /\ \A m \in Mem : m \in Nat
      /\ need \in Nat
  BY <1>2, NeedNat, Numbers DEF TypeOK
<1>4. /\ \A n \in live : n < new
      /\ new \notin live /\ new # aptr
  <2>1. \A n \in live \ Mem : n < new
    BY DEF IInv
  <2>2. \A n \in Mem : n < new
    BY <1>2, Numbers DEF Mem, Sect
  <2>3. ~ (new < new)
    BY <1>2, <1>3
  <2> QED
    BY <1>2, <2>1, <2>2, <2>3
\* The node that is split is the last of its segment.
<1>5. /\ addr_tail[mptr] = aptr
      /\ \A n \in live : mem_ptr[n] = mptr => n <= aptr
  <2>1. addr_tail[mptr] = aptr
    BY <1>1, <1>2 DEF IInv, OneFreeNode
  <2> QED
    BY <2>1 DEF ListInv, AddressOrder
<1>6. /\ live' = live \cup {new} /\ pc' = "section"
      /\ addr'[new] = need + addr[aptr] /\ size'[aptr] = need
      /\ mem_ptr'[new] = mptr /\ next'[aptr] = new /\ next'[new] = next[aptr]
      /\ addr_tail'[mptr] = new
      /\ \A m \in Mem : m # mptr => addr_tail'[m] = addr_tail[m]
      /\ \A n \in live : /\ addr'[n] = addr[n] /\ mem_ptr'[n] = mem_ptr[n]
                         /\ n # aptr => next'[n] = next[n] /\ size'[n] = size[n]
  BY <1>1, <1>2, <1>3, <1>4, <1>5 DEF TypeOK, AllocateAdjustMemory, AllocateIt
<1>7. IInv'
  BY SplitStep
<1>8. FieldsOK' /\ NodesInside'
  BY <1>7 DEF IInv, TypeOK, FieldsOK
<1>9. Recorded' /\ NoneRefused'
  <2>1. live \subseteq live' /\ \A n \in live' \ live : n \in Node
    BY <1>2, <1>6
  <2> QED
    BY <1>1, <1>6, <2>1, BindRecords
<1>10. InOrder'
  <2> DEFINE B(k, n) == \/ mem_ptr'[k] < mem_ptr'[n]
                        \/ mem_ptr'[k] = mem_ptr'[n] /\ k < n
  <2>1. /\ 1 \in live /\ mem_ptr[1] = 1
        /\ \A n \in live : next[n] \in live \cup {NIL}
        /\ \A n, k \in live :
             (Before(k, n) \/ k = n) <=> (next[n] = NIL \/ Before(k, next[n]))
    BY <1>1 DEF ListInv, InOrder
  <2>2. \A n, k \in live : B(k, n) <=> Before(k, n)
    BY <1>6 DEF Before
  <2>3. /\ NIL \notin live /\ new # NIL
    BY <1>2, <1>3 DEF Node, NIL
  \* Among the old nodes, the new one is where the split one is, but behind it.
  <2>4. \A k \in live : B(k, new) <=> (B(k, aptr) \/ k = aptr)
    BY <1>2, <1>3, <1>4, <1>5, <1>6
  <2>5. \A k \in live : B(new, k) <=> (B(aptr, k) /\ k # aptr)
    BY <1>2, <1>3, <1>4, <1>5, <1>6
  <2>6. ~ B(new, new) /\ ~ B(aptr, aptr)
    BY <1>2, <1>3, <1>4, <1>6
  <2>7. next[aptr] # NIL => B(new, next[aptr])
    <3>1. next[aptr] # NIL => next[aptr] \in live /\ B(aptr, next[aptr])
      BY <1>2, <2>1, <2>2
    <3> QED
      BY <2>5, <2>6, <3>1
  <2>8. ASSUME NEW n \in live', NEW k \in live'
        PROVE  (B(k, n) \/ k = n) <=> (next'[n] = NIL \/ B(k, next'[n]))
    <3> HIDE DEF B, new
    <3>1. CASE n = new
      <4>1. CASE k = new
        BY <1>6, <2>7, <3>1, <4>1
      <4>2. CASE k # new
        <5>1. k \in live
          BY <1>6, <2>8, <4>2
        <5>2. (B(k, aptr) \/ k = aptr) <=> (next[aptr] = NIL \/ B(k, next[aptr]))
          BY <1>2, <2>1, <2>2, <5>1
        <5> QED
          BY <1>6, <2>4, <3>1, <4>2, <5>1, <5>2
      <4> QED
        BY <4>1, <4>2
    <3>2. CASE n = aptr
      BY <1>2, <1>6, <2>3, <2>4, <2>5, <2>6, <2>8, <3>2
    <3>3. CASE n \in live /\ n # aptr
      <4>1. next'[n] = next[n] /\ next[n] \in live \cup {NIL}
        BY <1>6, <2>1, <3>3
      <4>2. CASE k = new
        <5>1. (B(aptr, n) \/ aptr = n) <=> (next[n] = NIL \/ B(aptr, next[n]))
          BY <1>2, <2>1, <2>2, <3>3
        <5>2. B(new, n) <=> B(aptr, n)
          BY <2>5, <3>3
        <5>3. next[n] # NIL => (B(new, next[n]) <=> B(aptr, next[n]))
          BY <2>5, <2>6, <4>1
        <5> QED
          BY <1>4, <3>3, <4>1, <4>2, <5>1, <5>2, <5>3
      <4>3. CASE k # new
        <5>1. k \in live
          BY <1>6, <2>8, <4>3
        <5>2. (Before(k, n) \/ k = n) <=> (next[n] = NIL \/ Before(k, next[n]))
          BY <2>1, <3>3, <5>1
        <5> QED
          BY <2>2, <3>3, <4>1, <5>1, <5>2
      <4> QED
        BY <4>2, <4>3
    <3> QED
      BY <1>6, <2>8, <3>1, <3>2, <3>3
  <2>9. \A n \in live' : next'[n] \in live' \cup {NIL}
    BY <1>2, <1>6, <2>1
  <2> QED
    BY <1>6, <2>1, <2>8, <2>9 DEF InOrder, Before
<1>11. AddressOrder'
  <2>1. \A k, n \in live : k < n /\ mem_ptr[k] = mem_ptr[n] => addr[k] + size[k] <= addr[n]
    BY DEF ListInv, AddressOrder, NodeEnd
  <2>2. ASSUME NEW k \in live', NEW n \in live', k < n, mem_ptr'[k] = mem_ptr'[n]
        PROVE  addr'[k] + size'[k] <= addr'[n]
    <3>1. CASE n = new
      <4>1. k \in live /\ mem_ptr[k] = mptr /\ k <= aptr
        BY <1>2, <1>3, <1>4, <1>5, <1>6, <2>2, <3>1
      <4>2. CASE k = aptr
        BY <1>2, <1>3, <1>6, <3>1, <4>2
      <4>3. CASE k # aptr
        <5>1. k < aptr
          BY <1>2, <1>3, <4>1, <4>3
        <5>2. addr[k] + size[k] <= addr[aptr]
          BY <1>2, <2>1, <4>1, <5>1
        <5>3. addr[k] \in Nat /\ size[k] \in Nat /\ addr[aptr] \in Nat
          BY <1>2, <1>3, <4>1
        <5>4. addr[k] + size[k] <= need + addr[aptr]
          BY <1>3, <5>2, <5>3
        <5> QED
          BY <1>6, <3>1, <4>1, <4>3, <5>4
      <4> QED
        BY <4>2, <4>3
    <3>2. CASE n # new
      <4>1. n \in live /\ n < new /\ n \in Nat
        BY <1>3, <1>4, <1>6, <2>2, <3>2
      <4>2. k # new
        BY <2>2, <4>1, <1>2, <1>3
      <4>3. k \in live /\ mem_ptr[k] = mem_ptr[n] /\ addr[k] + size[k] <= addr[n]
        BY <1>6, <2>1, <2>2, <4>1, <4>2
      <4>4. CASE k = aptr
        BY <1>2, <1>3, <1>5, <2>2, <4>1, <4>3, <4>4
      <4>5. CASE k # aptr
        BY <1>6, <4>1, <4>3, <4>5
      <4> QED
        BY <4>4, <4>5
    <3> QED
      BY <3>1, <3>2
  <2>3. ASSUME NEW n \in live'
        PROVE  n <= addr_tail'[mem_ptr'[n]]
    <3>1. CASE n = new
      BY <1>2, <1>3, <1>6, <3>1
    <3>2. CASE n # new
      <4>1. n \in live /\ n < new /\ n \in Nat /\ new \in Nat /\ mem_ptr[n] \in Mem
        BY <1>2, <1>3, <1>4, <1>6, <2>3, <3>2
      <4>2. n <= addr_tail[mem_ptr[n]]
        BY <4>1 DEF ListInv, AddressOrder
      <4> QED
        BY <1>6, <4>1, <4>2
    <3> QED
      BY <3>1, <3>2
  <2> QED
    BY <2>2, <2>3 DEF AddressOrder, NodeEnd
<1> QED
  BY <1>8, <1>9, <1>10, <1>11 DEF ListInv

\* Every step of the allocator keeps the list.
LEMMA NextListInv == IInv /\ ListInv /\ [Next]_vars => ListInv'
<1>1. ASSUME IInv, ListInv, Next PROVE ListInv'
  BY <1>1, SpaceListInv, SearchListInv, ExactFitListInv, SplitListInv DEF Next
<1>2. ASSUME ListInv, UNCHANGED vars PROVE ListInv'
  BY <1>2 DEF vars, nodes, ListInv, FieldsOK, NodesInside, Recorded, InOrder,
     AddressOrder, NoneRefused, Before, Bound, NodeEnd, SegmentEnd
<1> QED
  BY <1>1, <1>2

\* A step of another part of the linker leaves the list as it is.
LEMMA ListInvKept ==
  ASSUME ListInv, UNCHANGED <<pc, sect, s_paddr, user_errors, nodes>>
  PROVE  ListInv'
BY DEF nodes, ListInv, FieldsOK, NodesInside, Recorded, InOrder, AddressOrder, NoneRefused,
       Before, Bound, NodeEnd, SegmentEnd

\* Before the first step the sizes of the sections may still change.
LEMMA SizesFree ==
  ASSUME IInv, pc = "space", s_size' \in [Sect -> Nat],
         UNCHANGED <<pc, sect, mptr, aptr, s_paddr, user_errors, nodes>>
  PROVE  IInv'
<1>1. live = {} /\ \A s \in Sect : ~ Bound(s)
  BY DEF IInv, BoundToNode
<1> QED
  BY <1>1 DEF nodes, IInv, TypeOK, Chained, NodesDisjoint, NodesInside, OneFreeNode,
     BoundToNode, WalkInsideSegment, Bound

\* The node that records a section holds the words the section needs.
LEMMA NodeHoldsNeed ==
  ASSUME IInv, ListInv, NEW n \in live, sect_ptr[n] # NIL
  PROVE  sect_ptr[n] \in Sect /\ size[n] = Need(sect_ptr[n])
<1>1. n \in Node /\ sect_ptr[n] \in Sect /\ addr[n] \in Nat
  BY DEF IInv, TypeOK
<1>2. s_paddr[sect_ptr[n]] = addr[n] /\ addr[n] # -1
  BY <1>1 DEF ListInv, Recorded
<1>3. PICK k \in live : sect_ptr[k] = sect_ptr[n] /\ size[k] = Need(sect_ptr[n])
  BY <1>1, <1>2 DEF IInv, BoundToNode, Bound, Unbound
<1>4. k = n
  BY <1>3 DEF ListInv, Recorded
<1> QED
  BY <1>1, <1>3, <1>4
=============================================================================
