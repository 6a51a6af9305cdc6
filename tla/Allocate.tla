------------------------------ MODULE Allocate ------------------------------
(***************************************************************************)
(* Binding of output sections to addresses: binutils/link/allocate.c.      *)
(*                                                                         *)
(* The free space is avail_list, a linked list of ADDRESS nodes in address *)
(* order.  Every memory segment owns the stretch of that list between its  *)
(* addr_head and addr_tail.  A section takes the front of the first FREE   *)
(* node of a segment of its name, and the rest of that node is split off.  *)
(*                                                                         *)
(* Segments are numbered in memory_list order and sections in              *)
(* output_section_list order.  A segment m starts as node m and a section  *)
(* s that splits a node allocates node NMem + s, so a node number stands   *)
(* for one my_calloc of an ADDRESS.  One action is one test of a loop.     *)
(***************************************************************************)
EXTENDS Integers

CONSTANTS
  NMem,       \* number of segments on memory_list
  MemName,    \* segment -> the SYMNMLEN characters its name is matched by
  MemStart,   \* segment -> start_address
  MemLength,  \* segment -> mem_length, in words
  NSect,      \* number of sections on output_section_list
  SectName,   \* section -> s_name
  SectWord,   \* section -> bytes in a word: PM_WORD_SIZE or DM_WORD_SIZE
  Words,      \* the numbers of words a section may hold
  MaxErrors   \* MAX_ERRORS: user errors after which the linker gives up

Mem  == 1 .. NMem
Sect == 1 .. NSect
Node == 1 .. (NMem + NSect)
NIL  == 0
Unbound == -1     \* s_paddr of a section that has no address yet

ASSUME SegmentAssumption ==
  /\ NMem \in Nat \ {0}
  /\ MemStart \in [Mem -> Nat]
  /\ MemLength \in [Mem -> Nat]
  /\ DOMAIN MemName = Mem

ASSUME SectionAssumption ==
  /\ NSect \in Nat
  /\ SectWord \in [Sect -> Nat \ {0}]
  /\ Words \subseteq Nat
  /\ DOMAIN SectName = Sect
  /\ MaxErrors \in Nat \ {0}

\* memory_list is kept in address order by list_add (module ArchMemory).
ASSUME MemoryListSorted ==
  \A m1, m2 \in Mem : m1 <= m2 => MemStart[m1] <= MemStart[m2]

VARIABLES
  pc,           \* where control is
  sect,         \* out_sect_ptr: the section being placed
  mptr,         \* the segment being tried
  aptr,         \* addr_ptr1: the node being looked at
  s_size,       \* section -> bytes of data it holds
  s_paddr,      \* section -> the address it was bound to
  user_errors,  \* USER_ERRORs counted
  live,         \* the ADDRESS nodes that exist
  next,         \* node -> its successor on avail_list
  addr_type, addr, size, mem_ptr, sect_ptr,  \* the fields of a node
  addr_tail     \* segment -> last node of its stretch of avail_list

nodes == <<live, next, addr_type, addr, size, mem_ptr, sect_ptr, addr_tail>>
vars  == <<pc, sect, mptr, aptr, s_size, s_paddr, user_errors, nodes>>

\* The stretch of a segment always begins at the node it was created with.
addr_head(m) == m

\* what_we_need: the words section s occupies.
Need(s) == s_size[s] \div SectWord[s]

Init ==
  /\ pc = "space" /\ sect = 1 /\ mptr = 1 /\ aptr = NIL
  /\ \E w \in [Sect -> Words] : s_size = [s \in Sect |-> w[s] * SectWord[s]]
  /\ s_paddr = [s \in Sect |-> Unbound]
  /\ user_errors = 0
  /\ live = {}
  /\ next = [n \in Node |-> NIL]
  /\ addr_type = [n \in Node |-> "free"]
  /\ addr = [n \in Node |-> 0]
  /\ size = [n \in Node |-> 0]
  /\ mem_ptr = [n \in Node |-> 1]
  /\ sect_ptr = [n \in Node |-> NIL]
  /\ addr_tail = [m \in Mem |-> m]

\* allocate_address_space.  The segments arrive in address order, so the
\* insertion of list_add always falls at the end of avail_list.
AllocateAddressSpace ==
  /\ pc = "space"
  /\ live' = Mem
  /\ addr' = [n \in Node |-> IF n \in Mem THEN MemStart[n] ELSE 0]
  /\ size' = [n \in Node |-> IF n \in Mem THEN MemLength[n] ELSE 0]
  /\ mem_ptr' = [n \in Node |-> IF n \in Mem THEN n ELSE 1]
  /\ next' = [n \in Node |-> IF n < NMem THEN n + 1 ELSE NIL]
  /\ pc' = "section"
  /\ UNCHANGED <<sect, mptr, aptr, s_size, s_paddr, user_errors,
                 addr_type, sect_ptr, addr_tail>>

\* MUTANT: the search goes on where that of the section before it ended.
NextSectionNoReset ==
  /\ pc = "section" /\ sect \in Sect
  /\ pc' = "memory"
  /\ UNCHANGED <<sect, mptr, aptr, s_size, s_paddr, user_errors, nodes>>

\* The next section starts its search at the head of memory_list.
NextSection ==
  /\ pc = "section" /\ sect \in Sect
  /\ mptr' = 1
  /\ pc' = "memory"
  /\ UNCHANGED <<sect, aptr, s_size, s_paddr, user_errors, nodes>>

AllSectionsDone ==
  /\ pc = "section" /\ sect > NSect
  /\ pc' = "done"
  /\ UNCHANGED <<sect, mptr, aptr, s_size, s_paddr, user_errors, nodes>>

\* The search of memory_list passes a segment of another name ...
OtherName ==
  /\ pc = "memory" /\ mptr \in Mem
  /\ MemName[mptr] # SectName[sect]
  /\ mptr' = mptr + 1
  /\ UNCHANGED <<pc, sect, aptr, s_size, s_paddr, user_errors, nodes>>

\* ... and enters allocate_check_memory for one of the section's name.
SameName ==
  /\ pc = "memory" /\ mptr \in Mem
  /\ MemName[mptr] = SectName[sect]
  /\ aptr' = addr_head(mptr)
  /\ pc' = "scan"
  /\ UNCHANGED <<sect, mptr, s_size, s_paddr, user_errors, nodes>>

\* No segment took the section: USER_ERROR, which ends the link at MAX_ERRORS.
Insufficient ==
  /\ pc = "memory" /\ mptr > NMem
  /\ user_errors' = user_errors + 1
  /\ sect' = sect + 1
  /\ pc' = IF user_errors' >= MaxErrors THEN "exit" ELSE "section"
  /\ UNCHANGED <<mptr, aptr, s_size, s_paddr, nodes>>

\* allocate_check_memory: walk over the nodes that are taken, up to addr_tail.
SkipAllocated ==
  /\ pc = "scan" /\ addr_type[aptr] = "allocated"
  /\ aptr # addr_tail[mptr]
  /\ aptr' = next[aptr]
  /\ UNCHANGED <<pc, sect, mptr, s_size, s_paddr, user_errors, nodes>>

\* MUTANT: the caller's loop does not advance mptr.
NoFreeNodeStuck ==
  /\ pc = "scan" /\ addr_type[aptr] = "allocated"
  /\ aptr = addr_tail[mptr]
  /\ pc' = "memory"
  /\ UNCHANGED <<sect, mptr, aptr, s_size, s_paddr, user_errors, nodes>>

NoFreeNode ==
  /\ pc = "scan" /\ addr_type[aptr] = "allocated"
  /\ aptr = addr_tail[mptr]
  /\ mptr' = mptr + 1
  /\ pc' = "memory"
  /\ UNCHANGED <<sect, aptr, s_size, s_paddr, user_errors, nodes>>

\* MUTANT: what_we_need >= what_we_have.
TooSmallOrExact ==
  /\ pc = "scan" /\ addr_type[aptr] = "free"
  /\ Need(sect) >= size[aptr]
  /\ mptr' = mptr + 1
  /\ pc' = "memory"
  /\ UNCHANGED <<sect, aptr, s_size, s_paddr, user_errors, nodes>>

\* The first FREE node is too small: the segment is given up.
TooSmall ==
  /\ pc = "scan" /\ addr_type[aptr] = "free"
  /\ Need(sect) > size[aptr]
  /\ mptr' = mptr + 1
  /\ pc' = "memory"
  /\ UNCHANGED <<sect, aptr, s_size, s_paddr, user_errors, nodes>>

\* allocate_it: node aptr becomes the section's.
AllocateIt ==
  /\ addr_type' = [addr_type EXCEPT ![aptr] = "allocated"]
  /\ sect_ptr' = [sect_ptr EXCEPT ![aptr] = sect]
  /\ s_paddr' = [s_paddr EXCEPT ![sect] = addr[aptr]]
  /\ sect' = sect + 1
  /\ pc' = "section"
  /\ UNCHANGED <<mptr, aptr, s_size, user_errors>>

\* The node fits exactly.
ExactFit ==
  /\ pc = "scan" /\ addr_type[aptr] = "free"
  /\ Need(sect) = size[aptr]
  /\ AllocateIt
  /\ UNCHANGED <<live, next, addr, size, mem_ptr, addr_tail>>

\* MUTANT: the copy keeps the address of the node it was split from.
AdjustMemoryKeepsAddress(n, new, address) ==
  /\ live' = live \cup {new}
  /\ addr' = [addr EXCEPT ![new] = addr[n]]
  /\ size' = [size EXCEPT ![n] = address - addr[n],
                          ![new] = size[n] - (address - addr[n])]
  /\ mem_ptr' = [mem_ptr EXCEPT ![new] = mem_ptr[n]]
  /\ next' = [next EXCEPT ![n] = new, ![new] = next[n]]
  /\ addr_tail' = IF addr_tail[mem_ptr[n]] = n
                    THEN [addr_tail EXCEPT ![mem_ptr[n]] = new]
                    ELSE addr_tail

\* allocate_adjust_memory: the rest of node n, from `address' on, becomes a
\* new node behind it.  The copy of n is FREE, as n is and as addr_type has it
\* for a node that does not exist yet.
AllocateAdjustMemory(n, new, address) ==
  /\ live' = live \cup {new}
  /\ addr' = [addr EXCEPT ![new] = address]
  /\ size' = [size EXCEPT ![n] = address - addr[n],
                          ![new] = size[n] - (address - addr[n])]
  /\ mem_ptr' = [mem_ptr EXCEPT ![new] = mem_ptr[n]]
  /\ next' = [next EXCEPT ![n] = new, ![new] = next[n]]
  /\ addr_tail' = IF addr_tail[mem_ptr[n]] = n
                    THEN [addr_tail EXCEPT ![mem_ptr[n]] = new]
                    ELSE addr_tail

\* MUTANT: a section larger than the node is bound to it all the same.
SplitAnySize ==
  /\ pc = "scan" /\ addr_type[aptr] = "free"
  /\ Need(sect) # size[aptr]
  /\ AllocateAdjustMemory(aptr, NMem + sect, Need(sect) + addr[aptr])
  /\ AllocateIt

Split ==
  /\ pc = "scan" /\ addr_type[aptr] = "free"
  /\ Need(sect) < size[aptr]
  /\ AllocateAdjustMemory(aptr, NMem + sect, Need(sect) + addr[aptr])
  /\ AllocateIt

Next ==
  \/ AllocateAddressSpace \/ NextSection \/ AllSectionsDone
  \/ OtherName \/ SameName \/ Insufficient
  \/ SkipAllocated \/ NoFreeNode \/ TooSmall \/ ExactFit \/ Split

Spec     == Init /\ [][Next]_vars
FairSpec == Spec /\ WF_vars(Next)

-----------------------------------------------------------------------------
\* Every variable has its type.
TypeOK ==
  /\ pc \in {"space", "section", "memory", "scan", "done", "exit"}
  /\ sect \in 1 .. (NSect + 1) /\ mptr \in 1 .. (NMem + 1)
  /\ aptr \in Node \cup {NIL}
  /\ s_size \in [Sect -> Nat]
  /\ s_paddr \in [Sect -> Nat \cup {Unbound}]
  /\ user_errors \in Nat
  /\ live \in SUBSET Node
  /\ next \in [Node -> Node \cup {NIL}]
  /\ addr_type \in [Node -> {"free", "allocated"}]
  /\ addr \in [Node -> Nat] /\ size \in [Node -> Nat]
  /\ mem_ptr \in [Node -> Mem]
  /\ sect_ptr \in [Node -> Sect \cup {NIL}]
  /\ addr_tail \in [Mem -> Node]

NodeEnd(n)    == addr[n] + size[n]
SegmentEnd(m) == MemStart[m] + MemLength[m]
Bound(s)      == s_paddr[s] # Unbound
SectionEnd(s) == s_paddr[s] + Need(s)

\* The nodes of a segment, followed from addr_head to addr_tail, run through
\* it without a gap: each begins where the one before it ends.
Chained ==
  pc # "space" =>
    /\ \A m \in Mem : /\ m \in live
                      /\ addr[addr_head(m)] = MemStart[m]
                      /\ addr_tail[m] \in live
                      /\ mem_ptr[addr_tail[m]] = m
                      /\ NodeEnd(addr_tail[m]) = SegmentEnd(m)
    /\ \A n \in live : n # addr_tail[mem_ptr[n]] =>
                         /\ next[n] \in live
                         /\ mem_ptr[next[n]] = mem_ptr[n]
                         /\ addr[next[n]] = NodeEnd(n)

\* Two nodes of a segment share no address, and none leaves its segment.
NodesDisjoint ==
  \A n1, n2 \in live :
    n1 # n2 /\ mem_ptr[n1] = mem_ptr[n2] =>
      NodeEnd(n1) <= addr[n2] \/ NodeEnd(n2) <= addr[n1]

NodesInside ==
  \A n \in live : MemStart[mem_ptr[n]] <= addr[n]
                  /\ NodeEnd(n) <= SegmentEnd(mem_ptr[n])

\* The walk of allocate_check_memory dereferences only nodes of the segment it
\* was called for: it can neither run into the next segment nor off the list.
WalkInsideSegment ==
  pc = "scan" => mptr \in Mem /\ aptr \in live /\ mem_ptr[aptr] = mptr

\* What is FREE of a segment is one node, the last: giving up at the first FREE
\* node, as allocate_check_memory does, overlooks no space.
OneFreeNode ==
  \A n \in live : addr_type[n] = "free" => n = addr_tail[mem_ptr[n]]

\* A bound section is the data of exactly the node that records it, in a segment
\* of its name.
BoundToNode ==
  \A s \in Sect : Bound(s) =>
    \E n \in live : /\ addr_type[n] = "allocated" /\ sect_ptr[n] = s
                    /\ addr[n] = s_paddr[s] /\ size[n] = Need(s)
                    /\ MemName[mem_ptr[n]] = SectName[s]

\* A section is bound inside one segment of its own name.
SectionInsideSegment ==
  \A s \in Sect : Bound(s) =>
    \E m \in Mem : /\ MemName[m] = SectName[s]
                   /\ MemStart[m] <= s_paddr[s]
                   /\ SectionEnd(s) <= SegmentEnd(m)

Overlapping(a1, e1, a2, e2) == a1 < e2 /\ a2 < e1

\* Two sections are bound to a common address only if they lie in different
\* segments that themselves overlap: in the case memory_check warns of.
SectionsDisjoint ==
  \A s1, s2 \in Sect :
    /\ s1 # s2 /\ Bound(s1) /\ Bound(s2)
    /\ Overlapping(s_paddr[s1], SectionEnd(s1), s_paddr[s2], SectionEnd(s2))
    => \E m1, m2 \in Mem :
         /\ m1 # m2
         /\ MemName[m1] = SectName[s1] /\ MemName[m2] = SectName[s2]
         /\ Overlapping(MemStart[m1], SegmentEnd(m1), MemStart[m2], SegmentEnd(m2))

\* Sections are kept in their segments and apart from each other.
SectionsPlaced == SectionInsideSegment /\ SectionsDisjoint

\* The words that are left of segment m.
HasRoom(m, words) ==
  \E n \in live : mem_ptr[n] = m /\ addr_type[n] = "free" /\ words <= size[n]

\* A section that was passed over without an address found no segment of its
\* name with that many words left, then or at any later time.
RefusedOnlyWhenFull ==
  \A s \in Sect : s < sect /\ ~ Bound(s) =>
    \A m \in Mem : MemName[m] = SectName[s] => ~ HasRoom(m, Need(s))

\* allocate returns, or the error limit ends the link.
Terminates == <>(pc \in {"done", "exit"})

-----------------------------------------------------------------------------
\* The inductive invariant: avail_list cuts every segment into nodes without gap
\* or overlap, each bound section is one of them, and the search is inside the
\* segment it looks at.
IInv ==
  /\ TypeOK /\ Chained /\ NodesDisjoint /\ NodesInside /\ OneFreeNode
  /\ BoundToNode /\ WalkInsideSegment
  /\ pc = "space" =>
       /\ live = {} /\ sect = 1
       /\ \A m \in Mem : addr_tail[m] = m
  /\ \A n \in Node \ live : addr_type[n] = "free"
  /\ \A n \in live : addr_type[n] = "allocated" => sect_ptr[n] < sect
  /\ \A n \in live \ Mem : n < NMem + sect
  /\ \A s \in Sect : Bound(s) => s < sect
  /\ pc \in {"memory", "scan"} => sect \in Sect
  /\ pc = "scan" => MemName[mptr] = SectName[sect]
  /\ \A m \in live \cap Mem : mem_ptr[m] = m

\* With IInv inductive: besides every refused section, the one being placed has
\* been offered no room by the segments its search has passed.
RefusalInv ==
  /\ RefusedOnlyWhenFull
  /\ pc \in {"memory", "scan"} =>
       \A m \in Mem : m < mptr /\ MemName[m] = SectName[sect] => ~ HasRoom(m, Need(sect))

\* The words left in segment m, or SegmentSpace's Full.
Room(m) ==
  IF pc = "space" THEN MemLength[m]
  ELSE IF addr_type[addr_tail[m]] = "free" THEN size[addr_tail[m]] ELSE -1

Space == INSTANCE SegmentSpace WITH
           need <- [s \in Sect |-> Need(s)],
           room <- [m \in Mem |-> Room(m)]

\* The search through the list of nodes implements the filling of segments.
ImplementsSpace == Space!FairSpec
=============================================================================
