----------------------------- MODULE ArchMemory -----------------------------
(***************************************************************************)
(* The memory description: memory, add_swap and memory_check of            *)
(* binutils/link/memory.c with the list they keep (list.c), called for the *)
(* SEGMENT and OVERLAY directives of the architecture file (ach_sprt.c).   *)
(*                                                                         *)
(* memory_list is a list of MEMORY structures linked by mem_next, numbered *)
(* here in the order of the directives.  One action is one test of a walk  *)
(* over that list.  Addresses and lengths are unsigned longs; the signed   *)
(* ones that carry them (the parameters of memory, `length' of             *)
(* memory_check) are converted back before they are compared.              *)
(***************************************************************************)
EXTENDS Integers, Sequences

CONSTANTS
  Name,           \* the names of segments and overlays
  Key,            \* name -> its first SYMNMLEN characters
  Range,          \* the pairs <<begin, end>> a SEGMENT may give
  MaxAddr,        \* 0xffffffff
  LongRange,      \* an unsigned long holds 0 .. LongRange - 1
  MaxDirectives,  \* bound: SEGMENT and OVERLAY directives in the file
  MaxWarnings     \* bound: warnings, not less than MaxDirectives

Word == 0 .. (LongRange - 1)

ASSUME ArchAssumption ==
  /\ Name # {}
  /\ LongRange \in Nat \ {0}
  /\ Range \subseteq Word \X Word
  /\ MaxDirectives \in Nat
  /\ MaxWarnings \in Nat

NIL == 0
Seg == 1 .. MaxDirectives
Type == {"PM", "DM"}

VARIABLES
  pc,             \* where control is
  is_z,           \* the processor is one of the Z family
  count,          \* segments made so far
  seg,            \* segment -> its MEMORY structure
  head, tail,     \* memory_list
  member,         \* the structure that is to be added
  swapping,       \* the directive is an OVERLAY
  ptr, prev,      \* the pointers of a walk
  overlay_base,   \* the overlays, by the characters their name is compared by
  section_list,   \* the ACTIONs of action_define_section
  space,          \* the memory type memory_check looks at
  warnings

list  == <<count, seg, head, tail>>
known == <<overlay_base, section_list>>
vars  == <<pc, is_z, list, member, swapping, ptr, prev, known, space, warnings>>

NoSegment == [name |-> CHOOSE n \in Name : TRUE, start |-> 0, length |-> 0,
              type |-> "PM", mem_next |-> NIL]

Init ==
  /\ pc = "directive" /\ is_z \in BOOLEAN
  /\ count = 0 /\ seg = [s \in Seg |-> NoSegment] /\ head = NIL /\ tail = NIL
  /\ member = NoSegment /\ swapping = FALSE
  /\ ptr = NIL /\ prev = NIL
  /\ overlay_base = {} /\ section_list = <<>>
  /\ space = "PM" /\ warnings = 0

-----------------------------------------------------------------------------
(* SEGMENT: ach_segment and memory.                                        *)

Segment ==
  /\ pc = "directive" /\ count < MaxDirectives
  /\ \E n \in Name, r \in Range, t \in Type :
       IF r = <<0, MaxAddr>>
         THEN pc' = "exit" /\ UNCHANGED member
         ELSE /\ pc' = "duplicate"
              /\ member' = [name |-> n, start |-> r[1],
                            length |-> (r[2] - r[1] + 1) % LongRange,
                            type |-> t, mem_next |-> NIL]
  /\ ptr' = head
  /\ swapping' = FALSE
  /\ UNCHANGED <<is_z, list, prev, known, space, warnings>>

\* "Duplicate segment name": all characters are compared.
DuplicateName ==
  /\ pc = "duplicate" /\ ptr # NIL /\ seg[ptr].name = member.name
  /\ pc' = "exit"
  /\ UNCHANGED <<is_z, list, member, swapping, ptr, prev, known, space, warnings>>

OtherName ==
  /\ pc = "duplicate" /\ ptr # NIL /\ seg[ptr].name # member.name
  /\ ptr' = seg[ptr].mem_next
  /\ UNCHANGED <<pc, is_z, list, member, swapping, prev, known, space, warnings>>

\* list_add is entered with structure m.
StartInsert(m) ==
  /\ count' = count + 1
  /\ seg' = [seg EXCEPT ![count + 1] = m]
  /\ ptr' = head /\ prev' = NIL
  /\ pc' = "insert"
  /\ UNCHANGED <<head, tail>>

NewName ==
  /\ pc = "duplicate" /\ ptr = NIL
  /\ StartInsert(member)
  /\ UNCHANGED <<is_z, member, swapping, known, space, warnings>>

-----------------------------------------------------------------------------
(* OVERLAY: ach_overlay and add_swap.                                      *)

Overlay ==
  /\ pc = "directive" /\ count < MaxDirectives
  /\ \E swap \in Name :
       IF head = NIL
         THEN pc' = "exit" /\ UNCHANGED <<member, ptr>>
         ELSE /\ pc' = "swap"
              /\ member' = [NoSegment EXCEPT !.name = swap]
              /\ ptr' = head
  /\ swapping' = TRUE
  /\ UNCHANGED <<is_z, list, prev, known, space, warnings>>

SwapOther ==
  /\ pc = "swap" /\ ptr # NIL /\ Key[seg[ptr].name] # Key[member.name]
  /\ ptr' = seg[ptr].mem_next
  /\ UNCHANGED <<pc, is_z, list, member, swapping, prev, known, space, warnings>>

\* The loop compares before it tests the pointer: at the end of the list it
\* reads the name of the segment at address NULL.
SwapMissing ==
  /\ pc = "swap" /\ ptr = NIL
  /\ pc' = "crash"
  /\ UNCHANGED <<is_z, list, member, swapping, ptr, prev, known, space, warnings>>

\* The overlay is a copy of its segment -- mem_next included -- under a name
\* of its own, which is not compared with those on the list.
SwapFound ==
  /\ pc = "swap" /\ ptr # NIL /\ Key[seg[ptr].name] = Key[member.name]
  /\ \E label \in Name : StartInsert([seg[ptr] EXCEPT !.name = label])
  /\ UNCHANGED <<is_z, member, swapping, known, space, warnings>>

-----------------------------------------------------------------------------
(* list_add for LIST_MEMORY, "Ordered by address".                         *)

InsertFirst ==
  /\ pc = "insert" /\ head = NIL
  /\ head' = count /\ tail' = count
  /\ seg' = [seg EXCEPT ![count].mem_next = NIL]
  /\ pc' = "define"
  /\ UNCHANGED <<is_z, count, member, swapping, ptr, prev, known, space, warnings>>

InsertBefore ==
  /\ pc = "insert" /\ ptr # NIL /\ seg[ptr].start > seg[count].start
  /\ IF prev # NIL
       THEN seg' = [seg EXCEPT ![prev].mem_next = count, ![count].mem_next = ptr]
            /\ UNCHANGED head
       ELSE seg' = [seg EXCEPT ![count].mem_next = ptr] /\ head' = count
  /\ pc' = "define"
  /\ UNCHANGED <<is_z, count, tail, member, swapping, ptr, prev, known, space, warnings>>

\* MUTANT: the pointer to the structure before is not kept up.
InsertFurtherNoPrev ==
  /\ pc = "insert" /\ ptr # NIL /\ seg[ptr].start <= seg[count].start
  /\ prev' = head
  /\ ptr' = seg[ptr].mem_next
  /\ UNCHANGED <<pc, is_z, list, member, swapping, known, space, warnings>>

InsertFurther ==
  /\ pc = "insert" /\ ptr # NIL /\ seg[ptr].start <= seg[count].start
  /\ prev' = ptr
  /\ ptr' = seg[ptr].mem_next
  /\ UNCHANGED <<pc, is_z, list, member, swapping, known, space, warnings>>

\* At the end, mem_next of the new structure stays what its maker gave it.
InsertLast ==
  /\ pc = "insert" /\ head # NIL /\ ptr = NIL
  /\ seg' = [seg EXCEPT ![prev].mem_next = count]
  /\ tail' = count
  /\ pc' = "define"
  /\ UNCHANGED <<is_z, count, head, member, swapping, ptr, prev, known, space, warnings>>

\* action_define_section; add_swap also enters the overlay in overlay_base.  The
\* pointers of the walk were local.
DefineSection ==
  LET k == Key[seg[count].name] IN
  /\ pc = "define"
  /\ section_list' = Append(section_list, [sect_name |-> k, sect_type |-> seg[count].type])
  /\ overlay_base' = IF swapping THEN overlay_base \cup {k} ELSE overlay_base
  /\ pc' = "directive"
  /\ member' = NoSegment /\ swapping' = FALSE /\ ptr' = NIL /\ prev' = NIL
  /\ UNCHANGED <<is_z, list, space, warnings>>

-----------------------------------------------------------------------------
(* memory_check, which pass2 calls first.                                  *)

MemoryCheck ==
  /\ pc = "directive"
  /\ pc' = IF head = NIL THEN "exit" ELSE "check"
  /\ ptr' = head
  /\ space' = "PM"
  /\ UNCHANGED <<is_z, list, member, swapping, prev, known, warnings>>

\* MUTANT: the last word of a segment is left out of the comparison.
EndOfLast(m) == (seg[m].start + seg[m].length - 1) % LongRange

\* `length', as it is compared with an unsigned long.
EndOf(m) == (seg[m].start + seg[m].length) % LongRange

Compare(m, n, exempt) ==
  /\ warnings < MaxWarnings     \* bound: exceeded only by going round in a ring
  /\ warnings' =
       IF EndOf(m) > seg[n].start /\ ~ exempt THEN warnings + 1 ELSE warnings

\* Z family: each segment with the next, which is let pass if it has the name of
\* an overlay.
CheckZ ==
  /\ pc = "check" /\ is_z /\ seg[ptr].mem_next # NIL
  /\ LET n == seg[ptr].mem_next
     IN  Compare(ptr, n, Key[seg[n].name] \in overlay_base)
  /\ ptr' = seg[ptr].mem_next
  /\ UNCHANGED <<pc, is_z, list, member, swapping, prev, known, space>>

\* The others: each segment with the next of its type, first PM, then DM.
CheckSkip ==
  /\ pc = "check" /\ ~ is_z /\ seg[ptr].mem_next # NIL /\ seg[ptr].type # space
  /\ ptr' = seg[ptr].mem_next
  /\ UNCHANGED <<pc, is_z, list, member, swapping, prev, known, space, warnings>>

CheckSpace ==
  /\ pc = "check" /\ ~ is_z /\ seg[ptr].mem_next # NIL /\ seg[ptr].type = space
  /\ prev' = seg[ptr].mem_next     \* nextptr
  /\ pc' = "peer"
  /\ UNCHANGED <<is_z, list, member, swapping, ptr, known, space, warnings>>

\* MUTANT: nextptr is not advanced.
PeerSkipStuck ==
  /\ pc = "peer" /\ prev # NIL /\ seg[prev].type # space
  /\ UNCHANGED vars

PeerSkip ==
  /\ pc = "peer" /\ prev # NIL /\ seg[prev].type # space
  /\ prev' = seg[prev].mem_next
  /\ UNCHANGED <<pc, is_z, list, member, swapping, ptr, known, space, warnings>>

PeerCompare ==
  /\ pc = "peer" /\ prev # NIL /\ seg[prev].type = space
  /\ Compare(ptr, prev, FALSE)
  /\ ptr' = seg[ptr].mem_next
  /\ pc' = "check"
  /\ UNCHANGED <<is_z, list, member, swapping, prev, known, space>>

EndOfSpace ==
  /\ \/ pc = "check" /\ seg[ptr].mem_next = NIL
     \/ pc = "peer" /\ prev = NIL
  /\ IF is_z \/ space = "DM"
       THEN pc' = "done" /\ UNCHANGED <<ptr, space>>
       ELSE pc' = "check" /\ ptr' = head /\ space' = "DM"
  /\ UNCHANGED <<is_z, list, member, swapping, prev, known, warnings>>

Next ==
  \/ Segment \/ DuplicateName \/ OtherName \/ NewName
  \/ Overlay \/ SwapOther \/ SwapMissing \/ SwapFound
  \/ InsertFirst \/ InsertBefore \/ InsertFurther \/ InsertLast
  \/ DefineSection \/ MemoryCheck
  \/ CheckZ \/ CheckSkip \/ CheckSpace \/ PeerSkip \/ PeerCompare \/ EndOfSpace

Spec     == Init /\ [][Next]_vars
FairSpec == Spec /\ WF_vars(Next)

-----------------------------------------------------------------------------
\* The i-th structure of memory_list, from 0.
Visited ==
  LET v[i \in 0 .. count] ==
        IF i = 0 THEN head
        ELSE IF v[i - 1] = NIL THEN NIL ELSE seg[v[i - 1]].mem_next
  IN  v

Linked == pc \in {"directive", "check", "peer", "done"}
Cyclic == Visited[count] # NIL

\* Structures of the same address stay in the order of their directives.
Before(s, t) ==
  \/ seg[s].start < seg[t].start
  \/ seg[s].start = seg[t].start /\ s < t

\* t is the first of S, and NIL if there is none.
IsFirst(t, S) ==
  IF t = NIL THEN S = {} ELSE t \in S /\ \A u \in S : u = t \/ Before(t, u)

After(s, n) == {t \in 1 .. n : Before(s, t)}

\* The links lead from the first of the structures 1 .. n to the last, and from
\* each to the next.
Listed(n) ==
  /\ IsFirst(head, 1 .. n)
  /\ \A s \in 1 .. n : IsFirst(seg[s].mem_next, After(s, n))

\* "Ordered by address": memory_list is a list, with every segment on it once,
\* in ascending order of address.
OrderedByAddress == Linked => Listed(count)

\* Three of the structures 1 .. n are at the highest address used.
CrowdedTop(n) ==
  \E s, t, u \in 1 .. n :
    /\ s < t /\ t < u /\ seg[s].start = seg[t].start /\ seg[t].start = seg[u].start
    /\ \A x \in 1 .. n : seg[x].start <= seg[s].start

\* It is, as long as an overlay is not the third segment at the highest address
\* used: then mem_next, copied from a segment that is not the last, closes a
\* ring at the end of the list.
OrderedBelowTop == OrderedByAddress \/ CrowdedTop(count)

SegmentEnd(s) == seg[s].start + seg[s].length
Overlap(s, t) ==
  /\ s # t /\ seg[s].length > 0 /\ seg[t].length > 0
  /\ seg[s].start < SegmentEnd(t) /\ seg[t].start < SegmentEnd(s)
SameSpace(s, t) == is_z \/ seg[s].type = seg[t].type
IsOverlay(s) == Key[seg[s].name] \in overlay_base

\* The end of segment s is an address: it is not behind the last one, where it
\* would be computed as 0.
BelowTop(s) == SegmentEnd(s) < LongRange

\* What the Z family needs: no two structures have the same first characters,
\* none is empty, and none reaches the last address.
PlainMemory ==
  /\ \A s, t \in 1 .. count : s # t => Key[seg[s].name] # Key[seg[t].name]
  /\ \A s \in 1 .. count : seg[s].length > 0 /\ BelowTop(s)

\* "Memory areas ... overlap.": memory_check does not come to its end without a
\* warning if two segments of the same memory overlap, as long as the one in
\* front does not reach the last address: comparing neighbours of the ordered
\* list is then enough.  On the Z family overlays are let pass, and one between
\* two segments that overlap may hide that, unless its own segment gives it away.
OverlapWarned ==
  pc = "done" =>
    \A s, t \in 1 .. count :
      /\ Before(s, t) /\ Overlap(s, t) /\ SameSpace(s, t) /\ BelowTop(s)
      /\ is_z => ~ IsOverlay(s) /\ ~ IsOverlay(t) /\ PlainMemory
      => warnings > 0

\* The memory description is read and checked to the end, unless memory_list
\* has become a ring.
Terminates == <>(pc \in {"done", "exit", "crash"} \/ Cyclic)
=============================================================================
