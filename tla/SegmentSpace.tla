---------------------------- MODULE SegmentSpace ----------------------------
(***************************************************************************)
(* What binutils/link/allocate.c promises, without its list of nodes: each *)
(* segment is filled from its start upwards, and every section, in         *)
(* output_section_list order, goes to the first segment of its name, in    *)
(* address order, that has enough words left -- or is refused.             *)
(***************************************************************************)
EXTENDS Integers

CONSTANTS
  NMem, MemName, MemStart, MemLength,  \* the segments, in address order
  NSect, SectName,                     \* the sections
  MaxErrors

VARIABLES
  need,         \* section -> words it needs
  sect,         \* the next section to place
  s_paddr,      \* section -> its address
  room,         \* segment -> words left, or Full
  user_errors   \* sections refused

vars == <<need, sect, s_paddr, room, user_errors>>

Mem  == 1 .. NMem
Sect == 1 .. NSect
Unbound == -1
\* A segment filled to its last word takes no further section, not even an
\* empty one: no FREE node of it is left.
Full == -1

Init ==
  /\ need \in [Sect -> Nat]
  /\ sect = 1
  /\ s_paddr = [s \in Sect |-> Unbound]
  /\ room = MemLength
  /\ user_errors = 0

Fits(s, m) == MemName[m] = SectName[s] /\ need[s] <= room[m]

Bind(m) ==
  /\ sect \in Sect /\ user_errors < MaxErrors
  /\ Fits(sect, m)
  /\ \A m2 \in Mem : m2 < m => ~ Fits(sect, m2)
  /\ s_paddr' = [s_paddr EXCEPT ![sect] = MemStart[m] + MemLength[m] - room[m]]
  /\ room' = [room EXCEPT ![m] = IF need[sect] = room[m]
                                   THEN Full ELSE room[m] - need[sect]]
  /\ sect' = sect + 1
  /\ UNCHANGED <<need, user_errors>>

Refuse ==
  /\ sect \in Sect /\ user_errors < MaxErrors
  /\ \A m \in Mem : ~ Fits(sect, m)
  /\ user_errors' = user_errors + 1
  /\ sect' = sect + 1
  /\ UNCHANGED <<need, s_paddr, room>>

Next == (\E m \in Mem : Bind(m)) \/ Refuse

Spec     == Init /\ [][Next]_vars
FairSpec == Spec /\ WF_vars(Next)
=============================================================================
