-------------------------- MODULE ArchMemory_proofs --------------------------
(***************************************************************************)
(* Theorems about ArchMemory, for any directives: memory_list is ordered,  *)
(* unless a third segment at the highest address has made it a ring, and   *)
(* memory_check warns of overlaps.                                         *)
(***************************************************************************)
EXTENDS ArchMemory, TLAPS, WellFoundedInduction

-----------------------------------------------------------------------------
(* The order of the structures.                                            *)

\* The structures that are on memory_list: while list_add walks, the new one is
\* not.
N == IF pc = "insert" THEN count - 1 ELSE count

Struct == [name : Name, start : Word, length : Word, type : Type, mem_next : 0 .. MaxDirectives]

TypeOK ==
  /\ is_z \in BOOLEAN /\ swapping \in BOOLEAN
  /\ count \in 0 .. MaxDirectives
  /\ pc \in {"insert", "define"} => count # 0
  /\ pc \in {"duplicate", "swap"} => count < MaxDirectives
  /\ pc \in {"check", "peer"} => head # NIL /\ ptr # NIL
  /\ pc = "peer" => seg[ptr].mem_next # NIL
  /\ seg \in [Seg -> Struct] /\ member \in Struct
  /\ head \in 0 .. MaxDirectives /\ ptr \in 0 .. MaxDirectives /\ prev \in 0 .. MaxDirectives
  /\ space \in Type
  /\ warnings \in Nat

\* The starts of 1 .. n are numbers.
Starts(n) == \A s \in 1 .. n : seg[s].start \in Int

\* Any two structures are in order, and the order is transitive.
LEMMA Ordered ==
  ASSUME NEW n \in Nat, Starts(n)
  PROVE  /\ \A s \in 1 .. n : ~ Before(s, s)
         /\ \A s, t \in 1 .. n : s = t \/ Before(s, t) \/ Before(t, s)
         /\ \A s, t \in 1 .. n : Before(s, t) => ~ Before(t, s)
         /\ \A s, t, u \in 1 .. n : Before(s, t) /\ Before(t, u) => Before(s, u)
         /\ \A s, t \in 1 .. n : Before(s, t) => seg[s].start <= seg[t].start
<1>1. \A s \in 1 .. n : s \in Int /\ seg[s].start \in Int
  BY DEF Starts
<1>2. \A s \in 1 .. n : ~ Before(s, s)
  BY <1>1 DEF Before
<1>3. \A s, t \in 1 .. n : s = t \/ Before(s, t) \/ Before(t, s)
  BY <1>1 DEF Before
<1>4. \A s, t \in 1 .. n : Before(s, t) => ~ Before(t, s)
  BY <1>1 DEF Before
<1>5. \A s, t, u \in 1 .. n : Before(s, t) /\ Before(t, u) => Before(s, u)
  BY <1>1 DEF Before
<1>6. \A s, t \in 1 .. n : Before(s, t) => seg[s].start <= seg[t].start
  BY <1>1 DEF Before
<1> QED
  BY <1>2, <1>3, <1>4, <1>5, <1>6

\* A list is one as long as its structures are what they are.
LEMMA SameList ==
  ASSUME NEW n \in Nat, Listed(n), head' = head, \A s \in 1 .. n : seg'[s] = seg[s]
  PROVE  Listed(n)'
<1>1. \A s, t \in 1 .. n : Before(s, t)' <=> Before(s, t)
  BY DEF Before
<1>2. \A s \in 1 .. n : After(s, n)' = After(s, n)
  BY <1>1 DEF After
<1>3. IsFirst(head, 1 .. n)'
  BY <1>1 DEF Listed, IsFirst
<1>4. ASSUME NEW s \in 1 .. n PROVE IsFirst(seg[s].mem_next, After(s, n))'
  <2>1. IsFirst(seg[s].mem_next, After(s, n))
    BY DEF Listed
  <2>2. After(s, n) \subseteq 1 .. n
    BY DEF After
  <2> QED
    BY <1>1, <1>2, <2>1, <2>2 DEF IsFirst
<1> QED
  BY <1>3, <1>4 DEF Listed

\* list_add has passed the structures up to prev, none of which has a higher
\* address than structure c.
Passed(c, n) ==
  \/ prev = NIL /\ ptr = head
  \/ prev \in 1 .. n /\ seg[prev].mem_next = ptr /\ seg[prev].start <= seg[c].start

\* So a structure is at prev or before it, or at ptr or behind it.
LEMMA Sides ==
  ASSUME NEW n \in Nat, NEW c, Starts(n), Listed(n), Passed(c, n)
  PROVE  \A u \in 1 .. n :
           \/ prev \in 1 .. n /\ (u = prev \/ Before(u, prev))
           \/ ptr \in 1 .. n /\ (u = ptr \/ Before(ptr, u))
<1> SUFFICES ASSUME NEW u \in 1 .. n
             PROVE  \/ prev \in 1 .. n /\ (u = prev \/ Before(u, prev))
                    \/ ptr \in 1 .. n /\ (u = ptr \/ Before(ptr, u))
  OBVIOUS
<1>1. CASE prev = NIL /\ ptr = head
  BY <1>1 DEF Listed, IsFirst
<1>2. CASE prev \in 1 .. n /\ seg[prev].mem_next = ptr
  <2>1. CASE u = prev \/ Before(u, prev)
    BY <1>2, <2>1
  <2>2. CASE u # prev /\ ~ Before(u, prev)
    <3>1. u \in After(prev, n)
      BY <1>2, <2>2, Ordered DEF After
    <3>2. IsFirst(ptr, After(prev, n))
      BY <1>2 DEF Listed
    <3> QED
      BY <3>1, <3>2 DEF IsFirst, After
  <2> QED
    BY <2>1, <2>2
<1> QED
  BY <1>1, <1>2 DEF Passed

\* The order behind a step.
Later(s, t) ==
  \/ seg'[s].start < seg'[t].start
  \/ seg'[s].start = seg'[t].start /\ s < t

\* Put between prev and ptr, structure n + 1 is in its place.
LEMMA Inserted ==
  ASSUME NEW n \in Nat, NEW c, c = n + 1,
         Starts(c), Listed(n), Passed(c, n),
         ptr = NIL \/ (ptr \in 1 .. n /\ seg[ptr].start > seg[c].start),
         \A s \in 1 .. c : seg'[s].start = seg[s].start,
         \A s \in 1 .. n : s # prev => seg'[s].mem_next = seg[s].mem_next,
         seg'[c].mem_next = ptr,
         prev # NIL => seg'[prev].mem_next = c,
         head' = IF prev = NIL THEN c ELSE head
  PROVE  Listed(c)'
<1>1. /\ c \in Nat /\ c \in 1 .. c /\ c # NIL /\ c \notin 1 .. n
      /\ \A u \in 1 .. n : u \in 1 .. c /\ u < c /\ u # NIL
      /\ \A u \in 1 .. c : u = c \/ u \in 1 .. n
  BY DEF NIL
<1>2. Starts(n)
  BY <1>1 DEF Starts
<1>3. \A s, t \in 1 .. n : Later(s, t) <=> Before(s, t)
  BY <1>1 DEF Before, Later
<1>4. \A u \in 1 .. n : /\ Later(u, c) <=> seg[u].start <= seg[c].start
                        /\ Later(c, u) <=> seg[c].start < seg[u].start
  BY <1>1 DEF Later, Starts
<1>5. ~ Later(c, c)
  BY <1>1 DEF Later, Starts
<1>6. prev = NIL \/ (prev \in 1 .. n /\ Later(prev, c))
  BY <1>4 DEF Passed
<1>7. ASSUME NEW u \in 1 .. n, ptr \in 1 .. n, u = ptr \/ Before(ptr, u)
      PROVE  Later(c, u) /\ ~ Later(u, c)
  <2>1. seg[ptr].start <= seg[u].start /\ seg[ptr].start > seg[c].start
    <3>1. ptr \in 1 .. n /\ ptr # NIL
      BY <1>1, <1>7
    <3>2. seg[ptr].start \in Int
      BY <1>2, <3>1 DEF Starts
    <3> QED
      BY <1>2, <1>7, <3>1, <3>2, Ordered
  <2>2. seg[ptr].start \in Int /\ seg[u].start \in Int /\ seg[c].start \in Int
    BY <1>1, <1>7 DEF Starts
  <2>3. seg[c].start < seg[u].start /\ ~ (seg[u].start <= seg[c].start)
    BY <2>1, <2>2
  <2> QED
    BY <1>4, <2>3
<1>8. ASSUME NEW u \in 1 .. n, prev \in 1 .. n, u = prev \/ Before(u, prev)
      PROVE  Later(u, c) /\ ~ Later(c, u)
  <2>1. seg[u].start <= seg[prev].start
    BY <1>2, <1>8, Ordered DEF Starts
  <2>2. seg[prev].start <= seg[c].start
    BY <1>1, <1>8 DEF Passed
  <2>3. seg[prev].start \in Int /\ seg[u].start \in Int /\ seg[c].start \in Int
    BY <1>1, <1>8 DEF Starts
  <2>4. seg[u].start <= seg[c].start /\ ~ (seg[c].start < seg[u].start)
    BY <2>1, <2>2, <2>3
  <2> QED
    BY <1>4, <2>4
<1>9. \A u \in 1 .. n :
        \/ prev \in 1 .. n /\ (u = prev \/ Before(u, prev)) /\ Later(u, c) /\ ~ Later(c, u)
        \/ ptr \in 1 .. n /\ (u = ptr \/ Before(ptr, u)) /\ Later(c, u) /\ ~ Later(u, c)
  <2>1. \A u \in 1 .. n :
          \/ prev \in 1 .. n /\ (u = prev \/ Before(u, prev))
          \/ ptr \in 1 .. n /\ (u = ptr \/ Before(ptr, u))
    BY <1>2, Sides
  <2> QED
    BY <1>7, <1>8, <2>1
<1>10. IsFirst(head, 1 .. c)'
  <2>1. CASE prev = NIL
    <3>1. head' = c /\ \A u \in 1 .. n : Later(c, u)
      BY <1>1, <1>9, <2>1
    <3>2. head' # NIL /\ head' \in 1 .. c /\ \A u \in 1 .. c : u = head' \/ Later(head', u)
      BY <1>1, <3>1
    <3> QED
      BY <3>2 DEF IsFirst, Before, Later
  <2>2. CASE prev # NIL
    <3>1. prev \in 1 .. n /\ head' = head /\ IsFirst(head, 1 .. n)
      BY <1>6, <2>2 DEF Listed
    <3>2. head \in 1 .. n /\ (prev = head \/ Before(head, prev))
      BY <3>1 DEF IsFirst
    <3>3. Later(head, c)
      BY <1>8, <3>1, <3>2
    <3>4. head # NIL /\ \A u \in 1 .. n : u = head \/ Before(head, u)
      BY <1>1, <3>1, <3>2 DEF IsFirst
    <3>5. \A u \in 1 .. n : u = head \/ Later(head, u)
      BY <1>3, <3>2, <3>4
    <3> QED
      <4>1. head \in 1 .. c /\ \A u \in 1 .. c : u = head \/ Later(head, u)
        BY <1>1, <3>2, <3>3, <3>5
      <4>2. \A u \in 1 .. c : u = head' \/ Later(head', u)
        BY <3>1, <4>1
      <4> QED
        BY <3>1, <3>4, <4>1, <4>2 DEF IsFirst, Before, Later
  <2> QED
    BY <2>1, <2>2
<1>11. IsFirst(seg[c].mem_next, After(c, c))'
  <2>1. After(c, c)' = {u \in 1 .. n : Later(c, u)}
    BY <1>1, <1>5 DEF After, Before, Later
  <2>2. ptr = NIL => After(c, c)' = {}
    BY <1>1, <1>9, <2>1
  <2>3. ptr # NIL => ptr \in After(c, c)' /\ \A u \in After(c, c)' : u = ptr \/ Before(ptr, u)
    BY <1>7, <1>9, <2>1
  <2>4. ptr # NIL => \A u \in After(c, c)' : u = ptr \/ Later(ptr, u)
    BY <1>3, <2>1, <2>3
  <2> QED
    BY <2>2, <2>3, <2>4 DEF IsFirst, Before, Later
<1>12. ASSUME NEW s \in 1 .. n PROVE IsFirst(seg[s].mem_next, After(s, c))'
  <2>1. After(s, c)' = After(s, n) \cup {u \in {c} : Later(s, c)}
    BY <1>1, <1>3, <1>12 DEF After, Before, Later
  <2>2. After(s, n) \subseteq 1 .. n
    BY DEF After
  <2>3. CASE s = prev
    <3>1. seg'[s].mem_next = c /\ After(s, c)' = After(s, n) \cup {c}
      BY <1>1, <1>6, <1>12, <2>1, <2>3
    <3>2. \A u \in After(s, n) : ~ (u = prev \/ Before(u, prev))
      BY <1>2, <1>12, <2>2, <2>3, Ordered DEF After
    <3>3. \A u \in After(s, n) : Later(c, u)
      BY <1>9, <2>2, <3>2
    <3> QED
      BY <1>1, <3>1, <3>3 DEF IsFirst, Before, Later
  <2>4. CASE s # prev
    <3> DEFINE t == seg[s].mem_next
    <3>1. seg'[s].mem_next = t /\ IsFirst(t, After(s, n))
      BY <1>12, <2>4 DEF Listed
    <3>2. CASE ~ Later(s, c)
      <4>1. After(s, c)' = After(s, n)
        BY <2>1, <3>2
      <4>2. t # NIL => t \in After(s, n) /\ \A u \in After(s, n) : u = t \/ Later(t, u)
        BY <1>3, <2>2, <3>1 DEF IsFirst
      <4>3. t = NIL => After(s, n) = {}
        BY <3>1 DEF IsFirst
      <4> HIDE DEF t
      <4> QED
        BY <3>1, <4>1, <4>2, <4>3 DEF IsFirst, Before, Later
    <3>3. CASE Later(s, c)
      <4>1. After(s, c)' = After(s, n) \cup {c}
        BY <2>1, <3>3
      <4>2. prev \in 1 .. n /\ Before(s, prev)
        BY <1>9, <2>4, <3>3
      <4>3. prev \in After(s, n)
        BY <4>2 DEF After
      <4>4. t # NIL /\ t \in After(s, n) /\ (prev = t \/ Before(t, prev))
        BY <3>1, <4>3 DEF IsFirst
      <4>5. \A u \in After(s, n) : u = t \/ Before(t, u)
        BY <3>1, <4>4 DEF IsFirst
      <4> HIDE DEF t
      <4>6. Later(t, c)
        BY <1>8, <2>2, <4>2, <4>4
      <4>7. \A u \in After(s, n) : u = t \/ Later(t, u)
        BY <1>3, <2>2, <4>4, <4>5
      <4>8. \A u \in After(s, c)' : u = t \/ Later(t, u)
        BY <4>1, <4>6, <4>7
      <4> QED
        BY <3>1, <4>1, <4>4, <4>8 DEF IsFirst, Before, Later
    <3> QED
      BY <3>2, <3>3
  <2> QED
    BY <2>3, <2>4
<1> QED
  <2>1. \A s \in 1 .. c : IsFirst(seg[s].mem_next, After(s, c))'
    BY <1>1, <1>11, <1>12
  <2> QED
    BY <1>10, <2>1 DEF Listed

-----------------------------------------------------------------------------
(* The types.                                                              *)

\* What the type invariant says of the list: how many structures, of which types.
LEMMA TypeFacts ==
  ASSUME TypeOK
  PROVE  /\ N \in Nat /\ N <= count /\ count \in Nat /\ MaxDirectives \in Nat
         /\ 1 .. count \subseteq Seg /\ 1 .. N \subseteq 1 .. count
         /\ \A s \in Seg : /\ seg[s] \in Struct
                           /\ seg[s].start \in Word /\ seg[s].length \in Word /\ seg[s].type \in Type
                           /\ seg[s].start \in Nat /\ seg[s].length \in Nat
                           /\ seg[s].mem_next \in 0 .. MaxDirectives
         /\ Starts(count) /\ Starts(N)
<1>1. MaxDirectives \in Nat /\ count \in 0 .. MaxDirectives
  BY ArchAssumption DEF TypeOK
<1>2. N \in Nat /\ N <= count /\ count \in Nat
  BY <1>1 DEF TypeOK, N
<1>3. \A s \in Seg : /\ seg[s] \in Struct
                     /\ seg[s].start \in Word /\ seg[s].length \in Word /\ seg[s].type \in Type
                     /\ seg[s].start \in Nat /\ seg[s].length \in Nat
                     /\ seg[s].mem_next \in 0 .. MaxDirectives
  <2>1. Word \subseteq Nat
    BY ArchAssumption DEF Word
  <2> QED
    BY <2>1 DEF TypeOK, Struct
<1>4. 1 .. count \subseteq Seg /\ 1 .. N \subseteq 1 .. count
  BY <1>1, <1>2 DEF Seg
<1>5. Starts(count) /\ Starts(N)
  BY <1>3, <1>4 DEF Starts
<1> QED
  BY <1>1, <1>2, <1>3, <1>4, <1>5

\* What is computed in an unsigned long is one.
LEMMA InWord == ASSUME NEW x \in Int PROVE x % LongRange \in Word
<1>1. LongRange \in Nat \ {0}
  BY ArchAssumption
<1>2. x % LongRange \in 0 .. (LongRange - 1)
  BY <1>1
<1> QED
  BY <1>2 DEF Word

\* A MEMORY structure that is not in use yet is of the type of all.
LEMMA NoSegmentType == NoSegment \in Struct
<1>1. (CHOOSE n \in Name : TRUE) \in Name
  BY ArchAssumption
<1> QED
  BY <1>1, ArchAssumption DEF NoSegment, Struct, Word, Type, NIL

\* The types are right before the first directive.
LEMMA InitTypeOK == Init => TypeOK
<1> SUFFICES ASSUME Init PROVE TypeOK
  OBVIOUS
<1>1. seg \in [Seg -> Struct] /\ member \in Struct
  BY NoSegmentType DEF Init
<1>2. MaxDirectives \in Nat
  BY ArchAssumption
<1>3. is_z \in BOOLEAN /\ swapping \in BOOLEAN
  BY Zenon DEF Init
<1> QED
  BY <1>1, <1>2, <1>3 DEF Init, TypeOK, Type, NIL

\* And every directive, walk and comparison keeps them.
LEMMA NextTypeOK == TypeOK /\ [Next]_vars => TypeOK'
<1> SUFFICES ASSUME TypeOK, [Next]_vars PROVE TypeOK'
  OBVIOUS
<1> USE DEF list, known
<1>1. CASE Segment
  <2>1. PICK n \in Name, r \in Range, t \in Type :
          \/ pc' = "exit" /\ UNCHANGED member
          \/ /\ pc' = "duplicate"
             /\ member' = [name |-> n, start |-> r[1], length |-> (r[2] - r[1] + 1) % LongRange,
                           type |-> t, mem_next |-> NIL]
    BY <1>1 DEF Segment
  <2>2. r[1] \in Word /\ r[2] - r[1] + 1 \in Int
    BY ArchAssumption DEF Word
  <2>3. (r[2] - r[1] + 1) % LongRange \in Word
    BY <2>2, InWord
  <2>4. member' \in Struct
    BY <2>1, <2>2, <2>3, TypeFacts DEF TypeOK, Struct, NIL
  <2> QED
    BY <1>1, <2>1, <2>4 DEF Segment, TypeOK
<1>2. CASE Overlay
  <2>1. \A n \in Name : [NoSegment EXCEPT !.name = n] \in Struct
    BY NoSegmentType DEF Struct
  <2> QED
    BY <1>2, <2>1 DEF Overlay, TypeOK
<1>3. ASSUME NEW m \in Struct, StartInsert(m), count < MaxDirectives,
             UNCHANGED <<is_z, member, swapping, space, warnings>>
      PROVE  TypeOK'
  <2>1. count + 1 \in Seg /\ count + 1 \in 0 .. MaxDirectives /\ count + 1 # 0
    BY <1>3, TypeFacts DEF Seg
  <2>2. seg' \in [Seg -> Struct]
    BY <1>3 DEF StartInsert, TypeOK
  <2> QED
    BY <1>3, <2>1, <2>2, TypeFacts DEF StartInsert, TypeOK, NIL
<1>4. CASE NewName
  <2>1. count < MaxDirectives
    BY <1>4 DEF NewName, TypeOK
  <2> QED
    BY <1>3, <1>4, <2>1 DEF NewName, TypeOK
<1>5. CASE SwapFound
  <2>1. PICK label \in Name : StartInsert([seg[ptr] EXCEPT !.name = label])
    BY <1>5 DEF SwapFound, TypeOK
  <2>2. ptr \in Seg /\ seg[ptr] \in Struct
    BY <1>5, TypeFacts DEF SwapFound, TypeOK, Seg, NIL
  <2>3. [seg[ptr] EXCEPT !.name = label] \in Struct
    BY <2>2 DEF Struct
  <2>4. count < MaxDirectives
    BY <1>5 DEF SwapFound, TypeOK
  <2> HIDE DEF Struct
  <2> QED
    BY <1>3, <1>5, <2>1, <2>3, <2>4 DEF SwapFound
<1>6. ASSUME pc = "insert" PROVE count \in Seg /\ count \in 0 .. MaxDirectives /\ count # 0
  BY <1>6 DEF TypeOK, Seg
<1>7. ASSUME NEW s \in Seg, NEW l \in 0 .. MaxDirectives
      PROVE  [seg EXCEPT ![s].mem_next = l] \in [Seg -> Struct]
  BY <1>7 DEF TypeOK, Struct
<1>8. CASE InsertFirst
  <2>1. seg' \in [Seg -> Struct]
    BY <1>6, <1>7, <1>8, TypeFacts DEF InsertFirst, NIL
  <2> QED
    BY <1>6, <1>8, <2>1 DEF InsertFirst, TypeOK
<1>9. CASE InsertBefore
  <2>1. prev # NIL => prev \in Seg
    BY DEF TypeOK, Seg, NIL
  <2>2. seg' \in [Seg -> Struct]
    <3>1. CASE prev = NIL
      BY <1>6, <1>7, <1>9, <3>1 DEF InsertBefore, TypeOK
    <3>2. CASE prev # NIL
      BY <1>6, <1>9, <2>1, <3>2 DEF InsertBefore, TypeOK, Struct
    <3> QED
      BY <3>1, <3>2
  <2> QED
    BY <1>6, <1>9, <2>2 DEF InsertBefore, TypeOK
<1>10. CASE InsertFurther
  <2>1. ptr \in Seg
    BY <1>10 DEF InsertFurther, TypeOK, Seg, NIL
  <2> QED
    BY <1>10, <2>1, TypeFacts DEF InsertFurther, TypeOK
<1>11. CASE InsertLast
  <2>1. seg' \in [Seg -> Struct]
    <3>1. CASE prev \in Seg
      BY <1>6, <1>7, <1>11, <3>1 DEF InsertLast
    <3>2. CASE prev \notin Seg
      BY <1>11, <3>2 DEF InsertLast, TypeOK
    <3> QED
      BY <3>1, <3>2
  <2> QED
    BY <1>6, <1>11, <2>1 DEF InsertLast, TypeOK
<1>12. CASE DefineSection
  <2>1. is_z' \in BOOLEAN /\ swapping' \in BOOLEAN
    BY <1>12, Zenon DEF DefineSection, TypeOK
  <2>2. /\ pc' = "directive" /\ member' = NoSegment /\ ptr' = NIL /\ prev' = NIL
        /\ UNCHANGED <<count, seg, head, space, warnings>>
    BY <1>12 DEF DefineSection
  <2>3. 0 \in 0 .. MaxDirectives
    BY TypeFacts
  <2>4. member' \in Struct /\ ptr' \in 0 .. MaxDirectives /\ prev' \in 0 .. MaxDirectives
    BY <2>2, <2>3, NoSegmentType DEF NIL
  <2>5. pc' \notin {"insert", "define", "duplicate", "swap", "check", "peer"}
    BY <2>2
  <2> QED
    BY <2>1, <2>2, <2>4, <2>5, Zenon DEF TypeOK
<1>13. ASSUME NEW s \in {ptr, prev}, s # NIL PROVE seg[s].mem_next \in 0 .. MaxDirectives
  <2>1. s \in Seg
    BY <1>13 DEF TypeOK, Seg, NIL
  <2> QED
    BY <2>1, TypeFacts
<1>14. CASE DuplicateName \/ SwapMissing
  BY <1>14 DEF DuplicateName, SwapMissing, TypeOK
<1>15. CASE OtherName \/ SwapOther
  BY <1>13, <1>15 DEF OtherName, SwapOther, TypeOK
<1>16. CASE MemoryCheck
  BY <1>16 DEF MemoryCheck, TypeOK, Type
<1>17. ASSUME NEW m, NEW n, NEW e, Compare(m, n, e) PROVE warnings' \in Nat
  BY <1>17 DEF Compare, TypeOK
<1>18. CASE CheckZ
  BY <1>13, <1>17, <1>18 DEF CheckZ, TypeOK, NIL
<1>19. CASE CheckSkip \/ CheckSpace
  BY <1>13, <1>19 DEF CheckSkip, CheckSpace, TypeOK, NIL
<1>20. CASE PeerSkip
  BY <1>13, <1>20 DEF PeerSkip, TypeOK
<1>21. CASE PeerCompare
  BY <1>13, <1>17, <1>21 DEF PeerCompare, TypeOK, NIL
<1>22. CASE EndOfSpace
  BY <1>22 DEF EndOfSpace, TypeOK, Type
<1>23. CASE UNCHANGED vars
  BY <1>23 DEF vars, TypeOK
<1> QED
  BY <1>1, <1>2, <1>4, <1>5, <1>8, <1>9, <1>10, <1>11, <1>12, <1>14, <1>15, <1>16, <1>18,
     <1>19, <1>20, <1>21, <1>22, <1>23 DEF Next

-----------------------------------------------------------------------------
(* The inductive invariant.                                                *)

\* Where a walk over the list may be, and what it knows: list_add of the place
\* and of the link that the new structure brings along.
Walk ==
  /\ pc = "duplicate" => member.mem_next = NIL
  /\ pc \in {"duplicate", "swap", "insert", "check", "peer"} => ptr \in 0 .. N
  /\ pc = "peer" => prev \in 0 .. N
  /\ pc = "insert" =>
       /\ Passed(count, N)
       /\ \/ seg[count].mem_next = NIL
          \/ \E m \in 1 .. N : /\ seg[m].start = seg[count].start
                               /\ seg[m].mem_next = seg[count].mem_next

\* The links go round in a set of structures, and every walk with them.
Round(R) ==
  /\ head \in R /\ \A s \in R : seg[s].mem_next \in R
  /\ pc \in {"duplicate", "swap", "insert", "check", "peer"} => ptr \in R
  /\ pc = "insert" => prev \in R \cup {NIL}
  /\ pc = "peer" => prev \in R

Ring == pc # "done" /\ CrowdedTop(N) /\ \E R \in SUBSET (1 .. N) : Round(R)

\* memory_check, once it has passed s, has warned of an overlap with a later
\* structure: of the same type, or the next one, if that is no overlay.
Warned(s) ==
  \A t \in 1 .. count :
    /\ Before(s, t) /\ EndOf(s) > seg[t].start
    /\ IF is_z THEN t = seg[s].mem_next /\ ~ IsOverlay(t) ELSE seg[t].type = seg[s].type
    => warnings > 0

\* The structures that memory_check has passed.
Seen(s) ==
  IF is_z THEN Before(s, ptr)
  ELSE \/ seg[s].type = space /\ Before(s, ptr)
       \/ seg[s].type = "PM" /\ space = "DM"

Checks ==
  /\ pc \in {"check", "peer"} => \A s \in 1 .. count : Seen(s) => Warned(s)
  /\ pc = "done" => \A s \in 1 .. count : Warned(s)
  /\ pc = "peer" =>
       /\ ~ is_z /\ seg[ptr].type = space
       /\ prev # NIL => Before(ptr, prev)
       /\ \A t \in 1 .. count :
            Before(ptr, t) /\ (prev = NIL \/ Before(t, prev)) => seg[t].type # space

\* An overlay is a copy of a structure that was made before it.
Copied(s) == \E r \in 1 .. (s - 1) : seg[r].start = seg[s].start /\ seg[r].length = seg[s].length

Copies ==
  /\ \A k \in overlay_base : \E s \in 1 .. N : Key[seg[s].name] = k /\ Copied(s)
  /\ pc \in {"insert", "define"} /\ swapping => Copied(count)
  /\ pc = "duplicate" => ~ swapping

Straight == Listed(N) /\ Walk /\ Checks

IInv == TypeOK /\ Copies /\ (Straight \/ Ring)

\* The links of a list.
LEMMA Links ==
  ASSUME NEW n \in Nat, Listed(n)
  PROVE  /\ head \in 0 .. n /\ (head = NIL <=> n = 0)
         /\ \A s \in 1 .. n : head = s \/ Before(head, s)
         /\ \A s \in 1 .. n :
              LET t == seg[s].mem_next IN
              /\ t \in 0 .. n
              /\ t = NIL => \A u \in 1 .. n : ~ Before(s, u)
              /\ t # NIL => /\ t \in 1 .. n /\ Before(s, t)
                            /\ \A u \in 1 .. n : Before(s, u) => u = t \/ Before(t, u)
<1>1. head \in 0 .. n /\ (head = NIL <=> n = 0)
  BY DEF Listed, IsFirst, NIL
<1>2. \A s \in 1 .. n : head = s \/ Before(head, s)
  BY DEF Listed, IsFirst, NIL
<1>3. ASSUME NEW s \in 1 .. n, NEW t, t = seg[s].mem_next
      PROVE  /\ t \in 0 .. n
             /\ t = NIL => \A u \in 1 .. n : ~ Before(s, u)
             /\ t # NIL => /\ t \in 1 .. n /\ Before(s, t)
                           /\ \A u \in 1 .. n : Before(s, u) => u = t \/ Before(t, u)
  <2>1. IsFirst(t, After(s, n))
    BY <1>3 DEF Listed
  <2> QED
    BY <2>1 DEF IsFirst, After, NIL
<1> QED
  BY <1>1, <1>2, <1>3

\* Three structures at the highest address stay so while no structure changes.
LEMMA SameTop ==
  ASSUME NEW n \in Nat, CrowdedTop(n), \A s \in 1 .. n : seg'[s] = seg[s]
  PROVE  CrowdedTop(n)'
BY DEF CrowdedTop

\* What the actions do that leave the list as it is.
Quiet ==
  \/ Segment \/ DuplicateName \/ OtherName
  \/ Overlay \/ SwapOther \/ SwapMissing
  \/ InsertFurther \/ DefineSection \/ MemoryCheck
  \/ CheckZ \/ CheckSkip \/ CheckSpace \/ PeerSkip \/ PeerCompare \/ EndOfSpace

\* They change neither the structures nor what is on the list.
LEMMA QuietStep ==
  ASSUME TypeOK, Quiet
  PROVE  UNCHANGED <<count, seg, head, is_z>> /\ N' = N /\ (pc = "insert" <=> pc' = "insert")
<1> USE DEF list
<1>1. CASE Segment \/ DuplicateName \/ OtherName
  BY <1>1 DEF Segment, DuplicateName, OtherName, N
<1>2. CASE Overlay \/ SwapOther \/ SwapMissing
  BY <1>2 DEF Overlay, SwapOther, SwapMissing, N
<1>3. CASE InsertFurther \/ DefineSection \/ MemoryCheck
  BY <1>3 DEF InsertFurther, DefineSection, MemoryCheck, N
<1>4. CASE CheckZ \/ CheckSkip \/ CheckSpace
  BY <1>4 DEF CheckZ, CheckSkip, CheckSpace, N
<1>5. CASE PeerSkip \/ PeerCompare \/ EndOfSpace
  BY <1>5 DEF PeerSkip, PeerCompare, EndOfSpace, N
<1> QED
  BY <1>1, <1>2, <1>3, <1>4, <1>5 DEF Quiet

\* A new structure is behind those on the list, and not yet among them.
LEMMA StartStep ==
  ASSUME TypeOK, NEW m, StartInsert(m), count < MaxDirectives, pc \in {"duplicate", "swap"}
  PROVE  /\ N = count /\ N' = N /\ head' = head /\ count' = N + 1
         /\ seg'[N + 1] = m /\ \A s \in 1 .. N : seg'[s] = seg[s]
<1>1. N = count /\ N' = N /\ count \in Nat
  BY TypeFacts DEF StartInsert, N
<1>2. count + 1 \in Seg
  BY <1>1, TypeFacts DEF Seg
<1> QED
  BY <1>1, <1>2 DEF StartInsert, TypeOK

\* What list_add does when it has found the place.
LEMMA InsertStep ==
  ASSUME TypeOK, InsertFirst \/ InsertBefore \/ InsertLast
  PROVE  /\ N \in Nat /\ count = N + 1 /\ N' = count /\ count' = count /\ pc' = "define"
         /\ UNCHANGED <<is_z, swapping, overlay_base>>
         /\ \A s \in Seg : /\ seg'[s].start = seg[s].start /\ seg'[s].length = seg[s].length
                           /\ seg'[s].name = seg[s].name /\ seg'[s].type = seg[s].type
<1> USE DEF list, known
<1>1. pc = "insert" /\ pc' = "define" /\ count' = count /\ UNCHANGED <<is_z, swapping, overlay_base>>
  BY DEF InsertFirst, InsertBefore, InsertLast
<1>2. N \in Nat /\ count = N + 1 /\ N' = count
  BY <1>1, TypeFacts DEF N
<1>3. ASSUME NEW s \in Seg
      PROVE  /\ seg'[s].start = seg[s].start /\ seg'[s].length = seg[s].length
             /\ seg'[s].name = seg[s].name /\ seg'[s].type = seg[s].type
  <2>1. DOMAIN seg = Seg /\ seg[s] \in Struct
    BY TypeFacts DEF TypeOK
  <2>2. DOMAIN seg[s] = {"name", "start", "length", "type", "mem_next"}
    BY <2>1 DEF Struct
  <2>3. CASE InsertFirst
    BY <2>1, <2>2, <2>3 DEF InsertFirst
  <2>4. CASE InsertBefore
    BY <2>1, <2>2, <2>4 DEF InsertBefore
  <2>5. CASE InsertLast
    BY <2>1, <2>2, <2>5 DEF InsertLast
  <2> QED
    BY <2>3, <2>4, <2>5
<1> QED
  BY <1>1, <1>2, <1>3

-----------------------------------------------------------------------------
(* A ring stays one.                                                       *)

\* Whatever directive or check follows, the ring is one after it.
LEMMA RingNext == ASSUME TypeOK, Ring, Next PROVE Ring'
<1> USE DEF list
<1>1. PICK R \in SUBSET (1 .. N) : Round(R)
  BY DEF Ring
<1>2. N \in Nat /\ NIL \notin R
  BY TypeFacts DEF NIL
<1>3. \A s \in R : seg[s].mem_next # NIL /\ seg[s].mem_next \in R
  BY <1>1, <1>2 DEF Round
<1>4. /\ pc \in {"duplicate", "swap", "insert", "check", "peer"} => ptr \in R /\ ptr # NIL
      /\ pc = "peer" => prev \in R /\ prev # NIL
      /\ head \in R /\ head # NIL
  BY <1>1, <1>2 DEF Round
<1>5. ASSUME N' = N, head' = head, \A s \in 1 .. N : seg'[s] = seg[s], pc' # "done",
             pc' \in {"duplicate", "swap", "insert", "check", "peer"} => ptr' \in R,
             pc' = "insert" => prev' \in R \cup {NIL},
             pc' = "peer" => prev' \in R
      PROVE  Ring'
  <2>1. CrowdedTop(N)'
    BY <1>2, <1>5 DEF Ring, CrowdedTop
  <2>2. \A s \in R : seg'[s] = seg[s]
    BY <1>5
  <2>3. Round(R)'
    BY <1>3, <1>4, <1>5, <2>2 DEF Round
  <2> QED
    BY <1>5, <2>1, <2>3 DEF Ring
<1>6. CASE Quiet
  <2>1. UNCHANGED <<count, seg, head, is_z>> /\ N' = N
    BY <1>6, QuietStep
  <2>2. pc' # "done"
    BY <1>3, <1>4, <1>6
       DEF Quiet, Segment, DuplicateName, OtherName, Overlay, SwapOther, SwapMissing, InsertFurther,
           DefineSection, MemoryCheck, CheckZ, CheckSkip, CheckSpace, PeerSkip, PeerCompare,
           EndOfSpace, Ring
  <2>3. pc' \in {"duplicate", "swap", "insert", "check", "peer"} => ptr' \in R
    <3>1. CASE Segment \/ DuplicateName \/ OtherName
      BY <1>3, <1>4, <3>1 DEF Segment, DuplicateName, OtherName
    <3>2. CASE Overlay \/ SwapOther \/ SwapMissing
      BY <1>3, <1>4, <3>2 DEF Overlay, SwapOther, SwapMissing
    <3>3. CASE InsertFurther \/ DefineSection \/ MemoryCheck
      BY <1>3, <1>4, <3>3 DEF InsertFurther, DefineSection, MemoryCheck
    <3>4. CASE CheckZ \/ CheckSkip \/ CheckSpace
      BY <1>3, <1>4, <3>4 DEF CheckZ, CheckSkip, CheckSpace
    <3>5. CASE PeerSkip \/ PeerCompare \/ EndOfSpace
      BY <1>3, <1>4, <3>5 DEF PeerSkip, PeerCompare, EndOfSpace
    <3> QED
      BY <1>6, <3>1, <3>2, <3>3, <3>4, <3>5 DEF Quiet
  <2>4. pc' = "insert" => prev' \in R
    BY <1>4, <1>6
       DEF Quiet, Segment, DuplicateName, OtherName, Overlay, SwapOther, SwapMissing, InsertFurther,
           DefineSection, MemoryCheck, CheckZ, CheckSkip, CheckSpace, PeerSkip, PeerCompare,
           EndOfSpace
  <2>5. pc' = "peer" => prev' \in R
    BY <1>3, <1>4, <1>6
       DEF Quiet, Segment, DuplicateName, OtherName, Overlay, SwapOther, SwapMissing, InsertFurther,
           DefineSection, MemoryCheck, CheckZ, CheckSkip, CheckSpace, PeerSkip, PeerCompare,
           EndOfSpace
  <2> QED
    BY <1>5, <2>1, <2>2, <2>3, <2>4, <2>5
<1>7. CASE SwapFound
  <2>1. PICK label \in Name : StartInsert([seg[ptr] EXCEPT !.name = label])
    BY <1>7 DEF SwapFound
  <2>2. pc = "swap" /\ pc' = "insert" /\ ptr' = head /\ prev' = NIL /\ count < MaxDirectives
    BY <1>7, <2>1 DEF SwapFound, StartInsert, TypeOK
  <2>3. N' = N /\ head' = head /\ \A s \in 1 .. N : seg'[s] = seg[s]
    BY <2>1, <2>2, StartStep
  <2> QED
    BY <1>4, <1>5, <2>2, <2>3
<1>8. CASE InsertBefore
  <2>0. PICK c \in Nat : c = count /\ c = N + 1
    BY <1>2, <1>8, InsertStep
  <2> DEFINE Q == R \cup {c}
  <2>1. /\ c = N + 1 /\ N' = c /\ pc' = "define" /\ c \in Seg /\ c \notin R /\ Q \in SUBSET (1 .. N')
        /\ \A s \in Seg : seg'[s].start = seg[s].start
    <3>1. N' = c /\ pc' = "define" /\ \A s \in Seg : seg'[s].start = seg[s].start
      BY <1>8, <2>0, InsertStep
    <3>2. c \in 1 .. count /\ c \in Seg
      BY <1>2, <2>0, TypeFacts
    <3>3. c \notin 1 .. N /\ 1 .. N \subseteq 1 .. c /\ c \in 1 .. c
      BY <1>2, <2>0
    <3> QED
      BY <2>0, <3>1, <3>2, <3>3
  <2>2. /\ pc = "insert" /\ ptr \in R /\ seg[ptr].start > seg[c].start
        /\ prev \in R \cup {NIL} /\ R \subseteq Seg /\ DOMAIN seg = Seg
        /\ \A s \in Seg : DOMAIN seg[s] = {"name", "start", "length", "type", "mem_next"}
    BY <1>1, <1>4, <1>8, <2>0, TypeFacts DEF InsertBefore, Round, TypeOK, Struct
  <2>3. /\ seg'[c].mem_next = ptr
        /\ prev # NIL => seg'[prev].mem_next = c /\ head' = head
        /\ prev = NIL => head' = c
        /\ \A s \in R : s # prev => seg'[s].mem_next = seg[s].mem_next
    <3>1. CASE prev = NIL
      BY <1>2, <1>8, <2>0, <2>1, <2>2, <3>1 DEF InsertBefore
    <3>2. CASE prev # NIL
      BY <1>2, <1>8, <2>0, <2>1, <2>2, <3>2 DEF InsertBefore
    <3> QED
      BY <3>1, <3>2
  <2>4. head' \in Q
    BY <1>4, <2>2, <2>3
  <2>5. \A s \in Q : seg'[s].mem_next \in Q
    <3>1. seg'[c].mem_next \in Q
      BY <2>2, <2>3
    <3>2. ASSUME NEW s \in R PROVE seg'[s].mem_next \in Q
      <4>1. s # NIL
        BY <1>2
      <4>2. CASE s = prev
        BY <2>3, <4>1, <4>2
      <4>3. CASE s # prev
        BY <1>3, <2>3, <4>3
      <4> QED
        BY <4>2, <4>3
    <3> QED
      BY <3>1, <3>2
  <2> HIDE DEF Q
  <2>6. Round(Q)'
    BY <2>1, <2>4, <2>5 DEF Round
  <2>7. CrowdedTop(N)'
    <3>1. PICK s, t, u \in 1 .. N :
            /\ s < t /\ t < u /\ seg[s].start = seg[t].start /\ seg[t].start = seg[u].start
            /\ \A x \in 1 .. N : seg[x].start <= seg[s].start
      BY DEF Ring, CrowdedTop
    <3>2. seg[c].start <= seg[s].start
      <4>1. seg[ptr].start <= seg[s].start /\ ptr \in Seg /\ s \in Seg
        BY <2>2, <3>1, TypeFacts
      <4>2. seg[ptr].start \in Int /\ seg[s].start \in Int /\ seg[c].start \in Int
        BY <2>1, <4>1, TypeFacts
      <4> QED
        BY <2>2, <4>1, <4>2
    <3>3. \A x \in 1 .. N' : seg'[x].start <= seg'[s].start
      <4>1. 1 .. N' \subseteq Seg /\ \A x \in 1 .. N' : x = c \/ x \in 1 .. N
        BY <1>2, <2>1, TypeFacts
      <4>2. \A x \in 1 .. N' : seg[x].start <= seg[s].start
        BY <3>1, <3>2, <4>1
      <4>3. s \in Seg
        BY <3>1, TypeFacts
      <4> QED
        BY <2>1, <4>1, <4>2, <4>3
    <3>4. s \in 1 .. N' /\ t \in 1 .. N' /\ u \in 1 .. N' /\ s \in Seg /\ t \in Seg /\ u \in Seg
      BY <1>2, <2>1, <3>1, TypeFacts
    <3>5. seg'[s].start = seg'[t].start /\ seg'[t].start = seg'[u].start
      BY <2>1, <3>1, <3>4
    <3> QED
      BY <3>1, <3>3, <3>4, <3>5 DEF CrowdedTop
  <2> QED
    BY <2>1, <2>6, <2>7 DEF Ring
<1>9. CASE NewName \/ InsertFirst \/ InsertLast
  BY <1>4, <1>9 DEF NewName, InsertFirst, InsertLast
<1> QED
  BY <1>6, <1>7, <1>8, <1>9 DEF Next, Quiet

-----------------------------------------------------------------------------
(* Overlays stay copies.                                                   *)

\* Every key in overlay_base is that of a copy of another segment (add_swap), and
\* no step changes that.
LEMMA CopiesNext ==
  ASSUME TypeOK, Copies, Straight \/ Ring, Next PROVE Copies'
<1> USE DEF list, known
<1>1. N \in Nat /\ N <= count /\ count \in Nat /\ 1 .. N \subseteq 1 .. count /\ 1 .. count \subseteq Seg
  BY TypeFacts
<1>2. ASSUME NEW n \in Nat, NEW s \in 1 .. n, Copied(s),
             \A r \in 1 .. n : seg'[r].start = seg[r].start /\ seg'[r].length = seg[r].length
      PROVE  Copied(s)'
  BY <1>2 DEF Copied
<1>3. ASSUME N' \in Nat, N <= N', overlay_base' = overlay_base,
             \A r \in 1 .. N : /\ seg'[r].start = seg[r].start /\ seg'[r].length = seg[r].length
                               /\ seg'[r].name = seg[r].name
      PROVE  \A k \in overlay_base' : \E s \in 1 .. N' : Key[seg'[s].name] = k /\ Copied(s)'
  <2> SUFFICES ASSUME NEW k \in overlay_base
               PROVE  \E s \in 1 .. N' : Key[seg'[s].name] = k /\ Copied(s)'
    BY <1>3
  <2>1. PICK s \in 1 .. N : Key[seg[s].name] = k /\ Copied(s)
    BY DEF Copies
  <2>2. Copied(s)'
    BY <1>1, <1>2, <1>3, <2>1
  <2>3. s \in 1 .. N' /\ seg'[s].name = seg[s].name
    BY <1>1, <1>3
  <2> QED
    BY <2>1, <2>2, <2>3
<1>4. CASE Quiet /\ ~ DefineSection
  <2>1. UNCHANGED <<count, seg>> /\ N' = N /\ (pc = "insert" <=> pc' = "insert")
    BY <1>4, QuietStep
  <2>2. overlay_base' = overlay_base
    BY <1>4 DEF Quiet, Segment, DuplicateName, OtherName, Overlay, SwapOther, SwapMissing,
         InsertFurther, MemoryCheck, CheckZ, CheckSkip, CheckSpace, PeerSkip, PeerCompare,
         EndOfSpace
  <2>3. \A k \in overlay_base' : \E s \in 1 .. N' : Key[seg'[s].name] = k /\ Copied(s)'
    BY <1>1, <1>3, <2>1, <2>2
  <2>4. pc' # "define"
    BY <1>4 DEF Quiet, Segment, DuplicateName, OtherName, Overlay, SwapOther, SwapMissing,
         InsertFurther, MemoryCheck, CheckZ, CheckSkip, CheckSpace, PeerSkip, PeerCompare,
         EndOfSpace
  <2>5. pc' = "insert" => swapping' = swapping
    BY <1>4 DEF Quiet, Segment, DuplicateName, OtherName, Overlay, SwapOther, SwapMissing,
         InsertFurther, MemoryCheck, CheckZ, CheckSkip, CheckSpace, PeerSkip, PeerCompare,
         EndOfSpace
  <2>6. pc' = "insert" /\ swapping' => Copied(count)'
    <3> SUFFICES ASSUME pc' = "insert", swapping' PROVE Copied(count)'
      OBVIOUS
    <3>1. Copied(count)
      BY <2>1, <2>5 DEF Copies
    <3> QED
      BY <2>1, <3>1 DEF Copied
  <2>7. pc' = "duplicate" => ~ swapping'
    <3>1. CASE Segment
      BY <3>1 DEF Segment
    <3>2. CASE OtherName
      BY <3>2 DEF OtherName, Copies
    <3> QED
      BY <1>4, <3>1, <3>2 DEF Quiet, DuplicateName, Overlay, SwapOther, SwapMissing,
         InsertFurther, MemoryCheck, CheckZ, CheckSkip, CheckSpace, PeerSkip, PeerCompare,
         EndOfSpace
  <2> QED
    BY <2>3, <2>4, <2>6, <2>7 DEF Copies
<1>5. CASE DefineSection
  <2>1. UNCHANGED <<count, seg>> /\ N' = N /\ pc = "define" /\ pc' = "directive" /\ N = count
    BY <1>5, QuietStep DEF DefineSection, N, Quiet
  <2>2. \A s \in 1 .. N : Copied(s) => Copied(s)'
    BY <1>1, <1>2, <2>1
  <2>3. overlay_base' = IF swapping THEN overlay_base \cup {Key[seg[count].name]} ELSE overlay_base
    BY <1>5 DEF DefineSection
  <2>4. count \in 1 .. N
    BY <1>1, <2>1 DEF TypeOK
  <2>5. swapping => Copied(count)
    BY <2>1 DEF Copies
  <2>6. \A k \in overlay_base' : \E s \in 1 .. N' : Key[seg'[s].name] = k /\ Copied(s)'
    <3> SUFFICES ASSUME NEW k \in overlay_base'
                 PROVE  \E s \in 1 .. N : Key[seg[s].name] = k /\ Copied(s)
      BY <2>1, <2>2
    <3>1. CASE k \in overlay_base
      BY <3>1 DEF Copies
    <3>2. CASE k \notin overlay_base
      BY <2>3, <2>4, <2>5, <3>2
    <3> QED
      BY <3>1, <3>2
  <2> QED
    BY <2>1, <2>6 DEF Copies
<1>6. ASSUME NEW m, StartInsert(m), pc \in {"duplicate", "swap"}, overlay_base' = overlay_base,
             swapping' => \E r \in 1 .. N : seg[r].start = m.start /\ seg[r].length = m.length
      PROVE  Copies'
  <2>1. /\ N' = N /\ count' = N + 1 /\ seg'[N + 1] = m /\ \A s \in 1 .. N : seg'[s] = seg[s]
        /\ pc' = "insert"
    BY <1>6, StartStep DEF StartInsert, TypeOK
  <2>2. \A k \in overlay_base' : \E s \in 1 .. N' : Key[seg'[s].name] = k /\ Copied(s)'
    BY <1>1, <1>3, <1>6, <2>1
  <2>3. swapping' => Copied(count)'
    <3> SUFFICES ASSUME swapping' PROVE Copied(count)'
      OBVIOUS
    <3>1. PICK r \in 1 .. N : seg[r].start = m.start /\ seg[r].length = m.length
      BY <1>6
    <3>2. r \in 1 .. (count' - 1) /\ seg'[r] = seg[r] /\ seg'[count'] = m
      BY <1>1, <2>1
    <3> QED
      BY <3>1, <3>2 DEF Copied
  <2> QED
    BY <2>1, <2>2, <2>3 DEF Copies
<1>7. CASE NewName
  BY <1>6, <1>7 DEF NewName, Copies
<1>8. CASE SwapFound
  <2>1. PICK label \in Name : StartInsert([seg[ptr] EXCEPT !.name = label])
    BY <1>8 DEF SwapFound
  <2>2. pc = "swap" /\ ptr # NIL
    BY <1>8 DEF SwapFound
  <2>3. ptr \in 1 .. N
    <3>1. CASE Straight
      BY <1>1, <2>2, <3>1 DEF Straight, Walk, NIL
    <3>2. CASE Ring
      BY <2>2, <3>2 DEF Ring, Round
    <3> QED
      BY <3>1, <3>2
  <2>4. seg[ptr] \in Struct
    BY <1>1, <2>3, TypeFacts
  <2>5. /\ [seg[ptr] EXCEPT !.name = label].start = seg[ptr].start
        /\ [seg[ptr] EXCEPT !.name = label].length = seg[ptr].length
    BY <2>4 DEF Struct
  <2> QED
    BY <1>6, <1>8, <2>1, <2>2, <2>3, <2>5 DEF SwapFound
<1>9. CASE InsertFirst \/ InsertBefore \/ InsertLast
  <2>1. /\ count = N + 1 /\ N' = count /\ count' = count /\ pc' = "define"
        /\ UNCHANGED <<is_z, swapping, overlay_base>>
        /\ \A s \in Seg : /\ seg'[s].start = seg[s].start /\ seg'[s].length = seg[s].length
                          /\ seg'[s].name = seg[s].name /\ seg'[s].type = seg[s].type
    BY <1>9, InsertStep
  <2>2. \A k \in overlay_base' : \E s \in 1 .. N' : Key[seg'[s].name] = k /\ Copied(s)'
    BY <1>1, <1>3, <2>1
  <2>3. pc = "insert"
    BY <1>9 DEF InsertFirst, InsertBefore, InsertLast
  <2>4. swapping' => Copied(count)'
    <3> SUFFICES ASSUME swapping' PROVE Copied(count)'
      OBVIOUS
    <3>1. Copied(count)
      BY <2>1, <2>3 DEF Copies
    <3>2. count \in 1 .. count
      BY <1>1, <2>1
    <3>3. \A r \in 1 .. count : seg'[r].start = seg[r].start /\ seg'[r].length = seg[r].length
      BY <1>1, <2>1
    <3> QED
      BY <1>1, <2>1, <3>1, <3>2, <3>3 DEF Copied
  <2> QED
    BY <2>1, <2>2, <2>4 DEF Copies
<1> QED
  BY <1>4, <1>5, <1>7, <1>8, <1>9 DEF Next, Quiet

-----------------------------------------------------------------------------
(* A list stays one, or becomes a ring.                                    *)

\* memory_check: what was warned of stays so.
LEMMA WarnedStays ==
  ASSUME TypeOK, UNCHANGED <<count, seg, is_z, overlay_base>>,
         warnings' = warnings \/ warnings' = warnings + 1,
         NEW s \in 1 .. count, Warned(s)
  PROVE  Warned(s)'
<1>1. warnings > 0 => warnings' > 0
  BY DEF TypeOK
<1>2. \A t \in 1 .. count : (Before(s, t)' <=> Before(s, t)) /\ (IsOverlay(t)' <=> IsOverlay(t))
  BY DEF Before, IsOverlay
<1>3. EndOf(s)' = EndOf(s)
  BY DEF EndOf
<1> QED
  BY <1>1, <1>2, <1>3 DEF Warned

\* What is before the structure behind p is p, or before p.
LEMMA BeforeNext ==
  ASSUME NEW n \in Nat, Starts(n), Listed(n), NEW p \in 1 .. n, NEW s \in 1 .. n,
         seg[p].mem_next = NIL \/ Before(s, seg[p].mem_next)
  PROVE  s = p \/ Before(s, p)
<1>1. s = p \/ Before(s, p) \/ Before(p, s)
  BY Ordered
<1>2. ASSUME Before(p, s) PROVE FALSE
  <2> DEFINE t == seg[p].mem_next
  <2>1. t # NIL /\ t \in 1 .. n /\ (s = t \/ Before(t, s))
    BY <1>2, Links
  <2>2. Before(s, t)
    BY <2>1
  <2> HIDE DEF t
  <2> QED
    BY <2>1, <2>2, Ordered
<1> QED
  BY <1>1, <1>2

CheckStep == MemoryCheck \/ CheckZ \/ CheckSkip \/ CheckSpace \/ PeerSkip \/ PeerCompare \/ EndOfSpace

\* Each comparison of memory_check extends what it has warned of so far to the
\* next structure, or pair of them.
LEMMA ChecksNext ==
  ASSUME TypeOK, TypeOK', Straight, CheckStep
  PROVE  Checks' /\ (pc' \in {"check", "peer"} => ptr' \in 0 .. N) /\ (pc' = "peer" => prev' \in 0 .. N)
<1> USE DEF list, known
<1>1. /\ pc \in {"directive", "check", "peer"} /\ N = count /\ N \in Nat
      /\ UNCHANGED <<count, seg, head, is_z, overlay_base>>
      /\ pc' # "insert" /\ N' = N
  <2>1. pc \in {"directive", "check", "peer"} /\ pc' # "insert"
    BY DEF CheckStep, MemoryCheck, CheckZ, CheckSkip, CheckSpace, PeerSkip, PeerCompare, EndOfSpace
  <2>2. UNCHANGED <<count, seg, head, is_z, overlay_base>>
    BY DEF CheckStep, MemoryCheck, CheckZ, CheckSkip, CheckSpace, PeerSkip, PeerCompare, EndOfSpace
  <2> QED
    BY <2>1, <2>2, TypeFacts DEF N
<1>2. PICK n \in Nat : n = N /\ n = count
  BY <1>1
<1>3. Listed(n) /\ Starts(n)
  <2>1. Listed(N) /\ Starts(N)
    BY TypeFacts DEF Straight
  <2> QED
    BY <1>2, <2>1
<1>4. warnings' = warnings \/ warnings' = warnings + 1
  BY DEF CheckStep, MemoryCheck, CheckZ, CheckSkip, CheckSpace, PeerSkip, PeerCompare, EndOfSpace,
     Compare
<1>5. \A s \in 1 .. n : Warned(s) => Warned(s)'
  BY <1>1, <1>2, <1>4, WarnedStays
<1>6. \A s, t \in 1 .. n : Before(s, t)' <=> Before(s, t)
  BY <1>1 DEF Before
<1>7. /\ pc \in {"check", "peer"} => ptr \in 1 .. n
      /\ pc = "peer" => prev \in 0 .. n
  BY <1>2 DEF Straight, Walk, TypeOK, NIL
<1>8. /\ head \in 0 .. n
      /\ \A s \in 1 .. n : head = s \/ Before(head, s)
      /\ \A s \in 1 .. n : ~ Before(s, head) \/ head = NIL
  <2>1. head \in 0 .. n /\ \A s \in 1 .. n : head = s \/ Before(head, s)
    BY <1>3, Links
  <2> QED
    BY <1>3, <2>1, Ordered DEF NIL
<1>9. \A s \in 1 .. n : seg[s].mem_next \in 0 .. n
  BY <1>3, Links
<1>10. CASE MemoryCheck
  <2>1. head # NIL => ptr' = head /\ pc' = "check" /\ space' = "PM"
    BY <1>10 DEF MemoryCheck
  <2>2. head = NIL => pc' = "exit"
    BY <1>10 DEF MemoryCheck
  <2>3. ASSUME head # NIL, NEW s \in 1 .. n PROVE ~ Seen(s)'
    <3>1. ~ Before(s, head)
      BY <1>8, <2>3
    <3>2. ~ Before(s, ptr)'
      BY <1>1, <2>1, <2>3, <3>1 DEF Before
    <3> QED
      BY <2>1, <2>3, <3>2 DEF Seen
  <2> QED
    BY <1>1, <1>2, <1>8, <2>1, <2>2, <2>3 DEF Checks
<1>11. \A s \in 1 .. n : Seen(s) /\ pc \in {"check", "peer"} => Warned(s)'
  BY <1>2, <1>5 DEF Straight, Checks
<1>12. \A s \in 1 .. n : EndOf(s)' = EndOf(s) /\ (IsOverlay(s)' <=> IsOverlay(s))
  BY <1>1 DEF EndOf, IsOverlay
<1>13. /\ \A s \in 1 .. n : seg[s].start \in Int
       /\ warnings' = warnings + 1 => warnings' > 0
  BY <1>3 DEF Starts, TypeOK
<1>14. CASE CheckZ
  <2>1. /\ is_z /\ pc = "check" /\ pc' = "check" /\ ptr \in 1 .. n
        /\ ptr' = seg[ptr].mem_next /\ ptr' # NIL
    BY <1>7, <1>14 DEF CheckZ
  <2>2. PICK q \in 1 .. n : q = ptr
    BY <2>1
  <2>3. PICK p \in 1 .. n : p = ptr' /\ p = seg[q].mem_next /\ p # NIL
    BY <1>9, <2>1, <2>2 DEF NIL
  <2>4. Warned(q)'
    <3>1. EndOf(q) > seg[p].start /\ ~ IsOverlay(p) => warnings' = warnings + 1
      BY <1>14, <2>2, <2>3 DEF CheckZ, Compare, IsOverlay
    <3> QED
      BY <1>1, <1>12, <1>13, <2>1, <2>3, <3>1 DEF Warned
  <2>5. ASSUME NEW s \in 1 .. n, Seen(s)' PROVE s = q \/ Seen(s)
    <3>1. Before(s, p)
      BY <1>1, <2>1, <2>3, <2>5 DEF Seen, Before
    <3>2. s = q \/ Before(s, q)
      BY <1>3, <2>3, <3>1, BeforeNext
    <3> QED
      BY <2>1, <2>2, <3>2 DEF Seen
  <2> QED
    BY <1>1, <1>2, <1>11, <2>1, <2>3, <2>4, <2>5 DEF Checks
<1>15. CASE CheckSkip
  <2>1. /\ ~ is_z /\ pc = "check" /\ pc' = "check" /\ ptr \in 1 .. n /\ seg[ptr].type # space
        /\ ptr' = seg[ptr].mem_next /\ ptr' # NIL /\ space' = space
    BY <1>7, <1>15 DEF CheckSkip
  <2>2. PICK q \in 1 .. n : q = ptr
    BY <2>1
  <2>3. PICK p \in 1 .. n : p = ptr' /\ p = seg[q].mem_next /\ p # NIL
    BY <1>9, <2>1, <2>2 DEF NIL
  <2>4. ASSUME NEW s \in 1 .. n, Seen(s)' PROVE Seen(s)
    <3>1. CASE seg[s].type = space
      <4>1. Before(s, p) \/ (seg[s].type = "PM" /\ space = "DM")
        BY <1>1, <2>1, <2>3, <2>4 DEF Seen, Before
      <4>2. Before(s, p) => s = q \/ Before(s, q)
        BY <1>3, <2>3, BeforeNext
      <4> QED
        BY <2>1, <2>2, <3>1, <4>1, <4>2 DEF Seen
    <3>2. CASE seg[s].type # space
      BY <1>1, <2>1, <2>4, <3>2 DEF Seen
    <3> QED
      BY <3>1, <3>2
  <2> QED
    BY <1>1, <1>2, <1>11, <2>1, <2>3, <2>4 DEF Checks
<1>16. CASE CheckSpace
  <2>1. /\ ~ is_z /\ pc = "check" /\ pc' = "peer" /\ ptr \in 1 .. n /\ seg[ptr].type = space
        /\ ptr' = ptr /\ prev' = seg[ptr].mem_next /\ prev' # NIL /\ space' = space
    BY <1>7, <1>16 DEF CheckSpace
  <2>2. PICK q \in 1 .. n : q = ptr
    BY <2>1
  <2>3. PICK p \in 1 .. n : p = prev' /\ p = seg[q].mem_next /\ p # NIL
    BY <1>9, <2>1, <2>2 DEF NIL
  <2>4. ASSUME NEW s \in 1 .. n, Seen(s)' PROVE Seen(s)
    BY <1>1, <2>1, <2>4 DEF Seen, Before
  <2>5. Before(q, p) /\ \A t \in 1 .. n : ~ (Before(q, t) /\ Before(t, p))
    <3>1. Before(q, p) /\ \A t \in 1 .. n : Before(q, t) => t = p \/ Before(p, t)
      BY <1>3, <2>3, Links
    <3> QED
      BY <1>3, <3>1, Ordered
  <2>6. Before(ptr, prev)'
    BY <1>1, <2>1, <2>2, <2>3, <2>5 DEF Before
  <2>7. ASSUME NEW t \in 1 .. n PROVE ~ (Before(ptr, t)' /\ (prev' = NIL \/ Before(t, prev)'))
    <3>1. ~ (Before(q, t) /\ Before(t, p))
      BY <2>5
    <3> QED
      BY <1>1, <2>1, <2>2, <2>3, <3>1 DEF Before
  <2> QED
    BY <1>1, <1>2, <1>11, <2>1, <2>3, <2>4, <2>6, <2>7 DEF Checks
<1>17. CASE PeerSkip \/ PeerCompare
  <2>1. /\ ~ is_z /\ pc = "peer" /\ ptr \in 1 .. n /\ seg[ptr].type = space /\ space' = space
        /\ prev \in 1 .. n
    <3>1. pc = "peer" /\ prev # NIL /\ space' = space
      BY <1>17 DEF PeerSkip, PeerCompare
    <3>2. ~ is_z /\ seg[ptr].type = space
      BY <3>1 DEF Straight, Checks
    <3> QED
      BY <1>7, <3>1, <3>2 DEF NIL
  <2>2. PICK q \in 1 .. n : q = ptr
    BY <2>1
  <2>3. PICK r \in 1 .. n : r = prev /\ r # NIL
    BY <2>1 DEF NIL
  <2>4. /\ Before(q, r)
        /\ \A t \in 1 .. n : Before(q, t) /\ Before(t, r) => seg[t].type # space
    BY <1>2, <2>1, <2>2, <2>3 DEF Straight, Checks
  <2>5. CASE PeerSkip
    <3>1. /\ pc' = "peer" /\ prev' = seg[r].mem_next /\ ptr' = q /\ seg[r].type # space
      BY <2>2, <2>3, <2>5 DEF PeerSkip
    <3>2. PICK p \in 0 .. n : p = prev' /\ p = seg[r].mem_next
      BY <1>9, <3>1
    <3>3. p # NIL => p \in 1 .. n /\ Before(r, p)
      BY <1>3, <3>2, Links
    <3>4. p # NIL => Before(q, p)
      BY <1>3, <2>4, <3>3, Ordered
    <3>5. ASSUME NEW t \in 1 .. n, Before(q, t), p = NIL \/ Before(t, p)
          PROVE  seg[t].type # space
      <4>1. t = r \/ Before(t, r)
        BY <1>3, <3>2, <3>5, BeforeNext
      <4> QED
        BY <2>4, <3>1, <3>5, <4>1
    <3>6. prev' # NIL => Before(ptr, prev)'
      BY <1>1, <3>1, <3>2, <3>4 DEF Before
    <3>7. ASSUME NEW t \in 1 .. n, Before(ptr, t)', prev' = NIL \/ Before(t, prev)'
          PROVE  seg'[t].type # space'
      <4>1. Before(q, t) /\ (p = NIL \/ Before(t, p))
        BY <1>1, <3>1, <3>2, <3>7 DEF Before
      <4> QED
        BY <1>1, <2>1, <3>5, <4>1
    <3>8. ASSUME NEW s \in 1 .. n, Seen(s)' PROVE Seen(s)
      BY <1>1, <2>1, <2>2, <3>1, <3>8 DEF Seen, Before
    <3>9. ptr' \in 0 .. n /\ ~ is_z' /\ seg'[ptr'].type = space'
      BY <1>1, <2>1, <2>2, <3>1
    <3> QED
      BY <1>1, <1>2, <1>11, <2>1, <3>1, <3>2, <3>6, <3>7, <3>8, <3>9 DEF Checks
  <2>6. CASE PeerCompare
    <3>1. /\ pc' = "check" /\ ptr' = seg[q].mem_next /\ seg[r].type = space
          /\ EndOf(q) > seg[r].start => warnings' = warnings + 1
      BY <2>2, <2>3, <2>6 DEF PeerCompare, Compare
    <3>2. PICK p \in 0 .. n : p = ptr' /\ p = seg[q].mem_next /\ p # NIL
      BY <1>9, <2>1, <2>2, <3>1 DEF TypeOK
    <3>3. Warned(q)'
      <4>1. ASSUME NEW t \in 1 .. n, Before(q, t), EndOf(q) > seg[t].start, seg[t].type = space
            PROVE  warnings' > 0
        <5>1. t = r \/ Before(r, t)
          BY <1>3, <2>4, <4>1, Ordered
        <5>2. seg[r].start <= seg[t].start
          BY <1>3, <1>13, <5>1, Ordered
        <5>3. EndOf(q) \in Int
          <6>1. q \in Seg
            BY <1>2, TypeFacts
          <6>2. seg[q].start + seg[q].length \in Int
            BY <6>1, TypeFacts
          <6> QED
            BY <6>2, InWord DEF EndOf, Word
        <5>4. EndOf(q) > seg[r].start
          BY <1>13, <4>1, <5>2, <5>3
        <5> QED
          BY <1>13, <3>1, <5>4
      <4>2. seg[q].type = space
        BY <2>1, <2>2
      <4> QED
        BY <1>1, <1>2, <1>6, <1>12, <2>1, <4>1, <4>2 DEF Warned
    <3>4. ASSUME NEW s \in 1 .. n, Seen(s)' PROVE s = q \/ Seen(s)
      <4>1. Before(s, p) \/ (seg[s].type = "PM" /\ space = "DM")
        BY <1>1, <2>1, <3>2, <3>4 DEF Seen, Before
      <4>2. Before(s, p) => s = q \/ Before(s, q)
        BY <1>3, <3>2, BeforeNext
      <4>3. seg[s].type = space \/ (seg[s].type = "PM" /\ space = "DM")
        BY <1>1, <2>1, <3>4 DEF Seen
      <4> QED
        BY <2>1, <2>2, <4>1, <4>2, <4>3 DEF Seen
    <3> QED
      BY <1>1, <1>2, <1>11, <2>1, <3>1, <3>2, <3>3, <3>4 DEF Checks
  <2> QED
    BY <1>17, <2>5, <2>6
<1>18. CASE EndOfSpace
  <2>1. /\ pc \in {"check", "peer"} /\ ptr \in 1 .. n /\ warnings' = warnings
        /\ pc = "check" => seg[ptr].mem_next = NIL
        /\ pc = "peer" => prev = NIL /\ ~ is_z /\ seg[ptr].type = space
    BY <1>7, <1>18 DEF EndOfSpace, Straight, Checks
  <2>2. PICK q \in 1 .. n : q = ptr
    BY <2>1
  <2>3. \A t \in 1 .. n : Before(q, t) => pc = "peer" /\ seg[t].type # space
    <3>1. CASE pc = "check"
      <4>1. \A t \in 1 .. n : ~ Before(q, t)
        BY <1>3, <2>1, <2>2, <3>1, Links
      <4> QED
        BY <4>1
    <3>2. CASE pc = "peer"
      BY <1>2, <2>1, <2>2, <3>2 DEF Straight, Checks
    <3> QED
      BY <2>1, <3>1, <3>2
  <2>4. Warned(q)
    <3>1. ASSUME is_z, NEW t \in 1 .. n PROVE ~ Before(q, t)
      BY <2>1, <2>3, <3>1
    <3>2. ASSUME ~ is_z, NEW t \in 1 .. n, Before(q, t) PROVE seg[t].type # seg[q].type
      BY <2>1, <2>2, <2>3, <3>2
    <3> QED
      BY <1>2, <3>1, <3>2 DEF Warned
  <2>5. ASSUME NEW s \in 1 .. n, is_z \/ seg[s].type = space PROVE Warned(s)
    <3>1. s = q \/ Before(s, q) \/ Before(q, s)
      BY <1>3, Ordered
    <3>2. Before(s, q) => Warned(s)
      BY <1>2, <2>1, <2>2, <2>5 DEF Seen, Straight, Checks
    <3>3. ~ Before(q, s)
      BY <2>1, <2>3, <2>5
    <3> QED
      BY <2>4, <3>1, <3>2, <3>3
  <2>6. CASE is_z \/ space = "DM"
    <3>1. pc' = "done"
      BY <1>18, <2>6 DEF EndOfSpace
    <3>2. ASSUME NEW s \in 1 .. n PROVE Warned(s)
      <4>1. CASE is_z \/ seg[s].type = space
        BY <2>5, <4>1
      <4>2. CASE ~ is_z /\ seg[s].type # space
        <5>1. s \in Seg
          BY <1>2, TypeFacts
        <5>2. seg[s].type = "PM"
          BY <2>6, <4>2, <5>1, TypeFacts DEF Type
        <5> QED
          BY <1>2, <2>1, <2>6, <4>2, <5>2 DEF Seen, Straight, Checks
      <4> QED
        BY <4>1, <4>2
    <3> QED
      BY <1>1, <1>2, <1>5, <3>1, <3>2 DEF Checks
  <2>7. CASE ~ (is_z \/ space = "DM")
    <3>1. pc' = "check" /\ ptr' = head /\ space' = "DM" /\ space = "PM"
      BY <1>18, <2>7 DEF EndOfSpace, TypeOK, Type
    <3>2. head # NIL
      BY <2>1 DEF TypeOK
    <3>3. ASSUME NEW s \in 1 .. n, Seen(s)' PROVE Warned(s)
      <4>1. ~ Before(s, head)
        BY <1>8, <3>2
      <4>2. seg[s].type = "PM"
        BY <1>1, <2>7, <3>1, <3>3, <4>1 DEF Seen, Before
      <4> QED
        BY <2>5, <3>1, <4>2
    <3> QED
      BY <1>1, <1>2, <1>5, <1>8, <3>1, <3>3 DEF Checks
  <2> QED
    BY <2>6, <2>7
<1> QED
  BY <1>10, <1>14, <1>15, <1>16, <1>17, <1>18 DEF CheckStep

\* The actions that leave the list as it is, but for those of memory_check.
ReadStep ==
  \/ Segment \/ DuplicateName \/ OtherName
  \/ Overlay \/ SwapOther \/ SwapMissing
  \/ InsertFurther \/ DefineSection

\* A list stays one under each action, but for InsertLast: a third structure at
\* the highest address may close it.
LEMMA StraightNext ==
  ASSUME TypeOK, TypeOK', Straight, Next PROVE Straight' \/ Ring'
<1> USE DEF list, known
<1>1. PICK n \in Nat : n = N
  BY TypeFacts
<1>2. Listed(n) /\ Starts(n) /\ 1 .. n \subseteq Seg
  BY <1>1, TypeFacts DEF Straight
<1>3. /\ head \in 0 .. n
      /\ \A s \in 1 .. n : seg[s].mem_next \in 0 .. n
  BY <1>2, Links
<1>4. CASE Quiet
  <2>1. UNCHANGED <<count, seg, head, is_z>> /\ N' = N /\ (pc = "insert" <=> pc' = "insert")
    BY <1>4, QuietStep
  <2>2. Listed(N)'
    <3>1. Listed(n)'
      BY <1>2, <2>1, SameList
    <3> QED
      BY <1>1, <2>1, <3>1
  <2>3. CASE CheckStep
    <3>1. Checks' /\ (pc' \in {"check", "peer"} => ptr' \in 0 .. N) /\ (pc' = "peer" => prev' \in 0 .. N)
      BY <2>3, ChecksNext
    <3>2. pc' \notin {"duplicate", "swap", "insert"}
      BY <2>3 DEF CheckStep, MemoryCheck, CheckZ, CheckSkip, CheckSpace, PeerSkip, PeerCompare,
           EndOfSpace
    <3>3. Walk'
      BY <2>1, <3>1, <3>2 DEF Walk
    <3> QED
      BY <2>2, <3>1, <3>3 DEF Straight
  <2>4. CASE ReadStep
    <3>1. pc' \notin {"check", "peer", "done"}
      BY <2>4 DEF ReadStep, Segment, DuplicateName, OtherName, Overlay, SwapOther, SwapMissing,
           InsertFurther, DefineSection
    <3>2. Checks'
      BY <3>1 DEF Checks
    <3>3. pc' = "duplicate" => member'.mem_next = NIL
      BY <2>4 DEF ReadStep, Segment, DuplicateName, OtherName, Overlay, SwapOther, SwapMissing,
           InsertFurther, DefineSection, Straight, Walk
    <3>4. ptr # NIL /\ pc \in {"duplicate", "swap", "insert"} => ptr \in 1 .. n
      BY <1>1 DEF Straight, Walk, NIL
    <3>5. pc' \in {"duplicate", "swap", "insert"} => ptr' \in 0 .. n
      BY <1>3, <2>4, <3>4 DEF ReadStep, Segment, DuplicateName, OtherName, Overlay, SwapOther,
           SwapMissing, InsertFurther, DefineSection
    <3>6. ASSUME pc' = "insert" PROVE Passed(count, N)'
      <4>1. /\ pc = "insert" /\ prev' = ptr /\ ptr' = seg[ptr].mem_next /\ ptr # NIL
            /\ seg[ptr].start <= seg[count].start
        BY <2>4, <3>6 DEF ReadStep, Segment, DuplicateName, OtherName, Overlay, SwapOther,
             SwapMissing, InsertFurther, DefineSection
      <4>2. ptr \in 1 .. N
        BY <1>1, <3>4, <4>1
      <4> QED
        BY <2>1, <4>1, <4>2 DEF Passed
    <3>7. Walk'
      BY <1>1, <2>1, <3>1, <3>3, <3>5, <3>6 DEF Straight, Walk
    <3> QED
      BY <2>2, <3>2, <3>7 DEF Straight
  <2> QED
    BY <1>4, <2>3, <2>4 DEF Quiet, ReadStep, CheckStep
<1>5. ASSUME NEW m, StartInsert(m), pc \in {"duplicate", "swap"}, count < MaxDirectives,
             \/ m.mem_next = NIL
             \/ \E s \in 1 .. n : seg[s].start = m.start /\ seg[s].mem_next = m.mem_next
      PROVE  Straight'
  <2>1. /\ N' = N /\ head' = head /\ count' = n + 1
        /\ seg'[n + 1] = m /\ \A s \in 1 .. n : seg'[s] = seg[s]
        /\ pc' = "insert" /\ ptr' = head /\ prev' = NIL
    BY <1>1, <1>5, StartStep DEF StartInsert
  <2>2. Listed(N)'
    <3>1. Listed(n)'
      BY <1>2, <2>1, SameList
    <3> QED
      BY <1>1, <2>1, <3>1
  <2>3. Checks'
    BY <2>1 DEF Checks
  <2>4. Passed(count, N)'
    BY <2>1 DEF Passed
  <2>5. \/ seg'[count'].mem_next = NIL
        \/ \E s \in 1 .. N' : /\ seg'[s].start = seg'[count'].start
                              /\ seg'[s].mem_next = seg'[count'].mem_next
    BY <1>1, <1>5, <2>1
  <2>6. Walk'
    BY <1>1, <1>3, <2>1, <2>4, <2>5 DEF Walk
  <2> QED
    BY <2>2, <2>3, <2>6 DEF Straight
<1>6. CASE NewName
  BY <1>5, <1>6 DEF NewName, Straight, Walk, TypeOK
<1>7. CASE SwapFound
  <2>1. PICK label \in Name : StartInsert([seg[ptr] EXCEPT !.name = label])
    BY <1>7 DEF SwapFound
  <2>2. pc = "swap" /\ ptr \in 1 .. n
    BY <1>1, <1>7 DEF SwapFound, Straight, Walk, NIL
  <2>3. seg[ptr] \in Struct
    BY <1>2, <2>2, TypeFacts
  <2>4. /\ [seg[ptr] EXCEPT !.name = label].start = seg[ptr].start
        /\ [seg[ptr] EXCEPT !.name = label].mem_next = seg[ptr].mem_next
    BY <2>3 DEF Struct
  <2>5. count < MaxDirectives
    BY <2>2 DEF TypeOK
  <2> QED
    BY <1>5, <2>1, <2>2, <2>4, <2>5
<1>8. CASE InsertFirst \/ InsertBefore \/ InsertLast
  <2>1. /\ count = n + 1 /\ N' = count /\ count' = count /\ pc' = "define" /\ pc = "insert"
        /\ \A s \in Seg : seg'[s].start = seg[s].start
    BY <1>1, <1>8, InsertStep DEF InsertFirst, InsertBefore, InsertLast
  <2>2. PICK c \in Nat : c = n + 1 /\ c = count
    BY <2>1
  <2>3. Starts(c) /\ c \in Seg /\ 1 .. c \subseteq Seg
    BY <2>2, TypeFacts
  <2>4. Passed(c, n) /\ ptr \in 0 .. n /\ (prev = NIL \/ prev \in 1 .. n)
    <3>1. Passed(count, N) /\ ptr \in 0 .. N
      BY <2>1 DEF Straight, Walk
    <3> QED
      BY <1>1, <2>2, <3>1 DEF Passed
  <2>5. ASSUME Listed(c)' PROVE Straight'
    <3>1. Listed(N)'
      BY <2>1, <2>2, <2>5
    <3> QED
      BY <2>1, <3>1 DEF Straight, Walk, Checks
  <2>6. DOMAIN seg = Seg /\ \A s \in Seg : DOMAIN seg[s] = {"name", "start", "length", "type", "mem_next"}
    BY DEF TypeOK, Struct
  <2>7. ASSUME ptr = NIL \/ (ptr \in 1 .. n /\ seg[ptr].start > seg[c].start),
               \A s \in 1 .. n : s # prev => seg'[s].mem_next = seg[s].mem_next,
               seg'[c].mem_next = ptr,
               prev # NIL => seg'[prev].mem_next = c,
               head' = IF prev = NIL THEN c ELSE head
        PROVE  Straight'
    <3>1. \A s \in 1 .. c : seg'[s].start = seg[s].start
      BY <2>1, <2>3
    <3>2. Listed(c)'
      BY <1>2, <2>2, <2>3, <2>4, <2>7, <3>1, Inserted
    <3> QED
      BY <2>5, <3>2
  <2>8. CASE InsertFirst
    <3>1. head = NIL /\ n = 0
      BY <1>2, <2>8, Links DEF InsertFirst
    <3>2. prev = NIL /\ ptr = NIL
      BY <2>4, <3>1 DEF Passed, NIL
    <3>3. head' = c /\ seg'[c].mem_next = NIL
      BY <2>2, <2>3, <2>6, <2>8 DEF InsertFirst
    <3> QED
      BY <2>7, <3>1, <3>2, <3>3
  <2>9. CASE InsertBefore
    <3>1. ptr \in 1 .. n /\ seg[ptr].start > seg[c].start
      BY <2>2, <2>4, <2>9 DEF InsertBefore, NIL
    <3>2. \A s \in 1 .. n : s # c /\ s \in Seg
      BY <1>2, <2>2
    <3>3. \A s \in 1 .. n : s # prev => seg'[s].mem_next = seg[s].mem_next
      BY <2>2, <2>9, <3>2, <2>3, <2>6 DEF InsertBefore
    <3>4. seg'[c].mem_next = ptr
      BY <2>2, <2>3, <2>6, <2>9 DEF InsertBefore
    <3>5. prev # NIL => seg'[prev].mem_next = c
      BY <2>2, <2>3, <2>4, <2>6, <2>9, <3>2 DEF InsertBefore
    <3>6. head' = IF prev = NIL THEN c ELSE head
      BY <2>2, <2>9 DEF InsertBefore
    <3> QED
      BY <2>7, <3>1, <3>3, <3>4, <3>5, <3>6
  <2>10. CASE InsertLast
    <3>1. /\ head # NIL /\ ptr = NIL /\ head' = head
          /\ seg' = [seg EXCEPT ![prev].mem_next = c]
      BY <2>2, <2>10 DEF InsertLast
    <3>2. prev \in 1 .. n /\ prev # NIL /\ prev # c /\ seg[prev].mem_next = NIL
      BY <2>2, <2>4, <3>1 DEF Passed, NIL
    <3>3. /\ \A s \in 1 .. n : s # prev => seg'[s].mem_next = seg[s].mem_next
          /\ seg'[c].mem_next = seg[c].mem_next
          /\ seg'[prev].mem_next = c
      BY <1>2, <2>3, <2>6, <3>1, <3>2
    <3>4. CASE seg[c].mem_next = NIL
      BY <2>7, <3>1, <3>2, <3>3, <3>4
    <3>5. CASE seg[c].mem_next # NIL
      <4>1. PICK m \in 1 .. n : seg[m].start = seg[c].start /\ seg[m].mem_next = seg[c].mem_next
        BY <1>1, <2>1, <2>2, <3>5 DEF Straight, Walk
      <4> DEFINE t == seg[m].mem_next
      <4>2. t \in 1 .. n /\ Before(m, t) /\ t # NIL
        BY <1>2, <3>5, <4>1, Links
      <4>3. \A u \in 1 .. n : u = prev \/ Before(u, prev)
        BY <1>2, <3>2, Links, Ordered
      <4>4. \A u \in 1 .. n : u # prev => seg[u].mem_next # NIL
        <5>1. ASSUME NEW u \in 1 .. n, u # prev PROVE seg[u].mem_next # NIL
          <6>1. Before(u, prev)
            BY <4>3, <5>1
          <6> QED
            BY <1>2, <3>2, <6>1, Links
        <5> QED
          BY <5>1
      <4>5. \A u \in 1 .. n : seg[u].start \in Int /\ seg[u].start <= seg[prev].start
        BY <1>2, <3>2, <4>3, Ordered DEF Starts
      <4> HIDE DEF t
      <4>6. seg[prev].start <= seg[c].start /\ seg[c].start \in Int
        BY <2>3, <2>4, <3>2, TypeFacts DEF Passed
      <4>7. seg[m].start = seg[t].start /\ seg[t].start = seg[c].start
            /\ \A x \in 1 .. n : seg[x].start <= seg[c].start
        <5>1. seg[m].start <= seg[t].start
          BY <1>2, <4>2, Ordered
        <5>2. seg[t].start \in Int /\ seg[t].start <= seg[prev].start /\ seg[prev].start \in Int
          BY <3>2, <4>2, <4>5
        <5>3. seg[t].start = seg[c].start
          BY <4>1, <4>6, <5>1, <5>2
        <5>4. \A x \in 1 .. n : seg[x].start <= seg[c].start
          BY <4>5, <4>6, <5>2
        <5> QED
          BY <4>1, <5>3, <5>4
      <4>8. CrowdedTop(N)'
        <5>1. m < t
          BY <4>2, <4>5, <4>7 DEF Before
        <5>2. m < t /\ t < c /\ m \in 1 .. c /\ t \in 1 .. c /\ c \in 1 .. c
          BY <2>2, <4>2, <5>1
        <5>3. seg'[m].start = seg'[t].start /\ seg'[t].start = seg'[c].start
          BY <2>1, <2>3, <4>7, <5>2
        <5>4. ASSUME NEW x \in 1 .. c PROVE seg'[x].start <= seg'[m].start
          <6>1. x \in 1 .. n \/ x = c
            BY <2>2
          <6>2. seg[x].start <= seg[m].start
            BY <4>5, <4>6, <4>7, <6>1
          <6> QED
            BY <2>1, <2>3, <5>2, <6>2
        <5>5. N' = c
          BY <2>1, <2>2
        <5> QED
          BY <5>2, <5>3, <5>4, <5>5 DEF CrowdedTop
      <4> DEFINE R == 1 .. c
      <4>9. head' \in R
        BY <1>3, <2>2, <3>1 DEF NIL
      <4>10. ASSUME NEW s \in R PROVE seg'[s].mem_next \in R
        <5>1. s = c \/ s \in 1 .. n
          BY <2>2
        <5>2. CASE s = c
          BY <2>2, <3>3, <4>1, <4>2, <5>2 DEF t
        <5>3. CASE s \in 1 .. n /\ s = prev
          BY <2>2, <3>3, <5>3
        <5>4. CASE s \in 1 .. n /\ s # prev
          BY <1>3, <2>2, <3>3, <4>4, <5>4 DEF NIL
        <5> QED
          BY <5>1, <5>2, <5>3, <5>4
      <4>11. R \in SUBSET (1 .. N')
        BY <2>1, <2>2
      <4> HIDE DEF R
      <4>12. Round(R)'
        BY <2>1, <4>9, <4>10 DEF Round
      <4> QED
        BY <2>1, <4>8, <4>11, <4>12 DEF Ring
    <3> QED
      BY <3>4, <3>5
  <2> QED
    BY <1>8, <2>8, <2>9, <2>10
<1> QED
  BY <1>4, <1>6, <1>7, <1>8 DEF Next, Quiet

-----------------------------------------------------------------------------
(* The invariant and what follows from it.                                 *)

\* The invariant holds before the first directive.
LEMMA InitIInv == Init => IInv
<1> SUFFICES ASSUME Init PROVE IInv
  OBVIOUS
<1>1. TypeOK
  BY InitTypeOK
<1>2. N = 0 /\ count = 0
  BY DEF Init, N
<1>3. Listed(N)
  BY <1>2 DEF Init, Listed, IsFirst, NIL
<1>4. Walk /\ Checks /\ Copies
  BY DEF Init, Walk, Checks, Copies
<1> QED
  BY <1>1, <1>3, <1>4 DEF IInv, Straight

\* And every step keeps it.
LEMMA NextIInv == IInv /\ [Next]_vars => IInv'
<1> SUFFICES ASSUME IInv, [Next]_vars PROVE IInv'
  OBVIOUS
<1>1. TypeOK'
  BY NextTypeOK DEF IInv
<1>2. CASE Next
  BY <1>1, <1>2, CopiesNext, StraightNext, RingNext DEF IInv
<1>3. CASE UNCHANGED vars
  <2> USE DEF vars, list, known
  <2>1. N' = N
    BY <1>3 DEF N
  <2>2. Copies'
    BY <1>3, <2>1 DEF IInv, Copies, Copied
  <2>3. ASSUME Straight PROVE Straight'
    <3>1. Listed(N)'
      BY <1>3, <2>1, <2>3 DEF Straight, Listed, IsFirst, After, Before
    <3>2. Walk'
      BY <1>3, <2>1, <2>3 DEF Straight, Walk, Passed
    <3>3. Checks'
      BY <1>3, <2>1, <2>3 DEF Straight, Checks, Seen, Warned, Before, IsOverlay, EndOf
    <3> QED
      BY <3>1, <3>2, <3>3 DEF Straight
  <2>4. ASSUME Ring PROVE Ring'
    <3>1. CrowdedTop(N)'
      BY <1>3, <2>1, <2>4 DEF Ring, CrowdedTop
    <3>2. \A R \in SUBSET (1 .. N) : Round(R) => Round(R)'
      BY <1>3 DEF Round
    <3> QED
      BY <1>3, <2>1, <2>4, <3>1, <3>2 DEF Ring
  <2> QED
    BY <1>1, <2>2, <2>3, <2>4 DEF IInv
<1> QED
  BY <1>2, <1>3

\* Whatever the directives, the invariant holds while they are read and checked.
THEOREM SpecIInv == Spec => []IInv
BY InitIInv, NextIInv, PTL DEF Spec

\* For any directives, memory_list has every segment once, in ascending order of
\* address, unless three are at the highest address used (list_add).
THEOREM ListOrdered == Spec => []OrderedBelowTop
<1>1. IInv => OrderedBelowTop
  <2> SUFFICES ASSUME IInv, Linked PROVE Listed(count) \/ CrowdedTop(count)
    BY DEF OrderedBelowTop, OrderedByAddress
  <2>1. N = count
    BY DEF Linked, N
  <2> QED
    BY <2>1 DEF IInv, Straight, Ring
<1> QED
  BY <1>1, SpecIInv, PTL

-----------------------------------------------------------------------------
(* memory_check compares neighbours.                                       *)

\* Every non-empty set of natural numbers has a least one.
LEMMA LeastNumber ==
  ASSUME NEW T \in SUBSET Nat, T # {} PROVE \E x \in T : \A y \in T : x <= y
<1> DEFINE R == {ss \in Nat \X Nat : ss[1] < ss[2]}
<1>1. IsWellFoundedOn(R, Nat)
  BY NatLessThanWellFounded, Zenon DEF OpToRel
<1> HIDE DEF R
<1>2. PICK x \in T : \A y \in T : ~ (<<y, x>> \in R)
  BY <1>1, WFMin, Zenon
<1>3. ASSUME NEW y \in T PROVE x <= y
  <2>1. ~ (y < x)
    BY <1>2, <1>3 DEF R
  <2> QED
    BY <2>1
<1> QED
  BY <1>3

\* Of structures at addresses that are no negative longs, one is the first.
LEMMA FirstOf ==
  ASSUME NEW n \in Nat, NEW S \in SUBSET (1 .. n), S # {}, \A s \in 1 .. n : seg[s].start \in Nat
  PROVE  \E t \in S : \A u \in S : u = t \/ Before(t, u)
<1> DEFINE A == {seg[u].start : u \in S}
<1>1. A \in SUBSET Nat /\ A # {}
  OBVIOUS
<1> HIDE DEF A
<1>2. PICK a \in A : \A b \in A : a <= b
  BY <1>1, LeastNumber
<1> DEFINE B == {u \in S : seg[u].start = a}
<1>3. B \in SUBSET Nat /\ B # {}
  <2>1. PICK v \in S : seg[v].start = a
    BY <1>2 DEF A
  <2>2. v \in B
    BY <2>1
  <2>3. \A u \in S : u \in Nat
    OBVIOUS
  <2>4. B \in SUBSET Nat
    BY <2>3
  <2> QED
    BY <2>2, <2>4, Zenon
<1> HIDE DEF B
<1>4. PICK t \in B : \A u \in B : t <= u
  BY <1>3, LeastNumber
<1>5. t \in S /\ seg[t].start = a /\ t \in Nat /\ a \in Nat
  BY <1>1, <1>2, <1>3, <1>4 DEF B
<1>6. ASSUME NEW u \in S, u # t PROVE Before(t, u)
  <2>1. seg[u].start \in Nat /\ a <= seg[u].start /\ u \in Nat
    BY <1>2 DEF A
  <2>2. CASE seg[u].start = a
    BY <1>4, <1>5, <1>6, <2>1, <2>2 DEF B, Before
  <2>3. CASE seg[u].start # a
    BY <1>5, <2>1, <2>3 DEF Before
  <2> QED
    BY <2>2, <2>3
<1> QED
  BY <1>5, <1>6

\* And one is the last.
LEMMA LastOf ==
  ASSUME NEW n \in Nat, NEW S \in SUBSET (1 .. n), S # {},
         NEW top \in Nat, \A s \in 1 .. n : seg[s].start \in Nat /\ seg[s].start <= top
  PROVE  \E t \in S : \A u \in S : u = t \/ Before(u, t)
<1> DEFINE A == {top - seg[u].start : u \in S}
<1>1. A \in SUBSET Nat /\ A # {}
  <2>1. \A u \in S : top - seg[u].start \in Nat
    OBVIOUS
  <2>2. A \in SUBSET Nat
    BY <2>1
  <2>3. PICK v \in S : TRUE
    OBVIOUS
  <2>4. top - seg[v].start \in A
    OBVIOUS
  <2> QED
    BY <2>2, <2>4, Zenon
<1> HIDE DEF A
<1>2. PICK a \in A : \A b \in A : a <= b
  BY <1>1, LeastNumber
<1> DEFINE B == {n - u : u \in {v \in S : top - seg[v].start = a}}
<1>3. B \in SUBSET Nat /\ B # {}
  <2>1. PICK v \in S : top - seg[v].start = a
    BY <1>2 DEF A
  <2>2. n - v \in B
    BY <2>1
  <2>3. \A u \in S : n - u \in Nat
    OBVIOUS
  <2>4. B \in SUBSET Nat
    BY <2>3
  <2> QED
    BY <2>2, <2>4, Zenon
<1> HIDE DEF B
<1>4. PICK b \in B : \A d \in B : b <= d
  BY <1>3, LeastNumber
<1>5. PICK t \in S : top - seg[t].start = a /\ b = n - t
  BY <1>4 DEF B
<1>6. t \in Nat /\ seg[t].start \in Nat /\ a \in Nat
  BY <1>1
<1>7. ASSUME NEW u \in S, u # t PROVE Before(u, t)
  <2>0. top - seg[u].start \in A
    BY DEF A
  <2>1. seg[u].start \in Nat /\ a <= top - seg[u].start /\ u \in Nat
    BY <1>2, <2>0
  <2>2. CASE top - seg[u].start = a
    <3>0. u \in {v \in S : top - seg[v].start = a}
      BY <2>2
    <3>1. n - u \in B
      BY <3>0 DEF B
    <3>2. n - t <= n - u
      BY <1>4, <1>5, <3>1
    <3> QED
      BY <1>5, <1>6, <1>7, <2>1, <2>2, <3>2 DEF Before
  <2>3. CASE top - seg[u].start # a
    BY <1>5, <1>6, <2>1, <2>3 DEF Before
  <2> QED
    BY <2>2, <2>3
<1> QED
  BY <1>7

\* Unless a segment reaches the last address, the end that memory_check computes
\* is its own.
LEMMA ExactEnd ==
  ASSUME TypeOK, NEW s \in 1 .. count, BelowTop(s)
  PROVE  /\ seg[s].start \in Nat /\ seg[s].start < LongRange
         /\ EndOf(s) = seg[s].start + seg[s].length /\ EndOf(s) = SegmentEnd(s)
<1>1. s \in Seg
  BY TypeFacts
<1>2. seg[s].start \in Nat /\ seg[s].length \in Nat /\ LongRange \in Nat \ {0}
  BY <1>1, TypeFacts, ArchAssumption
<1> DEFINE x == seg[s].start + seg[s].length
<1>3. x \in 0 .. (LongRange - 1) /\ seg[s].start < LongRange
  BY <1>2 DEF BelowTop, SegmentEnd
<1> HIDE DEF x
<1>4. x % LongRange = x
  BY <1>2, <1>3
<1> QED
  BY <1>2, <1>3, <1>4 DEF EndOf, SegmentEnd, x

\* An overlay among structures of different names is a copy of one that is no
\* overlay, and behind it.
LEMMA Origin ==
  ASSUME TypeOK, Copies, pc = "done", PlainMemory, NEW s \in 1 .. count, IsOverlay(s)
  PROVE  \E m \in 1 .. count : /\ ~ IsOverlay(m) /\ Before(m, s)
                               /\ seg[m].start = seg[s].start /\ seg[m].length = seg[s].length
<1>1. N = count /\ count \in Nat
  BY TypeFacts DEF N
<1>2. ASSUME NEW x \in 1 .. count, IsOverlay(x) PROVE Copied(x)
  <2>1. PICK y \in 1 .. count : Key[seg[y].name] = Key[seg[x].name] /\ Copied(y)
    BY <1>1, <1>2 DEF Copies, IsOverlay
  <2>2. x = y
    BY <2>1 DEF PlainMemory
  <2> QED
    BY <2>1, <2>2
<1> DEFINE T == {r \in 1 .. count : seg[r].start = seg[s].start /\ seg[r].length = seg[s].length}
<1>3. s \in T /\ T \in SUBSET Nat
  OBVIOUS
<1>4. PICK m \in T : \A r \in T : m <= r
  BY <1>3, LeastNumber
<1>5. ASSUME NEW x \in T, IsOverlay(x) PROVE x # m
  <2>1. PICK r \in 1 .. (x - 1) : seg[r].start = seg[x].start /\ seg[r].length = seg[x].length
    BY <1>2, <1>5 DEF Copied
  <2>2. r \in T /\ r < x
    BY <1>1, <1>5, <2>1
  <2> QED
    BY <1>3, <1>4, <1>5, <2>2
<1>6. ~ IsOverlay(m) /\ m # s
  BY <1>3, <1>4, <1>5
<1>7. Before(m, s)
  BY <1>3, <1>4, <1>6 DEF Before
<1> QED
  BY <1>4, <1>6, <1>7

\* What has something before it is the next of something.
LEMMA Neighbour ==
  ASSUME NEW n \in Nat, Listed(n), NEW top \in Nat,
         \A s \in 1 .. n : seg[s].start \in Nat /\ seg[s].start <= top,
         NEW p \in 1 .. n, NEW z \in 1 .. n, Before(p, z)
  PROVE  \E y \in 1 .. n : Before(y, z) /\ seg[y].mem_next = z /\ (p = y \/ Before(p, y))
<1> DEFINE Y == {v \in 1 .. n : Before(v, z)}
<1>1. Y \in SUBSET (1 .. n) /\ Y # {} /\ p \in Y
  OBVIOUS
<1>2. PICK y \in Y : \A v \in Y : v = y \/ Before(v, y)
  <2> HIDE DEF Y
  <2> QED
    BY <1>1, LastOf
<1>3. Starts(n)
  BY DEF Starts
<1> DEFINE w == seg[y].mem_next
<1>4. w \in 1 .. n /\ Before(y, w) /\ (z = w \/ Before(w, z))
  BY <1>2, Links
<1> HIDE DEF w
<1>5. ASSUME Before(w, z) PROVE FALSE
  <2>1. w = y \/ Before(w, y)
    BY <1>2, <1>4, <1>5
  <2> QED
    BY <1>2, <1>3, <1>4, <2>1, Ordered
<1>6. w = z
  BY <1>4, <1>5
<1> QED
  BY <1>1, <1>2, <1>6 DEF w

\* On the Z family, where structures have names of their own.
LEMMA WarnedOnZ ==
  ASSUME IInv, pc = "done", is_z, PlainMemory,
         NEW s \in 1 .. count, NEW t \in 1 .. count, ~ IsOverlay(s), ~ IsOverlay(t),
         Before(s, t), seg[t].start < EndOf(s)
  PROVE  warnings > 0
<1>1. PICK n \in Nat : n = count /\ n = N
  BY TypeFacts DEF IInv, N
<1>2. TypeOK /\ Copies /\ Listed(n) /\ Checks /\ LongRange \in Nat /\ Starts(n)
  <2>1. Starts(N)
    BY TypeFacts DEF IInv
  <2> QED
    BY <1>1, <2>1, ArchAssumption DEF IInv, Straight, Ring
<1>3. ASSUME NEW v \in 1 .. n
      PROVE  /\ seg[v].start \in Nat /\ seg[v].start <= LongRange
             /\ EndOf(v) = seg[v].start + seg[v].length /\ seg[v].length > 0 /\ seg[v].length \in Int
  <2>1. BelowTop(v) /\ seg[v].length > 0 /\ v \in Seg
    BY <1>1, <1>2, TypeFacts DEF PlainMemory
  <2>2. seg[v].start \in Nat /\ seg[v].start < LongRange /\ EndOf(v) = seg[v].start + seg[v].length
    BY <1>1, <1>2, <2>1, ExactEnd
  <2> QED
    BY <1>2, <2>1, <2>2, TypeFacts
<1>4. ASSUME NEW v \in 1 .. n, NEW w \in 1 .. n, Before(v, w), seg[v].mem_next = w,
             ~ IsOverlay(w), EndOf(v) > seg[w].start
      PROVE  warnings > 0
  BY <1>1, <1>2, <1>4 DEF Checks, Warned
<1> DEFINE Z == {v \in 1 .. n : Before(s, v) /\ ~ IsOverlay(v)}
<1>5. Z \in SUBSET (1 .. n) /\ Z # {} /\ t \in Z
  BY <1>1
<1>6. PICK z \in Z : \A v \in Z : v = z \/ Before(z, v)
  <2> HIDE DEF Z
  <2> QED
    BY <1>3, <1>5, FirstOf
<1>7. z \in 1 .. n /\ Before(s, z) /\ ~ IsOverlay(z) /\ s \in 1 .. n
  BY <1>1, <1>6
<1>8. \A v \in 1 .. n : Before(s, v) /\ Before(v, z) => IsOverlay(v)
  <2>1. \A v \in Z : ~ Before(v, z)
    BY <1>2, <1>6, Ordered
  <2> QED
    BY <2>1
<1>9. EndOf(s) > seg[z].start
  <2>1. seg[z].start <= seg[t].start
    BY <1>2, <1>3, <1>5, <1>6, Ordered
  <2>2. seg[z].start \in Int /\ seg[t].start \in Int /\ EndOf(s) \in Int
    BY <1>1, <1>3, <1>7
  <2> QED
    BY <2>1, <2>2
<1> HIDE DEF Z
<1>10. PICK y \in 1 .. n : Before(y, z) /\ seg[y].mem_next = z /\ (s = y \/ Before(s, y))
  BY <1>2, <1>3, <1>7, Neighbour
<1>11. CASE s = y
  BY <1>4, <1>7, <1>9, <1>10, <1>11
<1>12. CASE s # y
  <2>1. Before(s, y) /\ IsOverlay(y)
    BY <1>8, <1>10, <1>12
  <2>2. PICK m \in 1 .. n : /\ ~ IsOverlay(m) /\ Before(m, y)
                            /\ seg[m].start = seg[y].start /\ seg[m].length = seg[y].length
    BY <1>1, <1>2, <2>1, Origin
  <2>3. EndOf(m) = EndOf(y)
    BY <1>3, <2>2
  <2>4. CASE m = s
    BY <1>4, <1>7, <1>9, <1>10, <2>3, <2>4
  <2>5. CASE m # s
    <3>1. ~ Before(s, m)
      <4>1. Before(m, z)
        BY <1>2, <1>7, <1>10, <2>2, Ordered
      <4> QED
        BY <1>8, <2>2, <4>1
    <3>2. Before(m, s)
      BY <1>2, <1>7, <2>5, <3>1, Ordered
    <3>3. PICK x \in 1 .. n : Before(x, s) /\ seg[x].mem_next = s /\ (m = x \/ Before(m, x))
      BY <1>2, <1>3, <1>7, <3>2, Neighbour
    <3>4. seg[x].start = seg[s].start
      <4>1. /\ seg[m].start <= seg[x].start /\ seg[x].start <= seg[s].start
            /\ seg[s].start <= seg[y].start
        BY <1>2, <1>3, <1>7, <2>1, <3>3, Ordered
      <4>2. seg[m].start \in Int /\ seg[x].start \in Int /\ seg[s].start \in Int
        BY <1>3, <1>7
      <4> QED
        BY <2>2, <4>1, <4>2
    <3>5. EndOf(x) > seg[s].start
      BY <1>3, <3>4
    <3> QED
      BY <1>4, <1>7, <3>3, <3>5
  <2> QED
    BY <2>4, <2>5
<1> QED
  BY <1>11, <1>12

\* For any directives, memory_check warns when two segments of the same memory
\* overlap, of which the one in front does not reach the last address; on the Z
\* family, when neither is an overlay, and structures have names of their own,
\* are not empty and none reaches the last address.
THEOREM OverlapsWarned == Spec => []OverlapWarned
<1>1. IInv => OverlapWarned
  <2> SUFFICES ASSUME IInv, pc = "done", NEW s \in 1 .. count, NEW t \in 1 .. count,
                      Before(s, t), Overlap(s, t), SameSpace(s, t), BelowTop(s),
                      is_z => ~ IsOverlay(s) /\ ~ IsOverlay(t) /\ PlainMemory
               PROVE  warnings > 0
    BY DEF OverlapWarned
  <2>1. TypeOK /\ Checks
    BY DEF IInv, Straight, Ring
  <2>2. seg[t].start < EndOf(s)
    BY <2>1, ExactEnd DEF Overlap
  <2>3. CASE is_z
    BY <2>2, <2>3, WarnedOnZ
  <2>4. CASE ~ is_z
    <3>1. EndOf(s) \in Nat /\ seg[t].start \in Nat
      <4>1. seg[s].length \in Nat /\ s \in Seg /\ t \in Seg
        BY <2>1, TypeFacts
      <4>2. seg[s].start \in Nat /\ EndOf(s) = seg[s].start + seg[s].length
        BY <2>1, ExactEnd
      <4>3. seg[t].start \in Nat
        BY <2>1, <4>1, TypeFacts
      <4> QED
        BY <4>1, <4>2, <4>3
    <3>2. seg[t].type = seg[s].type /\ EndOf(s) > seg[t].start
      BY <2>2, <2>4, <3>1 DEF SameSpace
    <3> QED
      BY <2>1, <2>4, <3>2 DEF Checks, Warned
  <2> QED
    BY <2>3, <2>4
<1> QED
  BY <1>1, SpecIInv, PTL
=============================================================================
