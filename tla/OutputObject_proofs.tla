------------------------ MODULE OutputObject_proofs ------------------------
(***************************************************************************)
(* Proofs about OutputObject and its two parts, OutputSymbols and SlotVec. *)
(*                                                                         *)
(* The number of an entry is where the entries of its file begin and how   *)
(* many before it are kept (Count); that of a global symbol is the place   *)
(* behind all files and how much the symbols before it take (Units).  The  *)
(* invariant says of every count, number and line made so far that it is   *)
(* the one these two give.                                                 *)
(***************************************************************************)
EXTENDS OutputObject, FiniteSetTheorems, TLAPS

\* The entries a file writes by itself: its functions, and what else -x leaves.
Kept(t, x, j) ==
  LET e == Owner(t, j)
  IN IF e.class = "ext" THEN Function(e) ELSE x => e.class \in {"stat", "file"}
Count(t, x, m) == Cardinality({j \in 1 .. (m - 1) : Kept(t, x, j)})

\* What the globals before m take: an entry each, and its auxiliary entry.
Units(tab, m) ==
  Cardinality({u \in (1 .. (m - 1)) \X {0, 1} : ~tab[u[1]].local_flag /\ u[2] <= tab[u[1]].numaux})

\* The numbers in the output of an entry of a file and of a global symbol.
Number(g, j)    == symbol_index[g] + Count(files[g], xflag, j)
Base            == symbol_index[Len(files)] + local_syms[Len(files)]
GlobalNumber(k) == Base + Units(table, k)

\* How far the passes are.
Early        == pc \in {"pass1", "index", "update"}
Late         == pc \in {"global", "fatal", "done"}
Read(g, j)   == pc # "pass1" \/ g < f \/ (g = f /\ j < n)
Passed(g, j) == Late \/ (pc = "local" /\ (g < f \/ (g = f /\ j < n)))
Updated(k)   == pc \notin {"pass1", "index"} /\ (pc = "update" => k < n)

\* A symbol is defined by the entry of its name that has a section.
Defines(g, j, name) ==
  files[g][j].class = "ext" /\ files[g][j].name = name /\ files[g][j].scnum # 0

TagOf(g, tagndx) == IF tagndx = 0 \/ xflag THEN 0 ELSE tagndx + symbol_index[g]

\* The types of what is written and of the table.
Name == Nat \X Nat \X {"sym", "aux"}
Line == [of : Name, tagndx : Nat, endndx : Nat, value : Nat]
TableSymbol == [name : Nat, scnum : Int, file : Nat, numaux : {0, 1}, aux : AuxEntry,
                local_flag : BOOLEAN, sym_index : Nat]

\* Every variable has its type; an entry that is next begins a symbol.
Typed ==
  /\ pc \in {"pass1", "index", "update", "local", "global", "fatal", "done"}
  /\ xflag \in BOOLEAN /\ files \in Links
  /\ f \in File /\ n \in Nat \ {0} /\ (pc = "update" => f = 1)
  /\ pc \in {"pass1", "local"} => n <= Len(files[f]) + 1 /\ Begins(files[f], n)
  /\ local_syms \in [File -> Nat] /\ symbol_index \in [File -> Nat]
  /\ index \in Nat /\ num_output_syms \in Nat /\ total_output_symbols \in Nat
  /\ table \in Seq(TableSymbol) /\ out \in Seq(Line)
  /\ pc \in {"update", "global", "fatal", "done"} => n <= Len(table) + 1
  /\ lastfile \in Int /\ nextfile \in Int

\* Pass 1 has counted the entries that are kept, as far as it has come.
Reached(g) == IF pc # "pass1" \/ g < f THEN Len(files[g]) + 1 ELSE IF g = f THEN n ELSE 1

LocalCounts == \A g \in File : local_syms[g] = Count(files[g], xflag, Reached(g))

\* Every global name that was read has a symbol, and one only.
TableKnows ==
  /\ \A k, l \in DOMAIN table : table[k].name = table[l].name => k = l
  /\ \A g \in File : \A j \in DOMAIN files[g] :
       files[g][j].class = "ext" /\ Read(g, j) =>
         \E k \in DOMAIN table : table[k].name = files[g][j].name

\* A symbol has what its definition says; a function its place in the file, and
\* after the update its number; a tag is moved when the definition is passed.
TableDefined ==
  \A k \in DOMAIN table : \A g \in File : \A j \in DOMAIN files[g] :
    Read(g, j) /\ Defines(g, j, table[k].name) =>
      LET e == files[g][j] IN
      /\ table[k].scnum = e.scnum /\ table[k].numaux = e.numaux
      /\ table[k].local_flag <=> Function(e)
      /\ Function(e) =>
           /\ table[k].file = g
           /\ table[k].sym_index =
                IF Updated(k) THEN Number(g, j) ELSE Count(files[g], xflag, j)
      /\ e.numaux = 1 =>
           /\ table[k].aux.endndx = files[g][j + 1].endndx
           /\ table[k].aux.tagndx =
                IF ~Function(e) /\ Passed(g, j) THEN TagOf(g, files[g][j + 1].tagndx)
                                                ELSE files[g][j + 1].tagndx

\* A symbol without a definition takes one entry.
TableUndefined ==
  \A k \in DOMAIN table :
    (\A g \in File : \A j \in DOMAIN files[g] : Read(g, j) => ~Defines(g, j, table[k].name))
      => table[k].scnum = 0 /\ table[k].numaux = 0 /\ ~table[k].local_flag

\* The update has numbered the globals as they will be written.
GlobalNumbers ==
  \A k \in DOMAIN table :
    Updated(k) /\ ~table[k].local_flag => table[k].sym_index = GlobalNumber(k)

\* Each file begins where the one before ends.
Indexed == IF pc = "pass1" THEN {} ELSE IF pc = "index" THEN 1 .. (f - 1) ELSE File

Bases ==
  /\ \A g \in Indexed : g = 1 => symbol_index[g] = 0
  /\ \A g \in Indexed : g + 1 \in Indexed => symbol_index[g + 1] = symbol_index[g] + local_syms[g]
  /\ \A g, h \in Indexed : g < h => symbol_index[g] + local_syms[g] <= symbol_index[h]
  /\ pc = "index" => index = IF f = 1 THEN 0 ELSE symbol_index[f - 1] + local_syms[f - 1]

\* The counters agree with what has been written so far.
Lengths ==
  /\ Early => out = << >> /\ num_output_syms = 0 /\ lastfile = -1 /\ nextfile = -1 /\ slots = {}
  /\ pc = "pass1" => index = 0
  /\ pc = "update" => index = GlobalNumber(n)
  /\ ~Early => total_output_symbols = GlobalNumber(Len(table) + 1)
  /\ pc = "local" =>
       /\ index = Number(f, n) /\ Len(out) = index
       /\ num_output_syms = symbol_index[f]
  /\ Late => Len(out) = num_output_syms /\ num_output_syms = GlobalNumber(n)
  /\ pc = "done" => n = Len(table) + 1

\* The line of an entry is at its number, and says what it should.
Right(g, j) ==
  LET line == out[Number(g, j) + 1] IN
  IF files[g][j].class # "aux" THEN line.of = Of(g, j)
  ELSE LET e   == files[g][j - 1]
           aux == files[g][j] IN
       /\ line.of = AuxOf(Of(g, j - 1))
       /\ line.tagndx = IF HasTag(e) THEN TagOf(g, aux.tagndx) ELSE aux.tagndx
       /\ aux.endndx = 0 \/ ~HasEnd(e) => line.endndx = aux.endndx
       /\ HasEnd(e) /\ aux.endndx # 0 /\ ~xflag => line.endndx = aux.endndx + symbol_index[g]
       /\ HasEnd(e) /\ aux.endndx # 0 /\ xflag /\ e.class = "ext"
            => line.endndx = Number(g, j - 1) + 2

\* What is passed and kept has been written, and nothing else.
LocalsWritten ==
  /\ \A g \in File : \A j \in DOMAIN files[g] :
       Passed(g, j) /\ Kept(files[g], xflag, j) => Right(g, j)
  /\ \A k \in DOMAIN out : k <= Base =>
       \E g \in File : \E j \in DOMAIN files[g] :
         Passed(g, j) /\ Kept(files[g], xflag, j) /\ k = Number(g, j) + 1

\* So have the globals.
GlobalsWritten ==
  Late =>
  /\ \A k \in DOMAIN table : k < n /\ ~table[k].local_flag =>
       /\ out[GlobalNumber(k) + 1].of = <<0, table[k].name, "sym">>
       /\ table[k].numaux = 1 =>
            LET line == out[GlobalNumber(k) + 2] IN
            /\ line.of = <<0, table[k].name, "aux">>
            /\ line.tagndx = table[k].aux.tagndx /\ line.endndx = table[k].aux.endndx
  /\ \A i \in DOMAIN out : i > Base =>
       \E k \in DOMAIN table : \E d \in {0, 1} :
         k < n /\ ~table[k].local_flag /\ d <= table[k].numaux /\ i = GlobalNumber(k) + 1 + d

\* A slot is that of a symbol that was passed, and has its number.
SlotsGiven ==
  \A s \in slots :
    /\ s.file \in File /\ s.old \in DOMAIN files[s.file] /\ Passed(s.file, s.old)
    /\ LET e == files[s.file][s.old] IN
       /\ e.class \in {"ext", "stat"}
       /\ e.class = "stat" => s.new = Number(s.file, s.old)
       /\ e.class = "ext" =>
            \A k \in DOMAIN table : table[k].name = e.name => s.new = table[k].sym_index

\* The values of the .file entries, but of the last one, are right; the last one
\* will be corrected.
FileLine(k) == \E g \in File : \E j \in DOMAIN files[g] :
                 files[g][j].class = "file" /\ out[k].of = Of(g, j)

Chain ==
  /\ \A k \in DOMAIN out : FileLine(k) /\ k # lastfile + 1 =>
       LET next == out[k].value IN
       /\ next >= k
       /\ (next + 1 \in DOMAIN out /\ FileLine(next + 1)) \/ (Late /\ next = Base)
       /\ \A l \in (k + 1) .. next : ~FileLine(l)
  /\ lastfile # -1 =>
       /\ lastfile + 1 \in DOMAIN out /\ FileLine(lastfile + 1)
       /\ \A k \in DOMAIN out : k > lastfile + 1 => ~FileLine(k)
       /\ out[lastfile + 1].value = nextfile \/ nextfile <= lastfile
  /\ (Late /\ \E k \in DOMAIN table : k < n /\ ~table[k].local_flag) => lastfile = -1
  /\ pc = "local" => nextfile <= symbol_index[IF f + 1 \in File THEN f + 1 ELSE f]

\* The inductive invariant.
IInv ==
  /\ Typed /\ LocalCounts /\ TableKnows /\ TableDefined /\ TableUndefined /\ GlobalNumbers
  /\ Bases /\ Lengths /\ LocalsWritten /\ GlobalsWritten /\ SlotsGiven /\ Chain

-----------------------------------------------------------------------------
(* Counting.                                                               *)

\* Adding one to the numbers below m.
LEMMA CountStep ==
  ASSUME NEW t, NEW x, NEW m \in Nat \ {0}
  PROVE  /\ Count(t, x, m) \in Nat
         /\ Count(t, x, 1) = 0
         /\ Kept(t, x, m) => Count(t, x, m + 1) = Count(t, x, m) + 1
         /\ ~Kept(t, x, m) => Count(t, x, m + 1) = Count(t, x, m)
<1> DEFINE P(k) == {j \in 1 .. (k - 1) : Kept(t, x, j)}
<1>1. IsFiniteSet(P(m))
  <2>1. IsFiniteSet(1 .. (m - 1))
    BY FS_Interval
  <2> QED
    BY <2>1, FS_Subset
<1>2. Cardinality(P(m)) \in Nat
  BY <1>1, FS_CardinalityType
<1>3. P(1) = {}
  OBVIOUS
<1>4. ASSUME Kept(t, x, m) PROVE P(m + 1) = P(m) \cup {m}
  BY <1>4
<1>5. ASSUME ~Kept(t, x, m) PROVE P(m + 1) = P(m)
  BY <1>5
<1>6. m \notin P(m)
  OBVIOUS
<1>7. Cardinality(P(m) \cup {m}) = Cardinality(P(m)) + 1
  BY <1>1, <1>6, FS_AddElement
<1>8. Cardinality(P(1)) = 0
  BY <1>3, FS_EmptySet
<1> QED
  BY <1>2, <1>4, <1>5, <1>7, <1>8 DEF Count

\* Between two numbers there are the kept entries from one up to the other.
LEMMA CountRange ==
  ASSUME NEW t, NEW x, NEW m \in Nat \ {0}, NEW k \in Nat, m <= k
  PROVE  /\ Count(t, x, m) \in Nat /\ Count(t, x, k) \in Nat
         /\ Count(t, x, m) <= Count(t, x, k)
         /\ Count(t, x, k) <= Count(t, x, m) + (k - m)
         /\ (\A j \in m .. (k - 1) : Kept(t, x, j)) => Count(t, x, k) = Count(t, x, m) + (k - m)
         /\ (\A j \in m .. (k - 1) : ~Kept(t, x, j)) => Count(t, x, k) = Count(t, x, m)
<1> DEFINE P == {j \in 1 .. (m - 1) : Kept(t, x, j)}
           Q == {j \in m .. (k - 1) : Kept(t, x, j)}
           R == {j \in 1 .. (k - 1) : Kept(t, x, j)}
<1>1. IsFiniteSet(1 .. (m - 1)) /\ IsFiniteSet(m .. (k - 1)) /\ Cardinality(m .. (k - 1)) = k - m
  BY FS_Interval
<1>2. IsFiniteSet(P)
  BY <1>1, FS_Subset
<1>3. IsFiniteSet(Q) /\ Cardinality(Q) <= k - m
  <2>1. Q \subseteq m .. (k - 1)
    OBVIOUS
  <2> QED
    BY <1>1, <2>1, FS_Subset
<1>4. P \cap Q = {} /\ R = P \cup Q
  OBVIOUS
<1>5. Cardinality(P \cap Q) = 0
  BY <1>4, FS_EmptySet
<1>6. Cardinality(P \cup Q) = Cardinality(P) + Cardinality(Q) - Cardinality(P \cap Q)
  BY <1>2, <1>3, FS_Union
<1>7. Cardinality(P) \in Nat /\ Cardinality(Q) \in Nat
  BY <1>2, <1>3, FS_CardinalityType
<1>8. ASSUME \A j \in m .. (k - 1) : Kept(t, x, j) PROVE Cardinality(Q) = k - m
  <2>1. Q = m .. (k - 1)
    BY <1>8
  <2> QED
    BY <1>1, <2>1
<1>9. ASSUME \A j \in m .. (k - 1) : ~Kept(t, x, j) PROVE Cardinality(Q) = 0
  <2>1. Q = {}
    BY <1>9
  <2> QED
    BY <2>1, FS_EmptySet
<1>11. Count(t, x, m) = Cardinality(P) /\ Count(t, x, k) = Cardinality(R)
  BY DEF Count
<1> HIDE DEF P, Q, R
<1>10. Cardinality(R) = Cardinality(P) + Cardinality(Q)
  BY <1>4, <1>5, <1>6, <1>7
<1> QED
  BY <1>3, <1>7, <1>8, <1>9, <1>10, <1>11

\* Entries that are all kept or all left out.
LEMMA CountAlike ==
  ASSUME NEW t, NEW x, NEW m \in Nat \ {0}, NEW k \in Nat, m <= k,
         \A i \in m .. (k - 1) : Kept(t, x, i) <=> Kept(t, x, m)
  PROVE  Count(t, x, k) = Count(t, x, m) + (IF Kept(t, x, m) THEN k - m ELSE 0)
<1>1. CASE Kept(t, x, m)
  <2>1. Count(t, x, k) = Count(t, x, m) + (k - m)
    BY <1>1, CountRange, Zenon
  <2> QED
    BY <1>1, <2>1
<1>2. CASE ~Kept(t, x, m)
  <2>1. Count(t, x, k) = Count(t, x, m) /\ Count(t, x, m) \in Nat
    BY <1>2, CountRange, Zenon
  <2> QED
    BY <1>2, <2>1
<1> QED
  BY <1>1, <1>2

\* A kept entry has a number below those of the entries behind it.
LEMMA CountKept ==
  ASSUME NEW t, NEW x, NEW m \in Nat \ {0}, NEW k \in Nat, m < k, Kept(t, x, m)
  PROVE  Count(t, x, m) \in Nat /\ Count(t, x, k) \in Nat /\ Count(t, x, m) < Count(t, x, k)
<1>1. Count(t, x, m + 1) = Count(t, x, m) + 1 /\ Count(t, x, m) \in Nat
  BY CountStep
<1>2. Count(t, x, m + 1) <= Count(t, x, k) /\ Count(t, x, k) \in Nat
  BY CountRange
<1> QED
  BY <1>1, <1>2

\* The numbers of auxiliary entries.
LEMMA TwoFinite == IsFiniteSet({0, 1})
<1>1. IsFiniteSet({0})
  BY FS_Singleton
<1>2. IsFiniteSet({0} \cup {1})
  BY <1>1, FS_AddElement
<1> QED
  BY <1>2

\* No symbols have no units.
LEMMA UnitsOfNone == ASSUME NEW tab PROVE Units(tab, 1) = 0
<1>1. {u \in (1 .. (1 - 1)) \X {0, 1} : ~tab[u[1]].local_flag /\ u[2] <= tab[u[1]].numaux} = {}
  OBVIOUS
<1> QED
  BY <1>1, FS_EmptySet DEF Units

\* The units of one more symbol.
LEMMA UnitsStep ==
  ASSUME NEW tab, NEW m \in Nat \ {0}, tab[m].numaux \in {0, 1}
  PROVE  /\ Units(tab, m) \in Nat
         /\ Units(tab, 1) = 0
         /\ tab[m].local_flag => Units(tab, m + 1) = Units(tab, m)
         /\ ~tab[m].local_flag => Units(tab, m + 1) = Units(tab, m) + 1 + tab[m].numaux
<1> DEFINE U(k) == {u \in (1 .. (k - 1)) \X {0, 1} : ~tab[u[1]].local_flag /\ u[2] <= tab[u[1]].numaux}
<1>1. IsFiniteSet(U(m))
  <2>1. IsFiniteSet(1 .. (m - 1))
    <3>1. 1 \in Int /\ m - 1 \in Int
      OBVIOUS
    <3> QED
      BY <3>1, FS_Interval
  <2>2. IsFiniteSet((1 .. (m - 1)) \X {0, 1})
    BY <2>1, TwoFinite, FS_Product
  <2>3. U(m) \subseteq (1 .. (m - 1)) \X {0, 1}
    OBVIOUS
  <2> QED
    BY <2>2, <2>3, FS_Subset
<1>2. Cardinality(U(m)) \in Nat
  BY <1>1, FS_CardinalityType
<1>3. U(1) = {}
  OBVIOUS
<1>4. Cardinality(U(1)) = 0
  BY <1>3, FS_EmptySet
<1>5. ASSUME tab[m].local_flag PROVE U(m + 1) = U(m)
  BY <1>5
<1>6. ASSUME ~tab[m].local_flag, tab[m].numaux = 0 PROVE U(m + 1) = U(m) \cup {<<m, 0>>}
  BY <1>6
<1>7. ASSUME ~tab[m].local_flag, tab[m].numaux = 1
      PROVE  U(m + 1) = (U(m) \cup {<<m, 0>>}) \cup {<<m, 1>>}
  BY <1>7
<1>8. <<m, 0>> \notin U(m) /\ <<m, 1>> \notin U(m) \cup {<<m, 0>>}
  OBVIOUS
<1>9. /\ IsFiniteSet(U(m) \cup {<<m, 0>>})
      /\ Cardinality(U(m) \cup {<<m, 0>>}) = Cardinality(U(m)) + 1
  BY <1>1, <1>8, FS_AddElement
<1>10. Cardinality((U(m) \cup {<<m, 0>>}) \cup {<<m, 1>>}) = Cardinality(U(m) \cup {<<m, 0>>}) + 1
  BY <1>8, <1>9, FS_AddElement
<1>11. /\ Units(tab, m) = Cardinality(U(m)) /\ Units(tab, 1) = Cardinality(U(1))
       /\ Units(tab, m + 1) = Cardinality(U(m + 1))
  BY DEF Units
<1> HIDE DEF U
<1> QED
  BY <1>2, <1>4, <1>5, <1>6, <1>7, <1>9, <1>10, <1>11

\* The units of fewer symbols are no more.
LEMMA UnitsMonotone ==
  ASSUME NEW tab, NEW m \in Nat \ {0}, NEW k \in Nat, m <= k
  PROVE  Units(tab, m) \in Nat /\ Units(tab, k) \in Nat /\ Units(tab, m) <= Units(tab, k)
<1> DEFINE U(i) == {u \in (1 .. (i - 1)) \X {0, 1} : ~tab[u[1]].local_flag /\ u[2] <= tab[u[1]].numaux}
<1>1. IsFiniteSet(U(k))
  <2>1. IsFiniteSet(1 .. (k - 1))
    BY FS_Interval
  <2>2. IsFiniteSet((1 .. (k - 1)) \X {0, 1})
    BY <2>1, TwoFinite, FS_Product
  <2>3. U(k) \subseteq (1 .. (k - 1)) \X {0, 1}
    OBVIOUS
  <2> QED
    BY <2>2, <2>3, FS_Subset
<1>2. U(m) \subseteq U(k)
  OBVIOUS
<1>3. IsFiniteSet(U(m)) /\ Cardinality(U(m)) <= Cardinality(U(k))
  BY <1>1, <1>2, FS_Subset
<1>4. Cardinality(U(m)) \in Nat /\ Cardinality(U(k)) \in Nat
  BY <1>1, <1>3, FS_CardinalityType
<1>5. Units(tab, m) = Cardinality(U(m)) /\ Units(tab, k) = Cardinality(U(k))
  BY DEF Units
<1> QED
  BY <1>3, <1>4, <1>5

\* Only what is global and what has an auxiliary entry matters.
LEMMA UnitsSame ==
  ASSUME NEW tab, NEW new, NEW m \in Nat,
         \A k \in 1 .. (m - 1) : /\ new[k].local_flag <=> tab[k].local_flag
                                 /\ new[k].numaux = tab[k].numaux
  PROVE  Units(new, m) = Units(tab, m)
<1>1. {u \in (1 .. (m - 1)) \X {0, 1} : ~new[u[1]].local_flag /\ u[2] <= new[u[1]].numaux}
        = {u \in (1 .. (m - 1)) \X {0, 1} : ~tab[u[1]].local_flag /\ u[2] <= tab[u[1]].numaux}
  OBVIOUS
<1> QED
  BY <1>1 DEF Units
-----------------------------------------------------------------------------
(* What the assembler writes.                                              *)

\* A link has files, and a file a sequence of entries.
LEMMA LinkShape ==
  ASSUME NEW link \in Links
  PROVE  /\ Len(link) \in Nat \ {0} /\ DOMAIN link = 1 .. Len(link)
         /\ \A g \in DOMAIN link : Len(link[g]) \in Nat /\ DOMAIN link[g] = 1 .. Len(link[g])
<1>1. link \in Seq(Seq(SymbolEntry \cup AuxEntry)) /\ link # << >>
  BY LinkAssumption
<1> QED
  BY <1>1

\* The parts of an entry, and how symbols and auxiliary entries stand together.
LEMMA EntryShape ==
  ASSUME NEW link \in Links, NEW g \in DOMAIN link, NEW j \in DOMAIN link[g]
  PROVE  LET e == link[g][j] IN
         /\ e.class # "aux" =>
              /\ e.class \in {"ext", "stat", "file", "tag"} \cup Debug
              /\ e.name \in Nat /\ e.scnum \in Int /\ e.fcn \in BOOLEAN /\ e.numaux \in {0, 1}
              /\ e.numaux = 1 => j + 1 \in DOMAIN link[g] /\ link[g][j + 1].class = "aux"
              /\ j + e.numaux \in DOMAIN link[g] /\ Begins(link[g], j + 1 + e.numaux)
         /\ e.class = "aux" =>
              /\ e \in AuxEntry /\ e.tagndx \in Nat /\ e.endndx \in Nat
              /\ j - 1 \in DOMAIN link[g] /\ link[g][j - 1].class # "aux" /\ link[g][j - 1].numaux = 1
<1> DEFINE t == link[g]
<1>1. t \in Seq(SymbolEntry \cup AuxEntry) /\ Table(t)
  BY LinkAssumption
<1>2. t[j] \in SymbolEntry \cup AuxEntry /\ DOMAIN t = 1 .. Len(t) /\ Len(t) \in Nat
  BY <1>1
<1>3. /\ t[j].class = "aux" => j - 1 \in DOMAIN t /\ t[j - 1].class # "aux" /\ t[j - 1].numaux = 1
      /\ t[j].class # "aux" /\ t[j].numaux = 1 => j + 1 \in DOMAIN t /\ t[j + 1].class = "aux"
  BY <1>1 DEF Table
<1>4. ASSUME t[j].class # "aux"
      PROVE  /\ t[j].class \in {"ext", "stat", "file", "tag"} \cup Debug
             /\ t[j].name \in Nat /\ t[j].scnum \in Int /\ t[j].fcn \in BOOLEAN /\ t[j].numaux \in {0, 1}
  <2>1. t[j] \in SymbolEntry
    BY <1>2, <1>4 DEF AuxEntry
  <2> QED
    BY <2>1 DEF SymbolEntry
<1>5. ASSUME t[j].class = "aux" PROVE t[j] \in AuxEntry /\ t[j].tagndx \in Nat /\ t[j].endndx \in Nat
  <2>1. t[j] \in AuxEntry
    BY <1>2, <1>5 DEF SymbolEntry, Debug
  <2> QED
    BY <2>1 DEF AuxEntry
<1>6. ASSUME t[j].class # "aux"
      PROVE  j + t[j].numaux \in DOMAIN t /\ Begins(t, j + 1 + t[j].numaux)
  <2>1. CASE t[j].numaux = 0
    <3>1. ASSUME j + 1 \in DOMAIN t PROVE t[j + 1].class # "aux"
      <4>1. SUFFICES ASSUME t[j + 1].class = "aux" PROVE FALSE
        OBVIOUS
      <4>2. t[(j + 1) - 1].numaux = 1
        BY <1>1, <3>1, <4>1 DEF Table
      <4> QED
        BY <1>2, <2>1, <4>2
    <3> QED
      BY <1>2, <2>1, <3>1 DEF Begins
  <2>2. CASE t[j].numaux = 1
    <3>1. j + 1 \in DOMAIN t /\ t[j + 1].class = "aux"
      BY <1>3, <1>6, <2>2
    <3>2. ASSUME j + 2 \in DOMAIN t PROVE t[j + 2].class # "aux"
      <4>1. SUFFICES ASSUME t[j + 2].class = "aux" PROVE FALSE
        OBVIOUS
      <4>2. t[(j + 2) - 1].class # "aux"
        BY <1>1, <3>2, <4>1 DEF Table
      <4> QED
        BY <1>2, <3>1, <4>2
    <3> QED
      BY <1>2, <2>2, <3>1, <3>2 DEF Begins
  <2> QED
    BY <1>4, <1>6, <2>1, <2>2
<1> QED
  BY <1>3, <1>4, <1>5, <1>6

\* The numbers in an auxiliary entry.
LEMMA AuxShape ==
  ASSUME NEW link \in Links, NEW g \in DOMAIN link, NEW j \in DOMAIN link[g],
         link[g][j].class # "aux", link[g][j].numaux = 1
  PROVE  Described(link[g], j, link[g][j + 1])
BY LinkAssumption

\* Definitions and references.
LEMMA DefinedOnce ==
  ASSUME NEW link \in Links, NEW g \in DOMAIN link, NEW j \in DOMAIN link[g], link[g][j].class = "ext"
  PROVE  /\ link[g][j].scnum = 0 => ~Function(link[g][j]) /\ link[g][j].numaux = 0
         /\ Function(link[g][j]) => link[g][j].scnum > 0
         /\ \A h \in DOMAIN link : \A k \in DOMAIN link[h] :
              /\ link[g][j].scnum # 0 /\ link[h][k].class = "ext" /\ link[h][k].scnum # 0
              /\ link[h][k].name = link[g][j].name
              => h = g /\ k = j
<1>1. link[g][j].scnum \in Int /\ link[g][j].fcn \in BOOLEAN
  BY EntryShape
<1>2. /\ link[g][j].scnum = 0 => ~link[g][j].fcn /\ link[g][j].numaux = 0
      /\ link[g][j].fcn => link[g][j].scnum >= -1
  BY LinkAssumption
<1>3. ASSUME NEW h \in DOMAIN link, NEW k \in DOMAIN link[h],
             link[g][j].scnum # 0, link[h][k].class = "ext", link[h][k].scnum # 0,
             link[h][k].name = link[g][j].name
      PROVE  h = g /\ k = j
  BY <1>3, LinkAssumption
<1> QED
  BY <1>1, <1>2, <1>3 DEF Function

\* Symbol and auxiliary entry are kept together.
LEMMA OwnEntry ==
  ASSUME NEW link \in Links, NEW g \in DOMAIN link, NEW j \in DOMAIN link[g],
         link[g][j].class # "aux", NEW x \in BOOLEAN
  PROVE  /\ Owner(link[g], j) = link[g][j]
         /\ link[g][j].numaux = 1 => Owner(link[g], j + 1) = link[g][j]
         /\ link[g][j].numaux = 1 => (Kept(link[g], x, j + 1) <=> Kept(link[g], x, j))
         /\ Kept(link[g], x, j) <=> IF link[g][j].class = "ext" THEN Function(link[g][j])
                                    ELSE x => link[g][j].class \in {"stat", "file"}
<1>1. Owner(link[g], j) = link[g][j]
  BY DEF Owner
<1>2. ASSUME link[g][j].numaux = 1 PROVE Owner(link[g], j + 1) = link[g][j]
  <2>1. link[g][j + 1].class = "aux" /\ j \in Nat
    BY <1>2, EntryShape, LinkShape
  <2>2. (j + 1) - 1 = j
    BY <2>1
  <2> QED
    BY <2>1, <2>2 DEF Owner
<1> QED
  BY <1>1, <1>2 DEF Kept

\* An entry of the table, as an element of links.
LEMMA Here ==
  ASSUME Typed
  PROVE  /\ files \in Links /\ xflag \in BOOLEAN /\ File = 1 .. Len(files) /\ Len(files) \in Nat \ {0}
         /\ f \in File /\ n \in Nat \ {0}
         /\ \A g \in File : Len(files[g]) \in Nat /\ DOMAIN files[g] = 1 .. Len(files[g])
         /\ pc \in {"pass1", "local"} /\ n <= Len(files[f]) =>
              /\ n \in DOMAIN files[f] /\ Entry.class # "aux"
BY LinkShape DEF Typed, File, Begins, Entry

\* What pass 1 passes over with an entry: nothing that is global, and as many
\* entries as will be kept are counted.
LEMMA NextEntryShape ==
  ASSUME Typed, pc = "pass1", n <= Len(files[f])
  PROVE  /\ NextEntry \in (n + 1) .. (Len(files[f]) + 1)
         /\ Begins(files[f], NextEntry)
         /\ \A j \in (n + 1) .. (NextEntry - 1) : files[f][j].class # "ext"
         /\ Count(files[f], xflag, NextEntry) = Count(files[f], xflag, n) + Counted
         /\ Counted \in Nat
<1> DEFINE t == files[f]
<1>1. /\ files \in Links /\ f \in DOMAIN files /\ n \in DOMAIN t /\ xflag \in BOOLEAN
      /\ DOMAIN t = 1 .. Len(t) /\ Len(t) \in Nat /\ n \in Nat \ {0}
      /\ Entry = t[n] /\ Entry.class # "aux"
  BY Here DEF File, Entry
<1>2. /\ Entry.class \in {"ext", "stat", "file", "tag"} \cup Debug /\ Entry.numaux \in {0, 1}
      /\ Entry.numaux = 1 => n + 1 \in DOMAIN t /\ t[n + 1].class = "aux"
      /\ n + Entry.numaux \in DOMAIN t /\ Begins(t, n + 1 + Entry.numaux)
  BY <1>1, EntryShape
<1>3. /\ Aux = << >> <=> Entry.numaux = 0
      /\ Entry.numaux = 1 => Aux = << t[n + 1] >> /\ Aux[1] = t[n + 1]
  BY <1>2 DEF Aux
<1>4. CASE Entry.class = "tag" /\ Entry.numaux = 1
  <2> DEFINE aux == t[n + 1]
  <2>1. Described(t, n, aux) /\ aux.endndx \in Nat
    BY <1>1, <1>2, <1>4, AuxShape, EntryShape
  <2>2. /\ aux.endndx > n /\ aux.endndx \in DOMAIN t /\ Begins(t, aux.endndx + 1)
        /\ \A i \in (n + 2) .. aux.endndx : Owner(t, i).class \in Debug
    BY <1>1, <1>4, <2>1 DEF Described, HasEnd
  <2>3. NextEntry = aux.endndx + 1
    BY <1>3, <1>4 DEF NextEntry
  <2>4. Owner(t, n) = t[n] /\ Owner(t, n + 1) = t[n]
    BY <1>1, <1>4, OwnEntry
  <2>5. ASSUME NEW i \in n .. aux.endndx PROVE Owner(t, i).class \in {"tag"} \cup Debug
    <3>1. i = n \/ i = n + 1 \/ i \in (n + 2) .. aux.endndx
      BY <1>1, <2>1
    <3> QED
      BY <1>1, <1>4, <2>2, <2>4, <3>1
  <2>6. \A j \in (n + 1) .. (NextEntry - 1) : t[j].class # "ext"
    BY <2>1, <2>3, <2>5, <1>1 DEF Owner, Debug
  <2>7. \A i \in n .. (NextEntry - 1) : Kept(t, xflag, i) <=> ~xflag
    BY <1>1, <2>1, <2>3, <2>5 DEF Kept, Debug
  <2>8. Counted = IF xflag THEN 0 ELSE NextEntry - n
    BY <1>1, <1>4 DEF Counted, Unnumbered
  <2>9. Count(t, xflag, NextEntry) = Count(t, xflag, n) + Counted
    <3>1. NextEntry \in Nat /\ n <= NextEntry /\ n \in n .. (NextEntry - 1)
      BY <1>1, <2>1, <2>2, <2>3
    <3>2. \A i \in n .. (NextEntry - 1) : Kept(t, xflag, i) <=> Kept(t, xflag, n)
      BY <2>7, <3>1
    <3>3. Count(t, xflag, NextEntry)
            = Count(t, xflag, n) + (IF Kept(t, xflag, n) THEN NextEntry - n ELSE 0)
      BY <1>1, <3>1, <3>2, CountAlike
    <3>4. Kept(t, xflag, n) <=> ~xflag
      BY <2>7, <3>1
    <3> QED
      BY <2>8, <3>3, <3>4
  <2> QED
    BY <1>1, <2>1, <2>2, <2>3, <2>6, <2>8, <2>9
<1>5. CASE ~(Entry.class = "tag" /\ Entry.numaux = 1)
  <2>1. NextEntry = n + 1 + Entry.numaux
    BY <1>2, <1>3, <1>5 DEF NextEntry
  <2>2. \A j \in (n + 1) .. (NextEntry - 1) : t[j].class # "ext"
    BY <1>1, <1>2, <2>1
  <2>3. \A i \in n .. (NextEntry - 1) : Kept(t, xflag, i) <=> Kept(t, xflag, n)
    BY <1>1, <1>2, <2>1, OwnEntry
  <2>4. Counted = IF Kept(t, xflag, n) THEN NextEntry - n ELSE 0
    BY <1>1, <1>2, OwnEntry DEF Counted, Unnumbered
  <2>5. Count(t, xflag, NextEntry) = Count(t, xflag, n) + Counted
    <3>1. NextEntry \in Nat /\ n <= NextEntry
      BY <1>1, <1>2, <2>1
    <3>2. Count(t, xflag, NextEntry)
            = Count(t, xflag, n) + (IF Kept(t, xflag, n) THEN NextEntry - n ELSE 0)
      BY <1>1, <2>3, <3>1, CountAlike
    <3> QED
      BY <2>4, <3>2
  <2> QED
    BY <1>1, <1>2, <2>1, <2>2, <2>4, <2>5
<1> QED
  BY <1>4, <1>5

\* Before the second pass nothing is written.
LEMMA NothingWritten ==
  ASSUME Early, Lengths PROVE LocalsWritten /\ GlobalsWritten /\ SlotsGiven /\ Chain
BY DEF Early, Late, Lengths, LocalsWritten, GlobalsWritten, SlotsGiven, Chain, Passed

\* The same after a step.
LEMMA NothingWrittenNext ==
  ASSUME Early', Lengths' PROVE (LocalsWritten /\ GlobalsWritten /\ SlotsGiven /\ Chain)'
BY DEF Early, Late, Lengths, LocalsWritten, GlobalsWritten, SlotsGiven, Chain, Passed

-----------------------------------------------------------------------------
(* Pass 1.                                                                 *)

\* Symbols of the table have these parts.
LEMMA TableShape ==
  ASSUME Typed
  PROVE  /\ Len(table) \in Nat /\ DOMAIN table = 1 .. Len(table)
         /\ \A k \in DOMAIN table :
              /\ table[k] \in TableSymbol
              /\ table[k].numaux \in {0, 1} /\ table[k].local_flag \in BOOLEAN
<1>1. table \in Seq(TableSymbol)
  BY DEF Typed
<1>2. \A k \in DOMAIN table : table[k] \in TableSymbol
  BY <1>1
<1>3. \A r \in TableSymbol : r.numaux \in {0, 1} /\ r.local_flag \in BOOLEAN
  BY Zenon DEF TableSymbol
<1> QED
  BY <1>1, <1>2, <1>3

\* What a symbol is after another entry with its name.
LEMMA EnteredFields ==
  ASSUME Typed, pc = "pass1", n <= Len(files[f]), Entry.class = "ext", NEW symbol \in TableSymbol
  PROVE  LET new == Entered(symbol) IN
         /\ new \in TableSymbol
         /\ new.name = symbol.name
         /\ Entry.scnum = 0 => /\ new.scnum = symbol.scnum /\ new.numaux = symbol.numaux
                               /\ new.local_flag = symbol.local_flag /\ new.file = symbol.file
                               /\ new.sym_index = symbol.sym_index /\ new.aux = symbol.aux
         /\ Entry.scnum # 0 /\ symbol.scnum = 0 /\ symbol.numaux = 0 /\ ~symbol.local_flag =>
              /\ new.scnum = Entry.scnum /\ new.numaux = Entry.numaux
              /\ new.local_flag <=> Function(Entry)
              /\ Function(Entry) => new.file = f /\ new.sym_index = local_syms[f]
              /\ Entry.numaux = 1 => new.aux = files[f][n + 1]
<1>1. /\ files \in Links /\ f \in DOMAIN files /\ n \in DOMAIN files[f] /\ f \in Nat
      /\ Entry = files[f][n] /\ Entry.class # "aux" /\ Entry.numaux \in {0, 1} /\ Entry.scnum \in Int
      /\ local_syms[f] \in Nat
  BY Here, EntryShape DEF File, Entry, Typed
<1>2. /\ Entry.scnum = 0 => ~Function(Entry) /\ Entry.numaux = 0
      /\ Function(Entry) => Entry.scnum > 0
  BY <1>1, DefinedOnce
<1>3. /\ Aux = << >> <=> Entry.numaux = 0
      /\ Entry.numaux = 1 => Aux[1] = files[f][n + 1] /\ files[f][n + 1] \in AuxEntry
  BY <1>1, EntryShape DEF Aux
<1> DEFINE merged  == IF symbol.scnum = 0 THEN [symbol EXCEPT !.scnum = Entry.scnum] ELSE symbol
           placed  == IF Entry.scnum > 0 THEN [merged EXCEPT !.file = f] ELSE merged
           flagged == IF Function(Entry)
                      THEN [placed EXCEPT !.sym_index = local_syms[f], !.local_flag = TRUE] ELSE placed
<1>4. /\ merged \in TableSymbol /\ merged.name = symbol.name /\ merged.numaux = symbol.numaux
      /\ merged.scnum = (IF symbol.scnum = 0 THEN Entry.scnum ELSE symbol.scnum)
      /\ merged.local_flag = symbol.local_flag /\ merged.file = symbol.file
      /\ merged.sym_index = symbol.sym_index /\ merged.aux = symbol.aux
  BY <1>1 DEF TableSymbol
<1> HIDE DEF merged
<1>5. /\ placed \in TableSymbol /\ placed.name = merged.name /\ placed.numaux = merged.numaux
      /\ placed.scnum = merged.scnum /\ placed.local_flag = merged.local_flag
      /\ placed.file = (IF Entry.scnum > 0 THEN f ELSE merged.file)
      /\ placed.sym_index = merged.sym_index /\ placed.aux = merged.aux
  BY <1>1, <1>4 DEF TableSymbol
<1> HIDE DEF placed
<1>6. /\ flagged \in TableSymbol /\ flagged.name = placed.name /\ flagged.numaux = placed.numaux
      /\ flagged.scnum = placed.scnum /\ flagged.file = placed.file /\ flagged.aux = placed.aux
      /\ ~Function(Entry) => /\ flagged.local_flag = placed.local_flag
                             /\ flagged.sym_index = placed.sym_index
      /\ Function(Entry) => flagged.local_flag = TRUE /\ flagged.sym_index = local_syms[f]
  BY <1>1, <1>5 DEF TableSymbol
<1> HIDE DEF flagged
<1>7. Entered(symbol) = IF Aux # << >> /\ symbol.numaux = 0
                        THEN [flagged EXCEPT !.numaux = 1, !.aux = Aux[1]] ELSE flagged
  BY DEF Entered, merged, placed, flagged
<1>8. CASE Aux # << >> /\ symbol.numaux = 0
  <2>1. Entered(symbol) = [flagged EXCEPT !.numaux = 1, !.aux = Aux[1]]
    BY <1>7, <1>8
  <2>2. Aux[1] \in AuxEntry /\ Entry.numaux = 1 /\ Aux[1] = files[f][n + 1]
    BY <1>1, <1>3, <1>8
  <2>3. /\ Entered(symbol) \in TableSymbol
        /\ Entered(symbol).numaux = 1 /\ Entered(symbol).aux = files[f][n + 1]
        /\ Entered(symbol).name = flagged.name /\ Entered(symbol).scnum = flagged.scnum
        /\ Entered(symbol).file = flagged.file /\ Entered(symbol).sym_index = flagged.sym_index
        /\ Entered(symbol).local_flag = flagged.local_flag
    BY <1>6, <2>1, <2>2 DEF TableSymbol
  <2> QED
    BY <1>1, <1>2, <1>4, <1>5, <1>6, <2>2, <2>3
<1>9. CASE ~(Aux # << >> /\ symbol.numaux = 0)
  <2>1. Entered(symbol) = flagged
    BY <1>7, <1>9
  <2> QED
    BY <1>1, <1>2, <1>3, <1>4, <1>5, <1>6, <1>9, <2>1
<1> QED
  BY <1>8, <1>9

\* How the table of symbols changes with a global entry: the symbol of that name
\* does, or one is added.
LEMMA TableEntered ==
  ASSUME Typed, TableKnows, TableUndefined, ProcessEntry, Entry.class = "ext"
  PROVE  \E m \in DOMAIN table' : \E old \in TableSymbol :
           /\ table'[m] = Entered(old) /\ old.name = Entry.name
           /\ IF m \in DOMAIN table
              THEN old = table[m]
              ELSE /\ old.scnum = 0 /\ old.numaux = 0 /\ ~old.local_flag
                   /\ \A k \in DOMAIN table : table[k].name # Entry.name
           /\ DOMAIN table' = DOMAIN table \cup {m}
           /\ \A k \in DOMAIN table' \ {m} : table'[k] = table[k] /\ table[k].name # Entry.name
           /\ table' \in Seq(TableSymbol)
<1>1. /\ pc = "pass1" /\ n <= Len(files[f]) /\ Entry.name \in Nat
      /\ table \in Seq(TableSymbol) /\ Len(table) \in Nat /\ DOMAIN table = 1 .. Len(table)
  BY Here, TableShape, EntryShape DEF ProcessEntry, File, Entry, Typed
<1>2. table' = IF Known(Entry.name) = {} THEN Append(table, Entered(NewSymbol))
               ELSE [k \in DOMAIN table |->
                       IF k \in Known(Entry.name) THEN Entered(table[k]) ELSE table[k]]
  BY DEF ProcessEntry
<1>3. CASE Known(Entry.name) = {}
  <2>1. NewSymbol \in TableSymbol
    BY <1>1 DEF NewSymbol, NoAux, TableSymbol, AuxEntry
  <2>2. NewSymbol.name = Entry.name /\ NewSymbol.scnum = 0 /\ NewSymbol.numaux = 0 /\ ~NewSymbol.local_flag
    BY DEF NewSymbol
  <2>3. Entered(NewSymbol) \in TableSymbol
    BY <1>1, <2>1, EnteredFields
  <2>4. \A k \in DOMAIN table : table[k].name # Entry.name
    BY <1>3 DEF Known
  <2> DEFINE m == Len(table) + 1
  <2>5. /\ table' \in Seq(TableSymbol) /\ DOMAIN table' = DOMAIN table \cup {m}
        /\ m \notin DOMAIN table /\ table'[m] = Entered(NewSymbol)
        /\ \A k \in DOMAIN table : table'[k] = table[k]
    BY <1>1, <1>2, <1>3, <2>3
  <2> HIDE DEF m
  <2> QED
    BY <2>1, <2>2, <2>4, <2>5
<1>4. CASE Known(Entry.name) # {}
  <2>1. PICK m \in DOMAIN table : table[m].name = Entry.name
    BY <1>4 DEF Known
  <2>2. \A k \in DOMAIN table : k \in Known(Entry.name) <=> k = m
    BY <2>1 DEF Known, TableKnows
  <2>3. table[m] \in TableSymbol /\ Entered(table[m]) \in TableSymbol
    BY <1>1, <2>1, EnteredFields
  <2>4. /\ DOMAIN table' = DOMAIN table
        /\ \A k \in DOMAIN table : table'[k] = IF k = m THEN Entered(table[k]) ELSE table[k]
    BY <1>2, <1>4, <2>2
  <2>5. table' \in Seq(TableSymbol)
    <3>1. table' = [k \in 1 .. Len(table) |-> table'[k]]
      BY <1>1, <1>2, <1>4
    <3>2. \A k \in 1 .. Len(table) : table'[k] \in TableSymbol
      BY <1>1, <2>3, <2>4
    <3> QED
      BY <1>1, <3>1, <3>2
  <2>6. \A k \in DOMAIN table \ {m} : table[k].name # Entry.name
    BY <2>2 DEF Known
  <2> QED
    BY <2>1, <2>3, <2>4, <2>5, <2>6
<1> QED
  BY <1>3, <1>4

\* What has been read when an entry is through.
LEMMA ReadNext ==
  ASSUME Typed, ProcessEntry, NEW g \in File, NEW j \in DOMAIN files[g]
  PROVE  /\ Read(g, j)' <=> Read(g, j) \/ (g = f /\ j \in n .. (NextEntry - 1))
         /\ ~(Read(f, n))
         /\ Read(g, j) => Read(g, j)'
<1>1. NextEntry \in (n + 1) .. (Len(files[f]) + 1) /\ n \in Nat /\ Len(files[f]) \in Nat
  BY NextEntryShape, Here DEF ProcessEntry
<1>2. g \in Nat /\ j \in Nat /\ f \in Nat
  BY Here
<1> QED
  BY <1>1, <1>2 DEF Read, ProcessEntry

\* An entry that pass 1 reads keeps the invariant.
LEMMA ProcessEntryKeeps == ASSUME IInv, ProcessEntry PROVE IInv'
<1>1. /\ Typed /\ LocalCounts /\ TableKnows /\ TableDefined /\ TableUndefined /\ GlobalNumbers
      /\ Bases /\ Lengths
  BY DEF IInv
<1>2. /\ pc = "pass1" /\ pc' = pc /\ n <= Len(files[f]) /\ n' = NextEntry /\ f' = f
      /\ files' = files /\ xflag' = xflag /\ File' = File
      /\ symbol_index' = symbol_index /\ index' = index
  BY DEF ProcessEntry, input, update, File
<1>3. /\ files \in Links /\ f \in File /\ n \in DOMAIN files[f] /\ n \in Nat /\ f \in Nat
      /\ Entry = files[f][n] /\ Entry.class # "aux" /\ Len(files[f]) \in Nat
      /\ File = DOMAIN files /\ DOMAIN files[f] = 1 .. Len(files[f])
  BY <1>1, <1>2, Here DEF File, Entry
<1>4. /\ NextEntry \in (n + 1) .. (Len(files[f]) + 1)
      /\ Begins(files[f], NextEntry)
      /\ \A j \in (n + 1) .. (NextEntry - 1) : files[f][j].class # "ext"
      /\ Count(files[f], xflag, NextEntry) = Count(files[f], xflag, n) + Counted
      /\ Counted \in Nat
  BY <1>1, <1>2, NextEntryShape
<1>5. LocalCounts'
  <2>1. local_syms' = [local_syms EXCEPT ![f] = @ + Counted] /\ local_syms \in [File -> Nat]
    BY <1>1 DEF ProcessEntry, Typed
  <2>2. ASSUME NEW g \in File
        PROVE  local_syms'[g] = Count(files[g], xflag, IF g < f THEN Len(files[g]) + 1
                                                       ELSE IF g = f THEN NextEntry ELSE 1)
    <3>1. local_syms[g] = Count(files[g], xflag, IF g < f THEN Len(files[g]) + 1
                                                 ELSE IF g = f THEN n ELSE 1)
      BY <1>1, <1>2 DEF LocalCounts, Reached
    <3> QED
      BY <1>3, <1>4, <2>1, <3>1
  <2> QED
    BY <1>2, <2>2 DEF LocalCounts, Reached
<1>6. \A g \in File : \A j \in DOMAIN files[g] :
        /\ Read(g, j)' <=> Read(g, j) \/ (g = f /\ j \in n .. (NextEntry - 1))
        /\ ~Read(f, n) /\ (Read(g, j) => Read(g, j)')
  BY <1>1, ReadNext
<1>7. ~Passed(0, 0)' /\ ~Updated(0)' /\ (\A g, j : ~Passed(g, j)' /\ ~Passed(g, j)) 
      /\ (\A k : ~Updated(k)' /\ ~Updated(k))
  BY <1>2 DEF Passed, Updated, Late
<1>8. table' \in Seq(TableSymbol) /\ TableKnows' /\ TableDefined' /\ TableUndefined'
  <2>1. CASE Entry.class # "ext"
    <3>1. table' = table
      BY <2>1 DEF ProcessEntry
    <3>2. \A g \in File : \A j \in DOMAIN files[g] :
            files[g][j].class = "ext" => (Read(g, j)' <=> Read(g, j))
      BY SMTT(40), <1>3, <1>4, <1>6, <2>1
    <3>3. table' \in Seq(TableSymbol)
      BY <1>1, <3>1 DEF Typed
    <3>4. TableKnows'
      BY <1>1, <1>2, <3>1, <3>2 DEF TableKnows
    <3>5. TableDefined'
      BY <1>1, <1>2, <1>7, <3>1, <3>2 DEF TableDefined, Defines
    <3>6. TableUndefined'
      BY <1>1, <1>2, <3>1, <3>2 DEF TableUndefined, Defines
    <3> QED
      BY <3>3, <3>4, <3>5, <3>6
  <2>2. CASE Entry.class = "ext"
    <3>1. PICK m \in DOMAIN table' : \E old \in TableSymbol :
            /\ table'[m] = Entered(old) /\ old.name = Entry.name
            /\ IF m \in DOMAIN table
               THEN old = table[m]
               ELSE /\ old.scnum = 0 /\ old.numaux = 0 /\ ~old.local_flag
                    /\ \A k \in DOMAIN table : table[k].name # Entry.name
            /\ DOMAIN table' = DOMAIN table \cup {m}
            /\ \A k \in DOMAIN table' \ {m} : table'[k] = table[k] /\ table[k].name # Entry.name
            /\ table' \in Seq(TableSymbol)
      BY <1>1, <2>2, TableEntered
    <3> DEFINE new == table'[m]
    <3>2. PICK old \in TableSymbol :
            /\ new = Entered(old) /\ old.name = Entry.name
            /\ IF m \in DOMAIN table
               THEN old = table[m]
               ELSE /\ old.scnum = 0 /\ old.numaux = 0 /\ ~old.local_flag
                    /\ \A k \in DOMAIN table : table[k].name # Entry.name
      BY <3>1
    <3>3. /\ DOMAIN table' = DOMAIN table \cup {m} /\ table' \in Seq(TableSymbol)
          /\ \A k \in DOMAIN table' \ {m} : table'[k] = table[k] /\ table[k].name # Entry.name
      BY <3>1
    <3>4. /\ new.name = Entry.name
          /\ Entry.scnum = 0 => /\ new.scnum = old.scnum /\ new.numaux = old.numaux
                                /\ new.local_flag = old.local_flag /\ new.file = old.file
                                /\ new.sym_index = old.sym_index /\ new.aux = old.aux
          /\ Entry.scnum # 0 /\ old.scnum = 0 /\ old.numaux = 0 /\ ~old.local_flag =>
               /\ new.scnum = Entry.scnum /\ new.numaux = Entry.numaux
               /\ new.local_flag <=> Function(Entry)
               /\ Function(Entry) => new.file = f /\ new.sym_index = local_syms[f]
               /\ Entry.numaux = 1 => new.aux = files[f][n + 1]
      BY <1>1, <1>2, <2>2, <3>2, EnteredFields
    <3>5. local_syms[f] = Count(files[f], xflag, n)
      BY <1>1, <1>2, <1>3 DEF LocalCounts, Reached
    <3>6. \A g \in File : \A j \in DOMAIN files[g] : files[g][j].class = "ext" =>
            (Read(g, j)' <=> Read(g, j) \/ (g = f /\ j = n))
      BY <1>3, <1>4, <1>6
    <3>7. TableKnows'
      <4>1. ASSUME NEW k \in DOMAIN table', NEW l \in DOMAIN table', table'[k].name = table'[l].name
            PROVE  k = l
        BY <1>1, <3>3, <3>4, <4>1 DEF TableKnows
      <4>2. ASSUME NEW g \in File, NEW j \in DOMAIN files[g], files[g][j].class = "ext", Read(g, j)'
            PROVE  \E k \in DOMAIN table' : table'[k].name = files[g][j].name
        <5>1. CASE g = f /\ j = n
          BY <1>3, <3>4, <5>1
        <5>2. CASE Read(g, j)
          <6>1. PICK k \in DOMAIN table : table[k].name = files[g][j].name
            BY <1>1, <4>2, <5>2 DEF TableKnows
          <6> QED
            BY <3>2, <3>3, <3>4, <6>1
        <5> QED
          BY <3>6, <4>2, <5>1, <5>2
      <4> QED
        BY <1>2, <4>1, <4>2 DEF TableKnows
    \* No definition has been read if this is one.
    <3>8. ASSUME Entry.scnum # 0 PROVE old.scnum = 0 /\ old.numaux = 0 /\ ~old.local_flag
      <4>1. ASSUME m \in DOMAIN table, NEW g \in File, NEW j \in DOMAIN files[g], Read(g, j)
            PROVE  ~Defines(g, j, table[m].name)
        BY <1>3, <1>6, <2>2, <3>2, <3>8, <4>1, DefinedOnce DEF Defines
      <4> QED
        BY <1>1, <3>2, <4>1 DEF TableUndefined
    <3>9. TableDefined'
      <4>1. SUFFICES ASSUME NEW k \in DOMAIN table', NEW g \in File, NEW j \in DOMAIN files[g],
                            Read(g, j)', Defines(g, j, table'[k].name)
            PROVE  LET e == files[g][j] IN
                   /\ table'[k].scnum = e.scnum /\ table'[k].numaux = e.numaux
                   /\ table'[k].local_flag <=> Function(e)
                   /\ Function(e) => /\ table'[k].file = g
                                     /\ table'[k].sym_index = Count(files[g], xflag, j)
                   /\ e.numaux = 1 => /\ table'[k].aux.endndx = files[g][j + 1].endndx
                                      /\ table'[k].aux.tagndx = files[g][j + 1].tagndx
        BY <1>2, <1>7 DEF TableDefined, Defines
      <4>2. CASE g = f /\ j = n
        <5>1. k = m /\ Entry.scnum # 0
          BY <1>3, <3>3, <4>1, <4>2 DEF Defines
        <5> QED
          BY <1>3, <3>4, <3>5, <3>8, <4>2, <5>1
      <4>3. CASE Read(g, j)
        <5>1. PICK l \in DOMAIN table : table[l].name = files[g][j].name
          BY <1>1, <4>1, <4>3 DEF TableKnows, Defines
        <5>2. /\ table'[k].name = files[g][j].name /\ k \in DOMAIN table
              /\ table[k].name = files[g][j].name
          BY <3>2, <3>3, <3>4, <4>1, <5>1 DEF Defines
        <5>3. /\ table[k].scnum = files[g][j].scnum /\ table[k].numaux = files[g][j].numaux
              /\ table[k].local_flag <=> Function(files[g][j])
              /\ Function(files[g][j]) => /\ table[k].file = g
                                          /\ table[k].sym_index = Count(files[g], xflag, j)
              /\ files[g][j].numaux = 1 => /\ table[k].aux.endndx = files[g][j + 1].endndx
                                           /\ table[k].aux.tagndx = files[g][j + 1].tagndx
          BY <1>1, <1>7, <4>1, <4>3, <5>2 DEF TableDefined, Defines
        <5>4. CASE k # m
          BY <3>3, <5>3, <5>4
        <5>5. CASE k = m
          <6>1. Entry.scnum = 0
            BY <1>3, <1>6, <2>2, <3>4, <4>1, <4>3, <5>2, <5>5, DefinedOnce DEF Defines
          <6>2. old = table[k]
            BY <3>2, <5>2, <5>5
          <6> QED
            BY <3>4, <5>3, <5>5, <6>1, <6>2
        <5> QED
          BY <5>4, <5>5
      <4> QED
        BY <3>6, <4>1, <4>2, <4>3 DEF Defines
    <3>10. TableUndefined'
      <4>1. SUFFICES ASSUME NEW k \in DOMAIN table',
                            \A g \in File : \A j \in DOMAIN files[g] :
                              Read(g, j)' => ~Defines(g, j, table'[k].name)
            PROVE  table'[k].scnum = 0 /\ table'[k].numaux = 0 /\ ~table'[k].local_flag
        BY <1>2 DEF TableUndefined, Defines
      <4>2. \A g \in File : \A j \in DOMAIN files[g] : Read(g, j) => ~Defines(g, j, table'[k].name)
        BY <1>6, <4>1
      <4>3. CASE k # m
        BY <1>1, <3>3, <4>2, <4>3 DEF TableUndefined
      <4>4. CASE k = m
        <5>1. Entry.scnum = 0
          BY <1>3, <2>2, <3>4, <3>6, <4>1, <4>4 DEF Defines
        <5>2. old.scnum = 0 /\ old.numaux = 0 /\ ~old.local_flag
          BY <1>1, <3>2, <3>4, <4>2, <4>4 DEF TableUndefined
        <5> QED
          BY <3>4, <4>4, <5>1, <5>2
      <4> QED
        BY <4>3, <4>4
    <3> QED
      BY <3>3, <3>7, <3>9, <3>10
  <2> QED
    BY <2>1, <2>2
<1>9. Typed'
  <2>1. local_syms' \in [File -> Nat]
    <3>1. local_syms' = [local_syms EXCEPT ![f] = @ + Counted] /\ local_syms \in [File -> Nat]
      BY <1>1 DEF ProcessEntry, Typed
    <3> QED
      BY <1>3, <1>4, <3>1
  <2>2. /\ num_output_syms' = num_output_syms /\ total_output_symbols' = total_output_symbols
        /\ out' = out /\ lastfile' = lastfile /\ nextfile' = nextfile
    BY DEF ProcessEntry, update, pass2
  <2>3. n' \in Nat \ {0} /\ n' <= Len(files'[f']) + 1 /\ Begins(files'[f'], n')
    BY <1>2, <1>3, <1>4
  <2>4. xflag' \in BOOLEAN /\ files' \in Links /\ f' \in File'
    BY <1>1, <1>2, <1>3 DEF Typed
  <2>5. symbol_index' \in [File' -> Nat] /\ local_syms' \in [File' -> Nat]
    BY <1>1, <1>2, <2>1 DEF Typed
  <2> QED
    BY <1>1, <1>2, <1>8, <2>2, <2>3, <2>4, <2>5 DEF Typed
<1>10. GlobalNumbers' /\ Bases'
  BY <1>2, <1>7 DEF GlobalNumbers, Bases, Indexed
<1>11. Lengths' /\ Early'
  BY <1>1, <1>2 DEF Lengths, Early, Late, ProcessEntry, update, pass2
<1> QED
  BY <1>5, <1>8, <1>9, <1>10, <1>11, NothingWrittenNext DEF IInv

\* The first entry of a table is a symbol.
LEMMA FirstEntry == ASSUME Typed, NEW g \in File PROVE Begins(files[g], 1)
<1>1. /\ files \in Links /\ g \in DOMAIN files /\ DOMAIN files[g] = 1 .. Len(files[g])
      /\ Len(files[g]) \in Nat
  BY Here DEF File
<1>2. ASSUME 1 \in DOMAIN files[g], files[g][1].class = "aux" PROVE FALSE
  <2>1. 1 - 1 \in DOMAIN files[g]
    BY <1>1, <1>2, EntryShape
  <2> QED
    BY <1>1, <2>1
<1> QED
  BY <1>2 DEF Begins

\* The end of a file keeps the invariant.
LEMMA NextFileKeeps == ASSUME IInv, NextFile PROVE IInv'
<1>1. /\ Typed /\ LocalCounts /\ TableKnows /\ TableDefined /\ TableUndefined /\ GlobalNumbers
      /\ Bases /\ Lengths
  BY DEF IInv
<1>2. /\ pc = "pass1" /\ n > Len(files[f]) /\ n' = 1
      /\ IF f + 1 \in File THEN f' = f + 1 /\ pc' = pc ELSE f' = 1 /\ pc' = "index"
      /\ files' = files /\ xflag' = xflag /\ File' = File
      /\ local_syms' = local_syms /\ table' = table
      /\ symbol_index' = symbol_index /\ index' = index
      /\ total_output_symbols' = total_output_symbols /\ num_output_syms' = num_output_syms
      /\ out' = out /\ lastfile' = lastfile /\ nextfile' = nextfile /\ slots' = slots
  BY DEF NextFile, ToNextFile, input, pass1, update, pass2, File
<1>3. /\ files \in Links /\ f \in File /\ n \in Nat /\ f \in Nat \ {0}
      /\ File = 1 .. Len(files) /\ Len(files) \in Nat \ {0}
      /\ \A g \in File : Len(files[g]) \in Nat /\ DOMAIN files[g] = 1 .. Len(files[g])
      /\ n = Len(files[f]) + 1
  BY <1>1, <1>2, Here DEF Typed
<1>4. \A g \in File : \A j \in DOMAIN files[g] : Read(g, j)' <=> Read(g, j)
  BY <1>2, <1>3 DEF Read
<1>5. /\ \A g, j : ~Passed(g, j)' /\ ~Passed(g, j)
      /\ \A k : ~Updated(k)' /\ ~Updated(k)
  BY <1>2 DEF Passed, Updated, Late
<1>6. LocalCounts'
  <2>1. \A g \in File : Reached(g)' = Reached(g)
    BY <1>2, <1>3 DEF Reached
  <2> QED
    BY <1>1, <1>2, <2>1 DEF LocalCounts
<1>7. TableKnows' /\ TableUndefined'
  BY <1>1, <1>2, <1>4 DEF TableKnows, TableUndefined, Defines
<1>8. TableDefined'
  BY <1>1, <1>2, <1>4, <1>5 DEF TableDefined, Defines
<1>9. Typed'
  <2>1. f' \in File' /\ Begins(files'[f'], n') /\ n' <= Len(files'[f']) + 1
    BY <1>1, <1>2, <1>3, FirstEntry
  <2> QED
    BY <1>1, <1>2, <2>1 DEF Typed
<1>10. GlobalNumbers' /\ Bases'
  <2>1. Indexed' = {} /\ (pc' = "index" => f' = 1 /\ index' = 0)
    BY <1>1, <1>2, <1>3 DEF Indexed, Lengths
  <2> QED
    BY <1>5, <2>1 DEF GlobalNumbers, Bases
<1>11. Lengths' /\ Early'
  BY <1>1, <1>2 DEF Lengths, Early, Late
<1> QED
  BY <1>6, <1>7, <1>8, <1>9, <1>10, <1>11, NothingWrittenNext DEF IInv

-----------------------------------------------------------------------------
(* The update.                                                             *)

\* Files begin in their order, each where the one before ends.
LEMMA IndexFileKeeps == ASSUME IInv, IndexFile PROVE IInv'
<1>1. /\ Typed /\ LocalCounts /\ TableKnows /\ TableDefined /\ TableUndefined /\ GlobalNumbers
      /\ Bases /\ Lengths
  BY DEF IInv
<1>2. /\ pc = "index" /\ n' = 1
      /\ IF f + 1 \in File THEN f' = f + 1 /\ pc' = pc ELSE f' = 1 /\ pc' = "update"
      /\ files' = files /\ xflag' = xflag /\ File' = File
      /\ local_syms' = local_syms /\ table' = table
      /\ symbol_index' = [symbol_index EXCEPT ![f] = index] /\ index' = index + local_syms[f]
      /\ total_output_symbols' = total_output_symbols /\ num_output_syms' = num_output_syms
      /\ out' = out /\ lastfile' = lastfile /\ nextfile' = nextfile /\ slots' = slots
  BY DEF IndexFile, ToNextFile, input, pass1, pass2, File
<1>3. /\ files \in Links /\ f \in File /\ f \in Nat \ {0}
      /\ File = 1 .. Len(files) /\ Len(files) \in Nat \ {0}
      /\ local_syms \in [File -> Nat] /\ symbol_index \in [File -> Nat] /\ index \in Nat
      /\ f + 1 \notin File => f = Len(files)
  BY <1>1, Here DEF Typed
<1>4. /\ \A g, j : Read(g, j)' /\ Read(g, j)
      /\ \A g, j : ~Passed(g, j)' /\ ~Passed(g, j)
      /\ \A k \in DOMAIN table : ~Updated(k)' /\ ~Updated(k)
  BY <1>1, <1>2, TableShape DEF Passed, Updated, Late, Read
<1>5. LocalCounts' /\ TableKnows' /\ TableUndefined'
  BY <1>1, <1>2, <1>4 DEF LocalCounts, Reached, TableKnows, TableUndefined, Defines
<1>6. TableDefined' /\ GlobalNumbers'
  BY <1>1, <1>2, <1>4 DEF TableDefined, Defines, GlobalNumbers
<1>7. Typed'
  <2>1. symbol_index' \in [File' -> Nat] /\ index' \in Nat /\ f' \in File'
    BY <1>2, <1>3
  <2>2. Len(table) \in Nat
    BY <1>1, TableShape
  <2> QED
    BY <1>1, <1>2, <2>1, <2>2 DEF Typed
<1>8. /\ \A g \in 1 .. f : symbol_index'[g] = IF g = f THEN index ELSE symbol_index[g]
      /\ \A g \in 1 .. f : local_syms[g] \in Nat /\ symbol_index[g] \in Nat
  BY SMTT(40), <1>2, <1>3
\* All files before end where this one begins, or earlier.
<1>9. /\ f = 1 => index = 0
      /\ f # 1 => index = symbol_index[f - 1] + local_syms[f - 1]
      /\ \A g \in 1 .. (f - 1) : symbol_index[g] + local_syms[g] <= index
  <2>1. /\ f = 1 => index = 0
        /\ f # 1 => index = symbol_index[f - 1] + local_syms[f - 1]
    BY <1>1, <1>2 DEF Bases
  <2>2. ASSUME NEW g \in 1 .. (f - 1) PROVE symbol_index[g] + local_syms[g] <= index
    <3>1. CASE g = f - 1
      BY <1>3, <1>8, <2>1, <3>1
    <3>2. CASE g # f - 1
      <4>1. f - 1 \in 1 .. (f - 1) /\ g < f - 1
        BY <1>3, <3>2
      <4>2. symbol_index[g] + local_syms[g] <= symbol_index[f - 1]
        BY <1>1, <1>2, <4>1 DEF Bases, Indexed
      <4> QED
        BY SMTT(40), <1>3, <1>8, <2>1, <4>1, <4>2
    <3> QED
      BY <3>1, <3>2
  <2> QED
    BY <2>1, <2>2
<1>10. Indexed = 1 .. (f - 1) /\ Indexed' = 1 .. f
  BY <1>2, <1>3 DEF Indexed
<1>11. Bases'
  <2>1. \A g \in 1 .. f : g = 1 => symbol_index'[g] = 0
    BY <1>1, <1>3, <1>8, <1>9, <1>10 DEF Bases
  <2>2. ASSUME NEW g \in 1 .. f, g + 1 \in 1 .. f
        PROVE  symbol_index'[g + 1] = symbol_index'[g] + local_syms[g]
    <3>1. CASE g + 1 = f
      BY SMTT(40), <1>3, <1>8, <1>9, <2>2, <3>1
    <3>2. CASE g + 1 # f
      <4>1. g \in 1 .. (f - 1) /\ g + 1 \in 1 .. (f - 1) /\ g # f
        BY <1>3, <2>2, <3>2
      <4> QED
        BY <1>1, <1>8, <1>10, <2>2, <3>2, <4>1 DEF Bases
    <3> QED
      BY <3>1, <3>2
  <2>3. ASSUME NEW g \in 1 .. f, NEW h \in 1 .. f, g < h
        PROVE  symbol_index'[g] + local_syms[g] <= symbol_index'[h]
    <3>1. g \in 1 .. (f - 1) /\ g # f
      BY <1>3, <2>3
    <3>2. CASE h = f
      BY <1>8, <1>9, <3>1, <3>2
    <3>3. CASE h # f
      <4>1. h \in 1 .. (f - 1)
        BY <1>3, <3>3
      <4> QED
        BY <1>1, <1>8, <1>10, <2>3, <3>1, <3>3, <4>1 DEF Bases
    <3> QED
      BY <3>2, <3>3
  <2>4. pc' = "index" => index' = symbol_index'[f' - 1] + local_syms'[f' - 1] /\ f' # 1
    BY <1>2, <1>3, <1>8
  <2> QED
    BY <1>2, <1>10, <2>1, <2>2, <2>3, <2>4 DEF Bases
<1>12. Lengths' /\ Early'
  <2>1. ASSUME pc' = "update" PROVE index' = GlobalNumber(n)'
    <3>1. f = Len(files) /\ index' = symbol_index'[f] + local_syms[f]
      BY <1>2, <1>3, <1>8, <2>1
    <3>2. Units(table', n') = 0
      BY <1>2, UnitsOfNone
    <3> QED
      BY <1>2, <1>3, <1>8, <3>1, <3>2 DEF GlobalNumber, Base
  <2> QED
    BY <1>1, <1>2, <2>1 DEF Lengths, Early, Late
<1> QED
  BY <1>5, <1>6, <1>7, <1>11, <1>12, NothingWrittenNext DEF IInv

\* What is local has a definition, which is a function in a section.
LEMMA LocalSymbol ==
  ASSUME Typed, TableDefined, TableUndefined, NEW k \in DOMAIN table, table[k].local_flag
  PROVE  \E g \in File : \E j \in DOMAIN files[g] :
           /\ Read(g, j) /\ Defines(g, j, table[k].name) /\ Function(files[g][j])
           /\ table[k].scnum > 0 /\ table[k].file = g /\ table[k].numaux = files[g][j].numaux
           /\ table[k].sym_index = IF Updated(k) THEN Number(g, j) ELSE Count(files[g], xflag, j)
<1>0. PICK g \in File : \E j \in DOMAIN files[g] : Read(g, j) /\ Defines(g, j, table[k].name)
  BY DEF TableUndefined
<1>1. PICK j \in DOMAIN files[g] : Read(g, j) /\ Defines(g, j, table[k].name)
  BY <1>0
<1>2. /\ table[k].scnum = files[g][j].scnum /\ table[k].numaux = files[g][j].numaux
      /\ Function(files[g][j])
      /\ table[k].file = g
      /\ table[k].sym_index = IF Updated(k) THEN Number(g, j) ELSE Count(files[g], xflag, j)
  BY <1>1 DEF TableDefined
<1>3. files \in Links /\ g \in DOMAIN files /\ files[g][j].class = "ext"
  BY <1>1, Here DEF File, Defines
<1>4. files[g][j].scnum > 0
  BY <1>2, <1>3, DefinedOnce
<1> QED
  BY <1>1, <1>2, <1>4

\* The base of the globals, and numbers.
LEMMA NumberTypes ==
  ASSUME Typed
  PROVE  /\ Base \in Nat
         /\ \A g \in File : \A j \in Nat \ {0} : Number(g, j) \in Nat /\ Count(files[g], xflag, j) \in Nat
         /\ \A k \in Nat \ {0} : Units(table, k) \in Nat /\ GlobalNumber(k) \in Nat
<1>1. /\ local_syms \in [File -> Nat] /\ symbol_index \in [File -> Nat]
      /\ Len(files) \in File
  BY Here DEF Typed
<1>2. Base \in Nat
  BY <1>1 DEF Base
<1>3. ASSUME NEW g \in File, NEW j \in Nat \ {0}
      PROVE  Number(g, j) \in Nat /\ Count(files[g], xflag, j) \in Nat
  <2>1. Count(files[g], xflag, j) \in Nat
    BY CountStep
  <2> QED
    BY <1>1, <2>1 DEF Number
<1>4. ASSUME NEW k \in Nat \ {0} PROVE Units(table, k) \in Nat /\ GlobalNumber(k) \in Nat
  <2>1. Units(table, k) \in Nat
    BY UnitsMonotone
  <2> QED
    BY <1>2, <2>1 DEF GlobalNumber
<1> QED
  BY <1>2, <1>3, <1>4

\* A symbol gets its number.
LEMMA UpdateSymbolKeeps == ASSUME IInv, UpdateSymbol PROVE IInv'
<1>1. /\ Typed /\ LocalCounts /\ TableKnows /\ TableDefined /\ TableUndefined /\ GlobalNumbers
      /\ Bases /\ Lengths
  BY DEF IInv
<1>2. /\ pc = "update" /\ pc' = pc /\ n \in DOMAIN table /\ n' = n + 1
      /\ table' = [table EXCEPT ![n].sym_index = IndexOf(table[n])]
      /\ index' = IF IsLocal(table[n]) THEN index ELSE index + 1 + table[n].numaux
      /\ f' = f /\ files' = files /\ xflag' = xflag /\ File' = File
      /\ local_syms' = local_syms /\ symbol_index' = symbol_index
      /\ total_output_symbols' = total_output_symbols /\ num_output_syms' = num_output_syms
      /\ out' = out /\ lastfile' = lastfile /\ nextfile' = nextfile /\ slots' = slots
  BY DEF UpdateSymbol, input, update, pass2, File
<1>3. /\ files \in Links /\ f \in File /\ File = 1 .. Len(files) /\ Len(files) \in Nat \ {0}
      /\ Len(table) \in Nat /\ DOMAIN table = 1 .. Len(table) /\ n \in Nat \ {0}
      /\ local_syms \in [File -> Nat] /\ symbol_index \in [File -> Nat] /\ index \in Nat
      /\ table \in Seq(TableSymbol) /\ table[n] \in TableSymbol
      /\ table[n].numaux \in {0, 1}
  BY <1>1, <1>2, Here, TableShape DEF Typed
<1>4. /\ DOMAIN table' = DOMAIN table
      /\ \A k \in DOMAIN table : k # n => table'[k] = table[k]
      /\ table'[n] = [table[n] EXCEPT !.sym_index = IndexOf(table[n])]
  BY <1>2, <1>3
<1>5. /\ table'[n].name = table[n].name /\ table'[n].scnum = table[n].scnum
      /\ table'[n].file = table[n].file /\ table'[n].numaux = table[n].numaux
      /\ table'[n].aux = table[n].aux /\ table'[n].local_flag = table[n].local_flag
      /\ table'[n].sym_index = IndexOf(table[n])
  BY <1>3, <1>4 DEF TableSymbol
<1>6. \A k \in DOMAIN table :
        /\ table'[k].name = table[k].name /\ table'[k].scnum = table[k].scnum
        /\ table'[k].file = table[k].file /\ table'[k].numaux = table[k].numaux
        /\ table'[k].aux = table[k].aux /\ table'[k].local_flag = table[k].local_flag
        /\ k # n => table'[k].sym_index = table[k].sym_index
  BY <1>4, <1>5
<1>7. /\ \A g, j : Read(g, j)' /\ Read(g, j) /\ ~Passed(g, j)' /\ ~Passed(g, j)
      /\ \A g, j : Number(g, j)' = Number(g, j)
      /\ Base' = Base
  BY <1>2 DEF Read, Passed, Late, Number, Base
<1>8. \A k \in DOMAIN table : Updated(k)' <=> (Updated(k) \/ k = n)
  BY <1>2, <1>3 DEF Updated
<1>9. \A k \in 1 .. (Len(table) + 1) :
        Units(table', k) = Units(table, k) /\ GlobalNumber(k)' = GlobalNumber(k)
  <2>1. ASSUME NEW k \in 1 .. (Len(table) + 1) PROVE Units(table', k) = Units(table, k)
    <3>1. ASSUME NEW i \in 1 .. (k - 1)
          PROVE  (table'[i].local_flag <=> table[i].local_flag) /\ table'[i].numaux = table[i].numaux
      <4>1. i \in DOMAIN table
        BY <1>3, <2>1
      <4>2. table'[i].local_flag = table[i].local_flag /\ table'[i].numaux = table[i].numaux
        BY <1>6, <4>1
      <4> QED
        BY <4>2
    <3> QED
      BY <1>3, <2>1, <3>1, UnitsSame
  <2>2. ASSUME NEW k \in 1 .. (Len(table) + 1) PROVE GlobalNumber(k)' = GlobalNumber(k)
    BY <1>7, <2>1 DEF GlobalNumber
  <2> QED
    BY <2>1, <2>2
<1>10. /\ IsLocal(table[n]) <=> table[n].local_flag
       /\ ~Updated(n)
       /\ IndexOf(table[n]) \in Nat
  <2>1. ~Updated(n)
    BY <1>2, <1>3 DEF Updated
  <2>2. CASE table[n].local_flag
    <3>0. PICK g \in File : \E j \in DOMAIN files[g] :
            /\ table[n].scnum > 0 /\ table[n].file = g
            /\ table[n].sym_index = IF Updated(n) THEN Number(g, j) ELSE Count(files[g], xflag, j)
      BY <1>1, <1>2, <2>2, LocalSymbol
    <3>1. PICK j \in DOMAIN files[g] :
            /\ table[n].scnum > 0 /\ table[n].file = g
            /\ table[n].sym_index = IF Updated(n) THEN Number(g, j) ELSE Count(files[g], xflag, j)
      BY <3>0
    <3>2. j \in Nat \ {0}
      BY <1>1, Here
    <3>3. table[n].sym_index \in Nat /\ symbol_index[table[n].file] \in Nat
      BY <1>1, <1>3, <2>1, <3>1, <3>2, NumberTypes
    <3> QED
      BY <2>1, <2>2, <3>1, <3>3 DEF IsLocal, IndexOf
  <2>3. CASE ~table[n].local_flag
    BY <1>3, <2>1, <2>3 DEF IsLocal, IndexOf
  <2> QED
    BY <2>2, <2>3
<1>11. LocalCounts' /\ TableKnows'
  <2>1. LocalCounts'
    BY <1>1, <1>2 DEF LocalCounts, Reached
  <2>2. TableKnows'
    BY <1>1, <1>2, <1>4, <1>6, <1>7 DEF TableKnows
  <2> QED
    BY <2>1, <2>2
<1>12. TableUndefined'
  <2>1. SUFFICES ASSUME NEW k \in DOMAIN table,
                        \A g \in File : \A j \in DOMAIN files[g] : ~Defines(g, j, table[k].name)
        PROVE  table[k].scnum = 0 /\ table[k].numaux = 0 /\ ~table[k].local_flag
    BY <1>2, <1>4, <1>6, <1>7 DEF TableUndefined, Defines
  <2> QED
    BY <1>1, <2>1 DEF TableUndefined
<1>13. TableDefined'
  <2>1. SUFFICES ASSUME NEW k \in DOMAIN table, NEW g \in File, NEW j \in DOMAIN files[g],
                        Defines(g, j, table[k].name)
        PROVE  LET e == files[g][j] IN
               /\ table'[k].scnum = e.scnum /\ table'[k].numaux = e.numaux
               /\ table'[k].local_flag <=> Function(e)
               /\ Function(e) => /\ table'[k].file = g
                                 /\ table'[k].sym_index = IF Updated(k)' THEN Number(g, j)
                                                          ELSE Count(files[g], xflag, j)
               /\ e.numaux = 1 => /\ table'[k].aux.endndx = files[g][j + 1].endndx
                                  /\ table'[k].aux.tagndx = files[g][j + 1].tagndx
    BY <1>2, <1>4, <1>6, <1>7 DEF TableDefined, Defines
  <2> DEFINE e == files[g][j]
  <2>2. /\ table[k].scnum = e.scnum /\ table[k].numaux = e.numaux
        /\ table[k].local_flag <=> Function(e)
        /\ Function(e) => /\ table[k].file = g
                          /\ table[k].sym_index = IF Updated(k) THEN Number(g, j)
                                                  ELSE Count(files[g], xflag, j)
        /\ e.numaux = 1 => /\ table[k].aux.endndx = files[g][j + 1].endndx
                           /\ table[k].aux.tagndx = files[g][j + 1].tagndx
    BY <1>1, <1>7, <2>1 DEF TableDefined
  <2>3. ASSUME Function(e)
        PROVE  table'[k].sym_index = IF Updated(k)' THEN Number(g, j) ELSE Count(files[g], xflag, j)
    <3>1. CASE k # n
      BY <1>6, <1>8, <2>2, <2>3, <3>1
    <3>2. CASE k = n
      <4>1. table[n].sym_index = Count(files[g], xflag, j) /\ IsLocal(table[n]) /\ table[n].file = g
        BY <1>10, <2>2, <2>3, <3>2
      <4>2. j \in Nat \ {0}
        BY <1>1, Here
      <4>3. Count(files[g], xflag, j) \in Nat /\ symbol_index[g] \in Nat
        BY <1>1, <1>3, <4>2, NumberTypes
      <4>4. table'[n].sym_index = Number(g, j)
        BY <1>5, <4>1, <4>3 DEF IndexOf, Number
      <4> QED
        BY <1>8, <2>1, <3>2, <4>4
    <3> QED
      BY <3>1, <3>2
  <2> QED
    BY <1>6, <2>1, <2>2, <2>3
<1>14. GlobalNumbers'
  <2>1. SUFFICES ASSUME NEW k \in DOMAIN table, Updated(k)', ~table[k].local_flag
        PROVE  table'[k].sym_index = GlobalNumber(k)
    BY <1>3, <1>4, <1>6, <1>9 DEF GlobalNumbers
  <2>2. CASE k = n
    BY <1>1, <1>2, <1>5, <1>10, <2>1, <2>2 DEF IndexOf, Lengths
  <2>3. CASE k # n
    BY <1>1, <1>6, <1>8, <2>1, <2>3 DEF GlobalNumbers
  <2> QED
    BY <2>2, <2>3
<1>15. index' = Base + Units(table', n') /\ index' \in Nat
  <2>1. Units(table', n + 1) = Units(table, n + 1)
    <3>1. n + 1 \in 1 .. (Len(table) + 1)
      BY <1>2, <1>3
    <3> QED
      BY <1>9, <3>1
  <2>2. Units(table, n) \in Nat /\ Base \in Nat /\ index = Base + Units(table, n)
    BY <1>1, <1>2, <1>3, NumberTypes DEF Lengths, GlobalNumber
  <2>3. Units(table, n + 1) = Units(table, n) + (IF table[n].local_flag THEN 0 ELSE 1 + table[n].numaux)
    BY SMTT(40), <1>3, <2>2, UnitsStep
  <2>4. CASE table[n].local_flag
    BY <1>2, <1>3, <1>10, <2>1, <2>2, <2>3, <2>4
  <2>5. CASE ~table[n].local_flag
    <3>1. index' = index + 1 + table[n].numaux
      BY <1>2, <1>10, <2>5
    <3>2. Units(table, n + 1) = Units(table, n) + 1 + table[n].numaux
      BY SMTT(40), <1>3, <2>2, <2>3, <2>5
    <3>3. Units(table', n') = Units(table, n) + 1 + table[n].numaux
      BY <1>2, <2>1, <3>2
    <3>4. table[n].numaux \in Nat
      BY <1>3
    <3> QED
      BY <2>2, <3>1, <3>3, <3>4
  <2> QED
    BY <2>4, <2>5
<1>16. Typed'
  <2>1. table' \in Seq(TableSymbol)
    <3>1. table'[n] \in TableSymbol
      <4>1. table[n] \in TableSymbol
        BY <1>3
      <4>2. table'[n].sym_index \in Nat
        BY <1>4, <1>10
      <4> QED
        BY <1>4, <4>1, <4>2 DEF TableSymbol
    <3> QED
      BY <1>2, <1>3, <1>4, <3>1
  <2>2. Len(table') = Len(table)
    BY <1>3, <1>4, <2>1
  <2> QED
    BY <1>1, <1>2, <1>3, <1>15, <2>1, <2>2 DEF Typed
<1>17. Bases'
  BY <1>1, <1>2 DEF Bases, Indexed
<1>18. Lengths' /\ Early'
  <2>1. index' = GlobalNumber(n)'
    BY <1>7, <1>15 DEF GlobalNumber
  <2> QED
    BY <1>1, <1>2, <2>1 DEF Lengths, Early, Late
<1> QED
  BY <1>11, <1>12, <1>13, <1>14, <1>16, <1>17, <1>18, NothingWrittenNext DEF IInv

\* The second pass begins with the first entry of the first file.
LEMMA UpdateDoneKeeps == ASSUME IInv, UpdateDone PROVE IInv'
<1>1. /\ Typed /\ LocalCounts /\ TableKnows /\ TableDefined /\ TableUndefined /\ GlobalNumbers
      /\ Bases /\ Lengths
  BY DEF IInv
<1>2. /\ pc = "update" /\ pc' = "local" /\ n \notin DOMAIN table /\ n' = 1
      /\ total_output_symbols' = index /\ index' = symbol_index[1]
      /\ f' = f /\ files' = files /\ xflag' = xflag /\ File' = File
      /\ local_syms' = local_syms /\ table' = table /\ symbol_index' = symbol_index
      /\ num_output_syms' = num_output_syms
      /\ out' = out /\ lastfile' = lastfile /\ nextfile' = nextfile /\ slots' = slots
  BY DEF UpdateDone, input, pass1, pass2, File
<1>3. /\ files \in Links /\ f \in File /\ File = 1 .. Len(files) /\ Len(files) \in Nat \ {0}
      /\ Len(table) \in Nat /\ DOMAIN table = 1 .. Len(table) /\ n \in Nat \ {0}
      /\ local_syms \in [File -> Nat] /\ symbol_index \in [File -> Nat] /\ index \in Nat
      /\ f = 1 /\ n = Len(table) + 1 /\ Len(files[f]) \in Nat
      /\ \A g \in File : DOMAIN files[g] = 1 .. Len(files[g]) /\ Len(files[g]) \in Nat
  BY <1>1, <1>2, Here, TableShape DEF Typed
<1>4. /\ \A g \in File : \A j \in DOMAIN files[g] : ~Passed(g, j)' /\ ~Passed(g, j)
      /\ \A g, j : Read(g, j) /\ Read(g, j)'
      /\ \A k \in DOMAIN table : Updated(k) /\ Updated(k)'
      /\ \A g, j : Number(g, j)' = Number(g, j)
      /\ \A k : GlobalNumber(k)' = GlobalNumber(k)
  <2>1. \A k \in DOMAIN table : k < n
    BY <1>3
  <2> QED
    BY <1>2, <1>3, <2>1 DEF Passed, Late, Read, Updated, Number, GlobalNumber, Base
<1>5. symbol_index[1] = 0 /\ Number(1, 1) = 0
  <2>1. symbol_index[1] = 0
    BY <1>1, <1>2, <1>3 DEF Bases, Indexed
  <2> QED
    BY <2>1, CountStep DEF Number
<1>6. LocalCounts' /\ TableKnows' /\ TableUndefined' /\ GlobalNumbers' /\ Bases'
  BY <1>1, <1>2, <1>4
     DEF LocalCounts, Reached, TableKnows, TableUndefined, GlobalNumbers, Bases, Indexed, Defines
<1>7. TableDefined'
  BY <1>1, <1>2, <1>4 DEF TableDefined, Defines
<1>8. Typed'
  <2>1. Begins(files[1], 1)
    BY <1>1, <1>3, FirstEntry
  <2> QED
    BY <1>1, <1>2, <1>3, <2>1 DEF Typed
<1>9. out' = << >> /\ lastfile' = -1 /\ slots' = {} /\ num_output_syms' = 0 /\ index' = 0
  BY <1>1, <1>2, <1>5 DEF Lengths, Early
<1>10. Lengths'
  <2>1. Number(f, n)' = 0 /\ symbol_index'[f'] = 0
    <3>1. Number(f, n)' = symbol_index'[1] + Count(files[1], xflag, 1)
      BY <1>2, <1>3 DEF Number
    <3> QED
      BY <1>2, <1>3, <1>5, <3>1 DEF Number
  <2>2. total_output_symbols' = GlobalNumber(Len(table) + 1)'
    <3>1. index = Base + Units(table, Len(table) + 1)
      BY <1>1, <1>2, <1>3 DEF Lengths, GlobalNumber
    <3> QED
      BY <1>2, <3>1 DEF GlobalNumber, Base
  <2>3. Len(out') = 0
    BY <1>9
  <2> QED
    BY <1>2, <1>9, <2>1, <2>2, <2>3 DEF Lengths, Early, Late
<1>11. (LocalsWritten /\ GlobalsWritten /\ SlotsGiven)'
  BY <1>2, <1>4, <1>9 DEF LocalsWritten, GlobalsWritten, SlotsGiven, Late
<1>12. Chain'
  <2>1. nextfile' = -1
    BY <1>1, <1>2 DEF Lengths, Early
  <2>2. \A g \in File : nextfile' <= symbol_index'[g]
    BY SMTT(40), <1>2, <1>3, <2>1
  <2>3. pc' = "local" => nextfile' <= symbol_index'[IF f' + 1 \in File' THEN f' + 1 ELSE f']
    BY <1>2, <1>3, <2>2
  <2> QED
    BY <1>2, <1>9, <2>3 DEF Chain, Late
<1> QED
  BY <1>6, <1>7, <1>8, <1>10, <1>11, <1>12 DEF IInv

-----------------------------------------------------------------------------
(* The second pass.                                                        *)

\* The entries of each file are apart from those of the others.
LEMMA FilesApart ==
  ASSUME Typed, LocalCounts, Bases, pc \notin {"pass1", "index"}
  PROVE  /\ \A g \in File : /\ symbol_index[g] \in Nat /\ local_syms[g] \in Nat
                            /\ local_syms[g] = Count(files[g], xflag, Len(files[g]) + 1)
                            /\ symbol_index[g] + local_syms[g] <= Base
                            /\ Number(g, Len(files[g]) + 1) = symbol_index[g] + local_syms[g]
         /\ \A g, h \in File : g < h => symbol_index[g] + local_syms[g] <= symbol_index[h]
         /\ \A g \in File : \A j \in DOMAIN files[g] : Kept(files[g], xflag, j) =>
              /\ Number(g, j) \in Nat
              /\ symbol_index[g] <= Number(g, j)
              /\ Number(g, j) < symbol_index[g] + local_syms[g]
              /\ \A k \in 1 .. (Len(files[g]) + 1) : j < k => Number(g, j) < Number(g, k)
<1>1. /\ local_syms \in [File -> Nat] /\ symbol_index \in [File -> Nat]
      /\ File = 1 .. Len(files) /\ Len(files) \in Nat \ {0}
      /\ \A g \in File : Len(files[g]) \in Nat /\ DOMAIN files[g] = 1 .. Len(files[g])
  BY Here DEF Typed
<1>2. /\ \A g, h \in File : g < h => symbol_index[g] + local_syms[g] <= symbol_index[h]
      /\ \A g \in File : local_syms[g] = Count(files[g], xflag, Len(files[g]) + 1)
  BY DEF Bases, Indexed, LocalCounts, Reached
<1>3. ASSUME NEW g \in File
      PROVE  /\ symbol_index[g] + local_syms[g] <= Base
             /\ Number(g, Len(files[g]) + 1) = symbol_index[g] + local_syms[g]
  <2>1. CASE g = Len(files)
    BY <1>1, <1>2, <2>1 DEF Base, Number
  <2>2. CASE g # Len(files)
    <3>1. g < Len(files) /\ Len(files) \in File
      BY <1>1, <2>2
    <3>2. /\ symbol_index[g] \in Nat /\ local_syms[g] \in Nat
          /\ symbol_index[Len(files)] \in Nat /\ local_syms[Len(files)] \in Nat
      BY <1>1, <3>1
    <3>3. symbol_index[g] + local_syms[g] <= symbol_index[Len(files)]
      BY <1>2, <3>1
    <3> QED
      BY <1>2, <3>2, <3>3 DEF Base, Number
  <2> QED
    BY <2>1, <2>2
<1>4. ASSUME NEW g \in File, NEW j \in DOMAIN files[g], Kept(files[g], xflag, j)
      PROVE  /\ Number(g, j) \in Nat /\ symbol_index[g] <= Number(g, j)
             /\ Number(g, j) < symbol_index[g] + local_syms[g]
             /\ \A k \in 1 .. (Len(files[g]) + 1) : j < k => Number(g, j) < Number(g, k)
  <2>1. ASSUME NEW k \in 1 .. (Len(files[g]) + 1), j < k
        PROVE  /\ Count(files[g], xflag, j) \in Nat /\ Count(files[g], xflag, k) \in Nat
               /\ Count(files[g], xflag, j) < Count(files[g], xflag, k)
    BY SMTT(40), <1>1, <1>4, <2>1, CountKept
  <2>2. symbol_index[g] \in Nat /\ j < Len(files[g]) + 1 /\ Len(files[g]) + 1 \in 1 .. (Len(files[g]) + 1)
    BY <1>1
  <2> QED
    BY <1>2, <1>3, <2>1, <2>2 DEF Number
<1> QED
  BY <1>1, <1>2, <1>3, <1>4

\* An entry of the file is through.
Advance ==
  /\ pc = "local" /\ pc' = pc /\ n <= Len(files[f]) /\ n' = n + 1 + Entry.numaux /\ f' = f
  /\ files' = files /\ xflag' = xflag /\ local_syms' = local_syms /\ symbol_index' = symbol_index
  /\ total_output_symbols' = total_output_symbols /\ num_output_syms' = num_output_syms

\* What such a step leaves as it was, and how far the file then is.
LEMMA AdvanceFacts ==
  ASSUME IInv, Advance
  PROVE  /\ files \in Links /\ f \in DOMAIN files /\ n \in DOMAIN files[f] /\ xflag \in BOOLEAN
         /\ File = DOMAIN files /\ File' = File /\ f \in Nat \ {0} /\ n \in Nat \ {0}
         /\ Entry = files[f][n] /\ Entry.class # "aux" /\ Entry.numaux \in {0, 1}
         /\ n' \in 1 .. (Len(files[f]) + 1) /\ n' > n /\ Begins(files[f], n')
         /\ \A g \in File : Len(files[g]) \in Nat /\ DOMAIN files[g] = 1 .. Len(files[g])
         /\ \A g \in File : \A j \in DOMAIN files[g] :
              Passed(g, j)' <=> Passed(g, j) \/ (g = f /\ j \in n .. (n + Entry.numaux))
         /\ \A g \in File : \A j \in DOMAIN files[g] : Passed(g, j) => g < f \/ (g = f /\ j < n)
         /\ \A g, j : Read(g, j) /\ Read(g, j)' /\ Number(g, j)' = Number(g, j)
         /\ \A k : Updated(k) /\ Updated(k)'
         /\ Base' = Base /\ Base \in Nat
         /\ Len(out) = Number(f, n) /\ index = Number(f, n) /\ index \in Nat
         /\ num_output_syms = symbol_index[f] /\ out \in Seq(Line) /\ symbol_index[f] \in Nat
<1>1. Typed /\ Lengths
  BY DEF IInv
<1>2. /\ files \in Links /\ f \in DOMAIN files /\ n \in DOMAIN files[f] /\ xflag \in BOOLEAN
      /\ File = DOMAIN files /\ File' = File /\ f \in Nat \ {0} /\ n \in Nat \ {0}
      /\ Entry = files[f][n] /\ Entry.class # "aux"
      /\ \A g \in File : Len(files[g]) \in Nat /\ DOMAIN files[g] = 1 .. Len(files[g])
      /\ File = 1 .. Len(files)
  BY <1>1, Here DEF Advance, File, Entry
<1>3. /\ Entry.numaux \in {0, 1} /\ n + Entry.numaux \in DOMAIN files[f]
      /\ Begins(files[f], n + 1 + Entry.numaux)
  BY <1>2, EntryShape
<1>4. ASSUME NEW g \in File, NEW j \in DOMAIN files[g]
      PROVE  /\ Passed(g, j)' <=> Passed(g, j) \/ (g = f /\ j \in n .. (n + Entry.numaux))
             /\ Passed(g, j) => g < f \/ (g = f /\ j < n)
  <2>1. g \in Nat /\ j \in Nat
    BY <1>2
  <2> QED
    BY SMTT(40), <1>2, <1>3, <2>1 DEF Passed, Late, Advance
<1>5. /\ \A g, j : Read(g, j) /\ Read(g, j)' /\ Number(g, j)' = Number(g, j)
      /\ \A k : Updated(k) /\ Updated(k)'
      /\ Base' = Base
  BY DEF Advance, Read, Number, Updated, Base
<1>6. /\ Len(out) = Number(f, n) /\ index = Number(f, n) /\ index \in Nat
      /\ num_output_syms = symbol_index[f] /\ out \in Seq(Line)
      /\ symbol_index[f] \in Nat /\ Base \in Nat
  BY <1>1, <1>2, NumberTypes DEF Lengths, Typed, Advance
<1>7. n' \in 1 .. (Len(files[f]) + 1) /\ n' > n /\ Begins(files[f], n')
  BY <1>2, <1>3 DEF Advance
<1> QED
  BY <1>2, <1>3, <1>4, <1>5, <1>6, <1>7

\* A line is added, and one for the auxiliary entry.
LEMMA LinesAdded ==
  ASSUME NEW s \in Seq(Line), NEW a \in Line, NEW r \in Seq(Line), Len(r) \in {0, 1}
  PROVE  /\ (s \o << a >>) \o r \in Seq(Line)
         /\ Len((s \o << a >>) \o r) = Len(s) + 1 + Len(r)
         /\ \A k \in DOMAIN s : ((s \o << a >>) \o r)[k] = s[k]
         /\ ((s \o << a >>) \o r)[Len(s) + 1] = a
         /\ Len(r) = 1 => ((s \o << a >>) \o r)[Len(s) + 2] = r[1]
<1> DEFINE p == s \o << a >>
<1>1. /\ p \in Seq(Line) /\ Len(p) = Len(s) + 1 /\ p[Len(s) + 1] = a
      /\ \A k \in DOMAIN s : p[k] = s[k]
      /\ Len(s) \in Nat /\ DOMAIN s = 1 .. Len(s) /\ DOMAIN p = 1 .. Len(p)
  OBVIOUS
<1> HIDE DEF p
<1>2. /\ p \o r \in Seq(Line) /\ Len(p \o r) = Len(p) + Len(r)
      /\ \A k \in DOMAIN p : (p \o r)[k] = p[k]
      /\ Len(r) = 1 => (p \o r)[Len(p) + 1] = r[1]
  BY SMTT(40), <1>1
<1>3. /\ p \o r \in Seq(Line) /\ Len(p \o r) = Len(s) + 1 + Len(r)
      /\ \A k \in DOMAIN s : (p \o r)[k] = s[k]
      /\ (p \o r)[Len(s) + 1] = a
      /\ Len(r) = 1 => (p \o r)[Len(s) + 2] = r[1]
  <2>1. (\A k \in DOMAIN s : k \in DOMAIN p) /\ Len(s) + 1 \in DOMAIN p
    BY <1>1
  <2>2. Len(p) + 1 = Len(s) + 2
    BY <1>1
  <2> QED
    BY <1>1, <1>2, <2>1, <2>2
<1> QED
  BY <1>3 DEF p

\* What the numbers of the entry and of the one behind it are.
LEMMA AdvanceNumbers ==
  ASSUME IInv, Advance
  PROVE  /\ ~Kept(files[f], xflag, n) => Number(f, n') = Number(f, n)
         /\ Kept(files[f], xflag, n) =>
              /\ Number(f, n') = Number(f, n) + 1 + Entry.numaux
              /\ Entry.numaux = 1 => Number(f, n + 1) = Number(f, n) + 1 /\ Kept(files[f], xflag, n + 1)
<1>1. /\ files \in Links /\ f \in DOMAIN files /\ n \in DOMAIN files[f] /\ xflag \in BOOLEAN
      /\ n \in Nat \ {0} /\ Entry = files[f][n] /\ Entry.class # "aux" /\ Entry.numaux \in {0, 1}
      /\ symbol_index[f] \in Nat
  BY AdvanceFacts
<1>2. n' = n + 1 + Entry.numaux
  BY DEF Advance
<1>3. \A i \in n .. (n' - 1) : Kept(files[f], xflag, i) <=> Kept(files[f], xflag, n)
  BY <1>1, <1>2, OwnEntry
<1>4. n' \in Nat /\ n <= n' /\ n' - n = 1 + Entry.numaux
  BY <1>1, <1>2
<1>5. /\ Count(files[f], xflag, n')
           = Count(files[f], xflag, n) + (IF Kept(files[f], xflag, n) THEN n' - n ELSE 0)
      /\ Count(files[f], xflag, n) \in Nat
  <2>1. Count(files[f], xflag, n) \in Nat
    BY <1>1, CountStep
  <2> QED
    BY <1>1, <1>3, <1>4, <2>1, CountAlike
<1>6. ASSUME Kept(files[f], xflag, n) PROVE Count(files[f], xflag, n + 1) = Count(files[f], xflag, n) + 1
  BY <1>1, <1>6, CountStep
<1>7. ASSUME Kept(files[f], xflag, n), Entry.numaux = 1 PROVE Kept(files[f], xflag, n + 1)
  BY <1>1, <1>7, OwnEntry
<1>8. Number(f, n) = symbol_index[f] + Count(files[f], xflag, n)
  BY DEF Number
<1>9. ASSUME Kept(files[f], xflag, n)
      PROVE  /\ Number(f, n') = Number(f, n) + 1 + Entry.numaux
             /\ Entry.numaux = 1 => Number(f, n + 1) = Number(f, n) + 1 /\ Kept(files[f], xflag, n + 1)
  <2>1. Number(f, n') = Number(f, n) + 1 + Entry.numaux
    <3>1. Number(f, n') = symbol_index[f] + Count(files[f], xflag, n')
      BY DEF Number
    <3> QED
      BY <1>1, <1>4, <1>5, <1>8, <1>9, <3>1
  <2>2. Number(f, n + 1) = Number(f, n) + 1
    <3>1. Number(f, n + 1) = symbol_index[f] + Count(files[f], xflag, n + 1)
      BY DEF Number
    <3> QED
      BY <1>1, <1>5, <1>6, <1>8, <1>9, <3>1
  <2> QED
    BY <1>7, <1>9, <2>1, <2>2
<1>10. ASSUME ~Kept(files[f], xflag, n) PROVE Number(f, n') = Number(f, n)
  <2>1. Number(f, n') = symbol_index[f] + Count(files[f], xflag, n')
    BY DEF Number
  <2> QED
    BY <1>1, <1>5, <1>8, <1>10, <2>1
<1> QED
  BY <1>9, <1>10

\* An entry that is left out changes nothing that is written.
LEMMA SkipLocals ==
  ASSUME IInv, Advance, ~Kept(files[f], xflag, n), out' = out
  PROVE  LocalsWritten'
<1>1. /\ files \in Links /\ f \in DOMAIN files /\ n \in DOMAIN files[f] /\ xflag \in BOOLEAN
      /\ n \in Nat \ {0} /\ Entry = files[f][n] /\ Entry.class # "aux" /\ Entry.numaux \in {0, 1}
      /\ File' = File /\ Base' = Base
      /\ \A g \in File : \A j \in DOMAIN files[g] :
           Passed(g, j)' <=> Passed(g, j) \/ (g = f /\ j \in n .. (n + Entry.numaux))
      /\ \A g, j : Number(g, j)' = Number(g, j)
  BY AdvanceFacts
<1>2. \A j \in n .. (n + Entry.numaux) : ~Kept(files[f], xflag, j)
  BY <1>1, OwnEntry
<1>3. \A g \in File : \A j \in DOMAIN files[g] :
        Kept(files[g], xflag, j) => (Passed(g, j)' <=> Passed(g, j))
  BY <1>1, <1>2
<1>4. LocalsWritten
  BY DEF IInv
<1>5. files' = files /\ xflag' = xflag /\ symbol_index' = symbol_index
  BY DEF Advance
<1>6. ASSUME NEW g, NEW j PROVE Right(g, j)' <=> Right(g, j)
  <2>1. /\ Number(g, j)' = Number(g, j) /\ Number(g, j - 1)' = Number(g, j - 1)
        /\ \A tagndx : TagOf(g, tagndx)' = TagOf(g, tagndx)
        /\ \A i : Of(g, i)' = Of(g, i)
    BY <1>1, <1>5 DEF TagOf, Of
  <2> QED
    BY <1>5, <2>1 DEF Right
<1> QED
  BY <1>1, <1>3, <1>4, <1>5, <1>6 DEF LocalsWritten

\* What is written of an entry has its number, and so has its auxiliary entry.
LEMMA WriteLocals ==
  ASSUME IInv, Advance, Kept(files[f], xflag, n),
         out' \in Seq(Line), Len(out') = Len(out) + 1 + Entry.numaux,
         \A k \in DOMAIN out : /\ out'[k].of = out[k].of
                               /\ out'[k].tagndx = out[k].tagndx /\ out'[k].endndx = out[k].endndx,
         out'[Len(out) + 1].of = Of(f, n),
         Entry.numaux = 1 =>
           LET line == out'[Len(out) + 2]
               aux  == files[f][n + 1] IN
           /\ line.of = AuxOf(Of(f, n))
           /\ line.tagndx = IF HasTag(Entry) THEN TagOf(f, aux.tagndx) ELSE aux.tagndx
           /\ aux.endndx = 0 \/ ~HasEnd(Entry) => line.endndx = aux.endndx
           /\ HasEnd(Entry) /\ aux.endndx # 0 /\ ~xflag
                => line.endndx = aux.endndx + symbol_index[f]
           /\ HasEnd(Entry) /\ aux.endndx # 0 /\ xflag /\ Entry.class = "ext"
                => line.endndx = Number(f, n) + 2
  PROVE  LocalsWritten'
<1>1. /\ files \in Links /\ f \in DOMAIN files /\ n \in DOMAIN files[f] /\ xflag \in BOOLEAN
      /\ n \in Nat \ {0} /\ Entry = files[f][n] /\ Entry.class # "aux" /\ Entry.numaux \in {0, 1}
      /\ File' = File /\ Base' = Base /\ File = DOMAIN files /\ f \in Nat
      /\ \A g \in File : \A j \in DOMAIN files[g] :
           Passed(g, j)' <=> Passed(g, j) \/ (g = f /\ j \in n .. (n + Entry.numaux))
      /\ \A g \in File : \A j \in DOMAIN files[g] : Passed(g, j) => g < f \/ (g = f /\ j < n)
      /\ \A g, j : Number(g, j)' = Number(g, j)
      /\ Len(out) = Number(f, n) /\ out \in Seq(Line) /\ symbol_index[f] \in Nat
      /\ \A g \in File : Len(files[g]) \in Nat /\ DOMAIN files[g] = 1 .. Len(files[g])
  BY AdvanceFacts
<1>2. LocalsWritten /\ Typed /\ LocalCounts /\ Bases /\ pc = "local"
  BY DEF IInv, Advance
<1>3. files' = files /\ xflag' = xflag /\ symbol_index' = symbol_index
  BY DEF Advance
<1>4. /\ Entry.numaux = 1 => /\ Number(f, n + 1) = Number(f, n) + 1 /\ Kept(files[f], xflag, n + 1)
                             /\ n + 1 \in DOMAIN files[f] /\ files[f][n + 1].class = "aux"
  BY SMTT(40), <1>1, AdvanceNumbers, EntryShape
<1>5. ASSUME NEW g, NEW j
      PROVE  /\ Number(g, j)' = Number(g, j) /\ Number(g, j - 1)' = Number(g, j - 1)
             /\ \A tagndx : TagOf(g, tagndx)' = TagOf(g, tagndx)
             /\ \A i : Of(g, i)' = Of(g, i)
  BY <1>1, <1>3 DEF TagOf, Of
<1>6. Len(out) \in Nat /\ DOMAIN out = 1 .. Len(out) /\ DOMAIN out' = 1 .. Len(out')
  BY <1>1
\* Lines written before stand below.
<1>7. ASSUME NEW g \in File, NEW j \in DOMAIN files[g], Passed(g, j), Kept(files[g], xflag, j)
      PROVE  Number(g, j) + 1 \in DOMAIN out
  <2>0. Len(out) = Number(f, n) /\ symbol_index[f] \in Nat
    BY <1>1
  <2>1. /\ Number(g, j) \in Nat /\ Number(g, j) < symbol_index[g] + local_syms[g]
        /\ symbol_index[g] \in Nat /\ local_syms[g] \in Nat
        /\ g < f => symbol_index[g] + local_syms[g] <= symbol_index[f]
    BY <1>1, <1>2, <1>7, FilesApart
  <2>2. CASE g < f
    <3>1. symbol_index[f] <= Number(f, n)
      <4>1. Count(files[f], xflag, n) \in Nat
        BY <1>1, CountStep
      <4> QED
        BY <1>1, <4>1 DEF Number
    <3> QED
      BY <1>6, <2>0, <2>1, <2>2, <3>1
  <2>3. CASE g = f /\ j < n
    <3>1. Number(g, j) < Number(f, n)
      <4>1. n \in 1 .. (Len(files[f]) + 1)
        BY SMTT(40), <1>1
      <4> QED
        BY <1>1, <1>2, <1>7, <2>3, <4>1, FilesApart
    <3> QED
      BY <1>6, <2>0, <2>1, <3>1
  <2> QED
    BY <1>1, <1>7, <2>2, <2>3
<1>8. ASSUME NEW g \in File, NEW j \in DOMAIN files[g], Passed(g, j)', Kept(files[g], xflag, j)
      PROVE  Right(g, j)'
  <2>1. CASE Passed(g, j)
    <3>1. Right(g, j)
      BY <1>2, <1>8, <2>1 DEF LocalsWritten
    <3>2. Number(g, j) + 1 \in DOMAIN out
      BY <1>7, <1>8, <2>1
    <3>3. LET k == Number(g, j) + 1 IN
            out'[k].of = out[k].of /\ out'[k].tagndx = out[k].tagndx /\ out'[k].endndx = out[k].endndx
      BY <3>2
    <3>4. CASE files[g][j].class # "aux"
      <4>1. Number(g, j)' = Number(g, j) /\ Of(g, j)' = Of(g, j) /\ files' = files
        BY <1>3, <1>5
      <4>2. out[Number(g, j) + 1].of = Of(g, j)
        BY <3>1, <3>4 DEF Right
      <4>3. out'[Number(g, j) + 1].of = Of(g, j)
        BY <3>3, <4>2
      <4> QED
        BY <3>4, <4>1, <4>3 DEF Right
    <3>5. CASE files[g][j].class = "aux"
      <4>1. /\ Number(g, j)' = Number(g, j) /\ Number(g, j - 1)' = Number(g, j - 1)
            /\ Of(g, j - 1)' = Of(g, j - 1)
            /\ TagOf(g, files[g][j].tagndx)' = TagOf(g, files[g][j].tagndx)
        BY <1>1, <1>3 DEF TagOf, Of
      <4> QED
        BY <1>3, <3>1, <3>3, <3>5, <4>1 DEF Right
    <3> QED
      BY <3>4, <3>5
  <2>2. CASE g = f /\ j = n
    <3>1. out'[Number(g, j)' + 1].of = Of(g, j)'
      <4>1. Number(g, j)' = Number(f, n) /\ Of(g, j)' = Of(f, n)
        BY <1>1, <1>5, <2>2
      <4> QED
        BY <1>1, <4>1
    <3> QED
      BY <1>1, <1>3, <2>2, <3>1 DEF Right
  <2>3. CASE g = f /\ j = n + 1 /\ Entry.numaux = 1
    <3>1. /\ j - 1 = n /\ Number(g, j)' + 1 = Len(out) + 2
      BY <1>1, <1>4, <1>5, <2>3
    <3>2. files[g][j].class = "aux" /\ files[g][j - 1] = Entry
      BY <1>1, <1>4, <2>3, <3>1
    <3>3. /\ Number(g, j)' + 1 = Len(out) + 2 /\ Number(g, j - 1)' = Number(f, n)
          /\ Of(g, j - 1)' = Of(f, n)
          /\ TagOf(g, files[g][j].tagndx)' = TagOf(f, files[g][j].tagndx)
      BY <1>1, <1>3, <2>3, <3>1 DEF TagOf, Of
    <3> QED
      BY <1>3, <2>3, <3>2, <3>3 DEF Right
  <2> QED
    BY SMTT(40), <1>1, <1>8, <2>1, <2>2, <2>3
<1>9. ASSUME NEW k \in DOMAIN out', k <= Base
      PROVE  \E g \in File : \E j \in DOMAIN files[g] :
               Passed(g, j)' /\ Kept(files[g], xflag, j) /\ k = Number(g, j) + 1
  <2>1. CASE k \in DOMAIN out
    <3>0. PICK g \in File : \E j \in DOMAIN files[g] :
            Passed(g, j) /\ Kept(files[g], xflag, j) /\ k = Number(g, j) + 1
      BY <1>2, <1>9, <2>1 DEF LocalsWritten
    <3>1. PICK j \in DOMAIN files[g] :
            Passed(g, j) /\ Kept(files[g], xflag, j) /\ k = Number(g, j) + 1
      BY <3>0
    <3> QED
      BY <1>1, <3>1
  <2>2. CASE k = Len(out) + 1
    <3> DEFINE here(g, j) == Passed(g, j)' /\ Kept(files[g], xflag, j) /\ k = Number(g, j) + 1
    <3>1. \A g, j : g = f /\ j = n => here(g, j)
      BY SMTT(40), <1>1, <2>2
    <3> HIDE DEF here
    <3>2. \E g \in File : \E j \in DOMAIN files[g] : here(g, j)
      BY <1>1, <3>1
    <3> QED
      BY <3>2 DEF here
  <2>3. CASE k = Len(out) + 2 /\ Entry.numaux = 1
    <3> DEFINE here(g, j) == Passed(g, j)' /\ Kept(files[g], xflag, j) /\ k = Number(g, j) + 1
    <3>1. \A g, j : g = f /\ j = n + 1 => here(g, j)
      <4>1. SUFFICES ASSUME NEW g, NEW j, g = f, j = n + 1 PROVE here(g, j)
        OBVIOUS
      <4>2. g \in File /\ j \in DOMAIN files[g] /\ j \in n .. (n + Entry.numaux)
        BY <1>1, <1>4, <2>3, <4>1
      <4>3. Passed(g, j)'
        BY <1>1, <4>1, <4>2
      <4>4. k = Number(g, j) + 1 /\ Kept(files[g], xflag, j)
        BY <1>1, <1>4, <2>3, <4>1
      <4> QED
        BY <4>3, <4>4
    <3> HIDE DEF here
    <3>2. \E g \in File : \E j \in DOMAIN files[g] : here(g, j)
      BY <1>1, <1>4, <2>3, <3>1
    <3> QED
      BY <3>2 DEF here
  <2>4. k \in 1 .. (Len(out) + 1 + Entry.numaux) /\ Entry.numaux \in {0, 1}
    BY <1>1, <1>6, <1>9
  <2> QED
    BY <1>6, <2>1, <2>2, <2>3, <2>4
<1>10. \A g \in File : \A j \in DOMAIN files[g] : Number(g, j)' = Number(g, j)
  BY <1>1
<1> QED
  BY <1>1, <1>3, <1>8, <1>9, <1>10 DEF LocalsWritten

\* What is written of other entries is no .file entry.
LEMMA NoFileLine ==
  ASSUME Typed, NEW g \in File, NEW j \in DOMAIN files[g],
         files[g][j].class \in {"ext", "stat", "tag"} \cup Debug,
         NEW h \in File, NEW i \in DOMAIN files[h], files[h][i].class = "file"
  PROVE  Of(g, j) # Of(h, i) /\ AuxOf(Of(g, j)) # Of(h, i)
<1>1. g \in Nat \ {0} /\ h \in Nat \ {0}
  BY Here
<1>2. Of(h, i) = <<h, i, "sym">>
  BY DEF Of
<1>3. CASE files[g][j].class = "ext"
  <2>1. Of(g, j) = <<0, files[g][j].name, "sym">>
    BY <1>3 DEF Of
  <2>2. AuxOf(Of(g, j)) = <<0, files[g][j].name, "aux">>
    BY <2>1 DEF AuxOf
  <2> QED
    BY <1>1, <1>2, <2>1, <2>2
<1>4. CASE files[g][j].class # "ext"
  <2>1. Of(g, j) = <<g, j, "sym">>
    BY <1>4 DEF Of
  <2>2. AuxOf(Of(g, j)) = <<g, j, "aux">>
    BY <2>1 DEF AuxOf
  <2>3. <<g, j, "sym">> # <<h, i, "sym">>
    <3>1. SUFFICES ASSUME g = h, j = i PROVE FALSE
      OBVIOUS
    <3>2. files[g][j].class = "file"
      BY <3>1
    <3> QED
      BY <3>2 DEF Debug
  <2> QED
    BY <1>2, <2>1, <2>2, <2>3
<1> QED
  BY <1>3, <1>4

\* The chain is left alone by entries of other classes.
LEMMA ExtendChain ==
  ASSUME IInv, Advance, Entry.class # "file", out' \in Seq(Line), Len(out) <= Len(out'),
         \A k \in DOMAIN out : out'[k].of = out[k].of /\ out'[k].value = out[k].value,
         \A k \in DOMAIN out' : k > Len(out) => out'[k].of \in {Of(f, n), AuxOf(Of(f, n))},
         lastfile' = lastfile, nextfile' = nextfile
  PROVE  Chain'
<1>1. /\ files \in Links /\ f \in File /\ n \in DOMAIN files[f]
      /\ Entry = files[f][n] /\ Entry.class # "aux" /\ File' = File /\ File = DOMAIN files
      /\ out \in Seq(Line)
  BY AdvanceFacts
<1>2. /\ files' = files /\ pc = "local" /\ pc' = "local" /\ ~Late /\ ~Late' /\ Typed /\ Chain
      /\ lastfile \in Int
  BY DEF Advance, IInv, Late, Typed
<1>3. Entry.class \in {"ext", "stat", "tag"} \cup Debug
  BY <1>1, EntryShape
<1>4. /\ Len(out) \in Nat /\ DOMAIN out = 1 .. Len(out) /\ DOMAIN out' = 1 .. Len(out')
      /\ Len(out') \in Nat
      /\ \A k \in DOMAIN out : k \in DOMAIN out' /\ out[k].value \in Nat /\ out'[k].value = out[k].value
  <2>1. \A k \in DOMAIN out : out[k] \in Line
    BY <1>1
  <2>2. \A k \in DOMAIN out : out[k].value \in Nat
    BY <2>1 DEF Line
  <2> QED
    BY <1>1, <2>2
<1>5. ASSUME NEW k \in DOMAIN out PROVE FileLine(k)' <=> FileLine(k)
  BY <1>2, <1>1 DEF FileLine, Of
<1>6. ASSUME NEW k \in DOMAIN out', k > Len(out) PROVE ~FileLine(k)'
  <2>1. SUFFICES ASSUME NEW h \in File, NEW i \in DOMAIN files[h], files[h][i].class = "file",
                        out'[k].of = Of(h, i)
        PROVE  FALSE
    <3>1. FileLine(k)' <=> \E g \in File : \E j \in DOMAIN files[g] :
                             files[g][j].class = "file" /\ out'[k].of = Of(g, j)
      BY <1>1, <1>2 DEF FileLine, Of
    <3> QED
      BY <3>1
  <2>2. out'[k].of \in {Of(f, n), AuxOf(Of(f, n))}
    BY <1>6
  <2> QED
    BY <1>1, <1>2, <1>3, <2>1, <2>2, NoFileLine
<1>7. ASSUME NEW k \in DOMAIN out', FileLine(k)', k # lastfile + 1, NEW next, next = out'[k].value
      PROVE  /\ next >= k
             /\ next + 1 \in DOMAIN out' /\ FileLine(next + 1)'
             /\ \A l \in (k + 1) .. next : ~FileLine(l)'
  <2>1. k \in DOMAIN out /\ FileLine(k) /\ next = out[k].value
    BY <1>4, <1>5, <1>6, <1>7
  <2>2. /\ next >= k /\ next + 1 \in DOMAIN out /\ FileLine(next + 1)
        /\ \A l \in (k + 1) .. next : ~FileLine(l)
    BY <1>2, <1>7, <2>1 DEF Chain
  <2>3. /\ \A l \in (k + 1) .. next : l \in DOMAIN out
        /\ next + 1 \in DOMAIN out'
    BY <1>4, <2>1, <2>2
  <2> QED
    BY <1>5, <2>2, <2>3
<1>8. ASSUME lastfile # -1
      PROVE  /\ lastfile + 1 \in DOMAIN out' /\ FileLine(lastfile + 1)'
             /\ \A k \in DOMAIN out' : k > lastfile + 1 => ~FileLine(k)'
             /\ out'[lastfile + 1].value = nextfile \/ nextfile <= lastfile
  <2>1. /\ lastfile + 1 \in DOMAIN out /\ FileLine(lastfile + 1)
        /\ \A k \in DOMAIN out : k > lastfile + 1 => ~FileLine(k)
        /\ out[lastfile + 1].value = nextfile \/ nextfile <= lastfile
    BY <1>2, <1>8 DEF Chain
  <2> QED
    BY SMTT(40), <1>4, <1>5, <1>6, <2>1
<1>9. nextfile' <= symbol_index'[IF f' + 1 \in File' THEN f' + 1 ELSE f']
  <2>1. nextfile <= symbol_index[IF f + 1 \in File THEN f + 1 ELSE f]
    BY <1>2 DEF Chain
  <2> QED
    BY <1>1, <2>1 DEF Advance
<1> QED
  BY <1>2, <1>7, <1>8, <1>9 DEF Chain

\* What is counted and where files begin does not change in the second pass.
LEMMA CountsStay ==
  ASSUME IInv, Advance PROVE LocalCounts' /\ Bases'
<1>1. LocalCounts /\ Bases /\ File' = File
  BY AdvanceFacts DEF IInv
<1> QED
  BY <1>1 DEF Advance, LocalCounts, Bases, Reached, Indexed

\* The table stays what it is, with an entry that has no tag to follow.
LEMMA TableStays ==
  ASSUME IInv, Advance, table' = table, ~(Unnumbered(Entry) /\ Entry.numaux = 1)
  PROVE  TableKnows' /\ TableDefined' /\ TableUndefined' /\ GlobalNumbers'
<1>1. /\ files \in Links /\ f \in File /\ n \in DOMAIN files[f]
      /\ Entry = files[f][n] /\ Entry.class # "aux" /\ File' = File /\ File = DOMAIN files
      /\ n \in Nat \ {0} /\ Entry.numaux \in {0, 1}
      /\ \A g \in File : \A j \in DOMAIN files[g] :
           Passed(g, j)' <=> Passed(g, j) \/ (g = f /\ j \in n .. (n + Entry.numaux))
      /\ \A g, j : Read(g, j) /\ Read(g, j)' /\ Number(g, j)' = Number(g, j)
      /\ \A k : Updated(k) /\ Updated(k)'
      /\ Base' = Base
  BY AdvanceFacts
<1>2. /\ files' = files /\ xflag' = xflag /\ symbol_index' = symbol_index
      /\ TableKnows /\ TableDefined /\ TableUndefined /\ GlobalNumbers
  BY DEF Advance, IInv
<1>3. TableKnows' /\ TableUndefined'
  BY <1>1, <1>2 DEF TableKnows, TableUndefined, Defines
<1>4. GlobalNumbers'
  <2>1. ASSUME NEW k \in DOMAIN table PROVE GlobalNumber(k)' = GlobalNumber(k)
    BY <1>1 DEF GlobalNumber
  <2> QED
    BY <1>1, <1>2, <2>1 DEF GlobalNumbers
<1>5. TableDefined'
  <2>1. SUFFICES ASSUME NEW k \in DOMAIN table, NEW g \in File, NEW j \in DOMAIN files[g],
                        Defines(g, j, table[k].name)
        PROVE  LET e == files[g][j] IN
               /\ table[k].scnum = e.scnum /\ table[k].numaux = e.numaux
               /\ table[k].local_flag <=> Function(e)
               /\ Function(e) => table[k].file = g /\ table[k].sym_index = Number(g, j)
               /\ e.numaux = 1 =>
                    /\ table[k].aux.endndx = files[g][j + 1].endndx
                    /\ table[k].aux.tagndx =
                         IF ~Function(e) /\ Passed(g, j)' THEN TagOf(g, files[g][j + 1].tagndx)
                                                          ELSE files[g][j + 1].tagndx
    BY <1>1, <1>2 DEF TableDefined, Defines, TagOf
  <2>2. LET e == files[g][j] IN
        /\ table[k].scnum = e.scnum /\ table[k].numaux = e.numaux
        /\ table[k].local_flag <=> Function(e)
        /\ Function(e) => table[k].file = g /\ table[k].sym_index = Number(g, j)
        /\ e.numaux = 1 =>
             /\ table[k].aux.endndx = files[g][j + 1].endndx
             /\ table[k].aux.tagndx =
                  IF ~Function(e) /\ Passed(g, j) THEN TagOf(g, files[g][j + 1].tagndx)
                                                  ELSE files[g][j + 1].tagndx
    BY <1>1, <1>2, <2>1 DEF TableDefined
  <2>3. ~Function(files[g][j]) /\ files[g][j].numaux = 1 => (Passed(g, j)' <=> Passed(g, j))
    <3>1. SUFFICES ASSUME ~Function(files[g][j]), files[g][j].numaux = 1, g = f, j \in n .. (n + Entry.numaux)
          PROVE  FALSE
      BY <1>1
    <3>2. files[g][j].class = "ext"
      BY <2>1 DEF Defines
    <3>3. j = n
      <4>1. SUFFICES ASSUME j = n + 1, Entry.numaux = 1 PROVE FALSE
        BY <1>1, <3>1
      <4>2. files[f][n + 1].class = "aux"
        BY <1>1, <4>1, EntryShape
      <4> QED
        BY <3>1, <3>2, <4>1, <4>2
    <3> QED
      BY <1>1, <3>1, <3>2, <3>3 DEF Unnumbered
  <2> QED
    BY <2>2, <2>3
<1> QED
  BY <1>3, <1>4, <1>5

\* The slots of the entries before still fit, and the new one does.
LEMMA SlotsStay ==
  ASSUME IInv, Advance, NEW new,
         DOMAIN table' = DOMAIN table,
         \A k \in DOMAIN table : /\ table'[k].name = table[k].name
                                 /\ table'[k].sym_index = table[k].sym_index,
         slots' = slots \/ \E err : slots' = slots \cup {NewSlot(new, err)},
         Entry.class \in {"ext", "stat"} \/ slots' = slots,
         Entry.class = "stat" => new = Number(f, n),
         Entry.class = "ext" => \A k \in DOMAIN table : table[k].name = Entry.name => new = table[k].sym_index
  PROVE  SlotsGiven'
<1>1. /\ files \in Links /\ f \in File /\ n \in DOMAIN files[f]
      /\ Entry = files[f][n] /\ File' = File /\ n \in Nat \ {0} /\ Entry.numaux \in {0, 1}
      /\ \A g \in File : \A j \in DOMAIN files[g] :
           Passed(g, j)' <=> Passed(g, j) \/ (g = f /\ j \in n .. (n + Entry.numaux))
      /\ \A g, j : Number(g, j)' = Number(g, j)
  BY AdvanceFacts
<1>2. files' = files /\ SlotsGiven
  BY DEF Advance, IInv
<1>3. ASSUME NEW s \in slots
      PROVE  /\ s.file \in File /\ s.old \in DOMAIN files[s.file] /\ Passed(s.file, s.old)
             /\ LET e == files[s.file][s.old] IN
                /\ e.class \in {"ext", "stat"}
                /\ e.class = "stat" => s.new = Number(s.file, s.old)
                /\ e.class = "ext" =>
                     \A k \in DOMAIN table : table[k].name = e.name => s.new = table[k].sym_index
  BY <1>2 DEF SlotsGiven
<1>4. ASSUME NEW s \in slots', NEW g, NEW j, s.file = g, s.old = j
      PROVE  /\ g \in File /\ j \in DOMAIN files[g] /\ Passed(g, j)'
             /\ LET e == files[g][j] IN
                /\ e.class \in {"ext", "stat"}
                /\ e.class = "stat" => s.new = Number(g, j)
                /\ e.class = "ext" =>
                     \A k \in DOMAIN table : table[k].name = e.name => s.new = table'[k].sym_index
  <2>1. CASE s \in slots
    BY <1>1, <1>3, <1>4, <2>1
  <2>2. CASE s \notin slots
    <3>1. PICK err : s = NewSlot(new, err)
      BY <2>2
    <3>2. s.file = f /\ s.old = n /\ s.new = new /\ Entry.class \in {"ext", "stat"}
      BY <2>2, <3>1 DEF NewSlot
    <3>3. g = f /\ j = n /\ Passed(g, j)'
      BY <1>1, <1>4, <3>2
    <3> QED
      BY <1>1, <3>2, <3>3
  <2> QED
    BY <2>1, <2>2
<1> QED
  BY <1>1, <1>2, <1>4 DEF SlotsGiven

\* After an entry control is where the next one will be written.
LEMMA LocalStep ==
  ASSUME IInv, Advance, index' = Number(f, n'), Len(out') = index', out' \in Seq(Line),
         table' \in Seq(TableSymbol), Len(table') = Len(table),
         \A k \in DOMAIN table : /\ table'[k].local_flag <=> table[k].local_flag
                                 /\ table'[k].numaux = table[k].numaux,
         lastfile' \in Int, nextfile' \in Int
  PROVE  Typed' /\ Lengths' /\ GlobalsWritten'
<1>1. /\ File' = File /\ n' \in 1 .. (Len(files[f]) + 1) /\ Begins(files[f], n')
      /\ \A g, j : Number(g, j)' = Number(g, j)
      /\ Base' = Base /\ num_output_syms = symbol_index[f] /\ f \in File
      /\ Len(files[f]) \in Nat
  BY AdvanceFacts DEF File
<1>2. /\ pc = "local" /\ pc' = "local" /\ f' = f /\ files' = files /\ xflag' = xflag
      /\ local_syms' = local_syms /\ symbol_index' = symbol_index
      /\ total_output_symbols' = total_output_symbols /\ num_output_syms' = num_output_syms
      /\ Typed /\ Lengths
  BY DEF Advance, IInv
<1>3. index' \in Nat
  <2>1. n' \in Nat \ {0}
    BY <1>1
  <2> QED
    BY <1>1, <1>2, <2>1, NumberTypes
<1>4. Typed'
  BY <1>1, <1>2, <1>3 DEF Typed
<1>5. GlobalsWritten'
  BY <1>2 DEF GlobalsWritten, Late
<1>6. total_output_symbols' = GlobalNumber(Len(table) + 1)'
  <2>1. Len(table) \in Nat /\ DOMAIN table = 1 .. Len(table)
    BY <1>2, TableShape
  <2>2. Units(table', Len(table) + 1) = Units(table, Len(table) + 1)
    <3>1. \A k \in 1 .. ((Len(table) + 1) - 1) : /\ table'[k].local_flag <=> table[k].local_flag
                                                 /\ table'[k].numaux = table[k].numaux
      BY <2>1
    <3>2. Len(table) + 1 \in Nat
      BY <2>1
    <3> QED
      BY <3>1, <3>2, UnitsSame
  <2>3. total_output_symbols = GlobalNumber(Len(table) + 1)
    BY <1>2 DEF Lengths, Early
  <2>4. total_output_symbols' = Base' + Units(table', Len(table') + 1)
    BY <1>1, <1>2, <2>2, <2>3 DEF GlobalNumber
  <2> QED
    BY <2>4 DEF GlobalNumber
<1>7. index' = Number(f, n)'
  BY <1>2 DEF Number
<1>8. Lengths'
  <2>1. ~Early' /\ ~Late'
    BY <1>2 DEF Early, Late
  <2>2. num_output_syms' = symbol_index'[f']
    BY <1>1, <1>2
  <2> QED
    BY <1>2, <1>6, <1>7, <2>1, <2>2 DEF Lengths
<1> QED
  BY <1>4, <1>5, <1>8

\* How entries are named in what is written.
LEMMA OfShape ==
  ASSUME NEW g \in Nat, NEW j \in Nat, files[g][j].class = "ext" => files[g][j].name \in Nat
  PROVE  Of(g, j) \in Name /\ AuxOf(Of(g, j)) \in Name
<1>1. CASE files[g][j].class = "ext"
  <2>1. Of(g, j) = <<0, files[g][j].name, "sym">> /\ files[g][j].name \in Nat
    BY <1>1 DEF Of
  <2>2. AuxOf(Of(g, j)) = <<0, files[g][j].name, "aux">>
    BY <2>1 DEF AuxOf
  <2> QED
    BY <2>1, <2>2 DEF Name
<1>2. CASE files[g][j].class # "ext"
  <2>1. Of(g, j) = <<g, j, "sym">>
    BY <1>2 DEF Of
  <2>2. AuxOf(Of(g, j)) = <<g, j, "aux">>
    BY <2>1 DEF AuxOf
  <2> QED
    BY <2>1, <2>2 DEF Name
<1> QED
  BY <1>1, <1>2

\* The parts of a line.
LEMMA LineShape ==
  ASSUME NEW of \in Name, NEW aux, aux.tagndx \in Nat, aux.endndx \in Nat, NEW value \in Nat
  PROVE  /\ Written(of, aux, value) \in Line
         /\ Written(of, aux, value).of = of /\ Written(of, aux, value).value = value
         /\ Written(of, aux, value).tagndx = aux.tagndx
         /\ Written(of, aux, value).endndx = aux.endndx
BY DEF Written, Line

\* A line for a symbol has no numbers of other entries.
LEMMA PlainShape == NoAux.tagndx = 0 /\ NoAux.endndx = 0 /\ NoAux.tagndx \in Nat /\ NoAux.endndx \in Nat
BY DEF NoAux

\* An auxiliary entry with the numbers that are written.
LEMMA MovedShape ==
  ASSUME NEW aux \in AuxEntry, NEW tag \in BOOLEAN, NEW end \in BOOLEAN, NEW xend \in Nat,
         symbol_index[f] \in Nat
  PROVE  LET moved == Moved(aux, tag, end, xend) IN
         /\ moved.tagndx \in Nat /\ moved.endndx \in Nat
         /\ moved.tagndx = IF tag THEN TagOf(f, aux.tagndx) ELSE aux.tagndx
         /\ aux.endndx = 0 \/ ~end => moved.endndx = aux.endndx
         /\ end /\ aux.endndx # 0
              => moved.endndx = IF xflag THEN xend ELSE aux.endndx + symbol_index[f]
<1>1. aux.tagndx \in Nat /\ aux.endndx \in Nat
  BY DEF AuxEntry
<1>2. /\ Moved(aux, tag, end, xend).tagndx = IF tag THEN NewTag(aux.tagndx) ELSE aux.tagndx
      /\ Moved(aux, tag, end, xend).endndx = IF end THEN NewEnd(aux.endndx, xend) ELSE aux.endndx
  BY DEF Moved, AuxEntry
<1>3. NewTag(aux.tagndx) = TagOf(f, aux.tagndx) /\ NewTag(aux.tagndx) \in Nat
  BY <1>1 DEF NewTag, TagOf
<1>4. NewEnd(aux.endndx, xend) = IF aux.endndx = 0 THEN 0
                                 ELSE IF xflag THEN xend ELSE aux.endndx + symbol_index[f]
  BY DEF NewEnd
<1> QED
  BY <1>1, <1>2, <1>3, <1>4

\* What output_local_symbols moves is what is a tag or an end.
LEMMA RelocGuards ==
  ASSUME NEW link \in Links, NEW g \in DOMAIN link, NEW j \in DOMAIN link[g],
         link[g][j].class \in {"stat", "tag"} \cup Debug, link[g][j].numaux = 1
  PROVE  LET e == link[g][j] IN
         /\ RelocTag(e) \in BOOLEAN /\ RelocEnd(e) \in BOOLEAN
         /\ RelocTag(e) <=> HasTag(e)
         /\ RelocEnd(e) <=> HasEnd(e)
<1>1. link[g][j].class = "stat" => link[g][j].scnum > 0
  <2>1. link[g][j].class # "aux"
    BY DEF Debug
  <2> QED
    BY <2>1, AuxShape DEF Described
<1> QED
  BY <1>1 DEF RelocTag, RelocEnd, HasTag, HasEnd, Function, Debug

\* A global entry and the symbol of its name.
LEMMA SymbolHere ==
  ASSUME IInv, pc = "local", n <= Len(files[f]), Entry.class = "ext"
  PROVE  \E k \in DOMAIN table :
           /\ Symbol = table[k] /\ table[k].name = Entry.name
           /\ \A l \in DOMAIN table : table[l].name = Entry.name => l = k
           /\ (Symbol.local_flag /\ Entry.scnum > 0) <=> Function(Entry)
           /\ Entry.scnum # 0 => Symbol.numaux = Entry.numaux
           /\ Function(Entry) => Symbol.sym_index = Number(f, n)
           /\ Entry.scnum # 0 /\ Entry.numaux = 1 =>
                /\ Symbol.aux.endndx = files[f][n + 1].endndx
                /\ Symbol.aux.tagndx = files[f][n + 1].tagndx
           /\ Symbol.aux \in AuxEntry /\ Symbol.numaux \in {0, 1}
           /\ Symbol.sym_index \in Nat
<1>1. /\ Typed /\ TableKnows /\ TableDefined
      /\ files \in Links /\ f \in DOMAIN files /\ f \in File /\ n \in DOMAIN files[f]
      /\ Entry = files[f][n] /\ f \in Nat /\ n \in Nat
  BY Here DEF IInv, File, Entry
<1>2. /\ Read(f, n) /\ \A k : Updated(k)
      /\ ~Passed(f, n)
  BY <1>1 DEF Read, Updated, Passed, Late
<1>3. PICK k \in DOMAIN table : table[k].name = Entry.name
  BY <1>1, <1>2 DEF TableKnows
<1>4. Symbol = table[k] /\ \A l \in DOMAIN table : table[l].name = Entry.name => l = k
  BY <1>1, <1>3 DEF Symbol, TableKnows
<1>5. ASSUME Entry.scnum # 0
      PROVE  /\ table[k].numaux = Entry.numaux
             /\ table[k].local_flag <=> Function(Entry)
             /\ Function(Entry) => table[k].sym_index = Number(f, n)
             /\ Entry.numaux = 1 => /\ table[k].aux.endndx = files[f][n + 1].endndx
                                    /\ table[k].aux.tagndx = files[f][n + 1].tagndx
  <2>1. Defines(f, n, table[k].name)
    BY <1>1, <1>3, <1>5 DEF Defines
  <2> QED
    BY <1>1, <1>2, <2>1 DEF TableDefined
<1>6. /\ Entry.scnum > 0 => Entry.scnum # 0
      /\ Function(Entry) => Entry.scnum > 0
  BY <1>1, DefinedOnce, EntryShape
<1>7. table[k].aux \in AuxEntry /\ table[k].numaux \in {0, 1} /\ table[k].sym_index \in Nat
  <2>1. table[k] \in TableSymbol
    BY <1>1, TableShape
  <2> QED
    BY <2>1 DEF TableSymbol
<1> QED
  BY <1>3, <1>4, <1>5, <1>6, <1>7

\* A function of the file is written.
LEMMA OutputFunctionKeeps == ASSUME IInv, OutputFunction PROVE IInv'
<1>1. /\ pc = "local" /\ n <= Len(files[f]) /\ Entry.class = "ext"
      /\ Symbol.local_flag /\ Entry.scnum > 0
      /\ table' = table /\ lastfile' = lastfile /\ nextfile' = nextfile
      /\ n' = n + 1 + Entry.numaux /\ index' = index + 1 + Entry.numaux
      /\ Advance
  BY DEF OutputFunction, AtEntry, input, pass1, update, Advance
<1>2. /\ files \in Links /\ f \in DOMAIN files /\ n \in DOMAIN files[f] /\ f \in Nat /\ n \in Nat
      /\ Entry = files[f][n] /\ Entry.class # "aux" /\ Entry.numaux \in {0, 1}
      /\ Len(out) = Number(f, n) /\ index = Number(f, n) /\ index \in Nat /\ out \in Seq(Line)
      /\ symbol_index[f] \in Nat /\ xflag \in BOOLEAN
  BY <1>1, AdvanceFacts
<1>3. Function(Entry) /\ Kept(files[f], xflag, n)
  <2>1. Function(Entry)
    BY <1>1, SymbolHere
  <2> QED
    BY <1>1, <1>2, <2>1, OwnEntry
<1>4. /\ Symbol.sym_index = Number(f, n) /\ Symbol.numaux = Entry.numaux
      /\ Symbol.aux \in AuxEntry
      /\ Entry.numaux = 1 => /\ Symbol.aux.endndx = files[f][n + 1].endndx
                             /\ Symbol.aux.tagndx = files[f][n + 1].tagndx
      /\ \A k \in DOMAIN table : table[k].name = Entry.name => table[k].sym_index = Number(f, n)
  <2>1. Entry.scnum # 0
    BY <1>1, <1>2, EntryShape
  <2> QED
    BY <1>1, <1>3, <2>1, SymbolHere
<1> DEFINE a == Written(Of(f, n), NoAux, 0)
           b == Written(AuxOf(Of(f, n)), Moved(Symbol.aux, TRUE, TRUE, index + 2), 0)
           r == IF Symbol.numaux = 0 THEN << >> ELSE << b >>
<1>5. a \in Line /\ a.of = Of(f, n)
  <2>1. Of(f, n) \in Name
    BY <1>2, EntryShape, OfShape
  <2> QED
    BY <2>1, LineShape, PlainShape
<1>6. /\ b \in Line /\ b.of = AuxOf(Of(f, n))
      /\ b.tagndx = TagOf(f, Symbol.aux.tagndx)
      /\ b.endndx = IF Symbol.aux.endndx = 0 THEN 0
                    ELSE IF xflag THEN index + 2 ELSE Symbol.aux.endndx + symbol_index[f]
  <2> DEFINE moved == Moved(Symbol.aux, TRUE, TRUE, index + 2)
  <2>1. /\ moved.tagndx = TagOf(f, Symbol.aux.tagndx)
        /\ moved.tagndx \in Nat /\ moved.endndx \in Nat
        /\ moved.endndx
             = IF Symbol.aux.endndx = 0 THEN 0
               ELSE IF xflag THEN index + 2 ELSE Symbol.aux.endndx + symbol_index[f]
    <3>1. index + 2 \in Nat /\ TRUE \in BOOLEAN
      BY <1>2
    <3>2. /\ moved.tagndx \in Nat /\ moved.endndx \in Nat
          /\ moved.tagndx = TagOf(f, Symbol.aux.tagndx)
          /\ Symbol.aux.endndx = 0 => moved.endndx = Symbol.aux.endndx
          /\ Symbol.aux.endndx # 0
               => moved.endndx = IF xflag THEN index + 2 ELSE Symbol.aux.endndx + symbol_index[f]
      BY <1>2, <1>4, <3>1, MovedShape
    <3> HIDE DEF moved
    <3> QED
      BY <3>2
  <2>2. AuxOf(Of(f, n)) \in Name
    BY <1>2, EntryShape, OfShape
  <2>3. b = Written(AuxOf(Of(f, n)), moved, 0)
    OBVIOUS
  <2> HIDE DEF moved, b
  <2> QED
    BY <2>1, <2>2, <2>3, LineShape
<1>7. out' = (out \o << a >>) \o r
  BY DEF OutputFunction
<1> HIDE DEF a, b
<1>8. r \in Seq(Line) /\ Len(r) = Entry.numaux /\ (Entry.numaux = 1 => r[1] = b)
  BY <1>2, <1>4, <1>6
<1> HIDE DEF r
<1>9. /\ out' \in Seq(Line) /\ Len(out') = Len(out) + 1 + Entry.numaux
      /\ \A k \in DOMAIN out : out'[k] = out[k]
      /\ out'[Len(out) + 1] = a
      /\ Entry.numaux = 1 => out'[Len(out) + 2] = b
  <2> DEFINE q == (out \o << a >>) \o r
  <2>1. /\ q \in Seq(Line) /\ Len(q) = Len(out) + 1 + Len(r)
        /\ \A k \in DOMAIN out : q[k] = out[k]
        /\ q[Len(out) + 1] = a
        /\ Len(r) = 1 => q[Len(out) + 2] = r[1]
    <3>1. out \in Seq(Line) /\ a \in Line /\ r \in Seq(Line) /\ Len(r) \in {0, 1}
      BY <1>2, <1>5, <1>8
    <3> QED
      BY <3>1, LinesAdded
  <2>2. out' = q
    BY <1>7
  <2> HIDE DEF q
  <2> QED
    BY <1>8, <2>1, <2>2
<1>10. LocalsWritten'
  <2>1. HasTag(Entry) /\ HasEnd(Entry)
    BY <1>1, <1>3 DEF HasTag, HasEnd
  <2> QED
    BY <1>1, <1>2, <1>3, <1>4, <1>5, <1>6, <1>9, <2>1, WriteLocals
<1>11. Chain'
  <2>1. Len(out) \in Nat /\ DOMAIN out' = 1 .. Len(out')
    BY <1>2, <1>9
  <2>2. \A k \in DOMAIN out' : k > Len(out) => out'[k].of \in {Of(f, n), AuxOf(Of(f, n))}
    BY <1>2, <1>5, <1>6, <1>9, <2>1
  <2> QED
    BY <1>1, <1>2, <1>9, <2>1, <2>2, ExtendChain
<1>12. Typed' /\ Lengths' /\ GlobalsWritten'
  <2>1. index' = Number(f, n') /\ Len(out') = index'
    BY <1>1, <1>2, <1>3, <1>9, AdvanceNumbers
  <2>2. /\ table' \in Seq(TableSymbol) /\ Len(table') = Len(table)
        /\ lastfile' \in Int /\ nextfile' \in Int
    BY <1>1 DEF IInv, Typed
  <2> QED
    BY <1>1, <1>9, <2>1, <2>2, LocalStep
<1>13. TableKnows' /\ TableDefined' /\ TableUndefined' /\ GlobalNumbers'
  BY <1>1, <1>3, TableStays DEF Unnumbered
<1>14. SlotsGiven'
  <2>1. slots' = slots \cup {NewSlot(Symbol.sym_index, FALSE)}
    BY DEF OutputFunction
  <2> QED
    BY <1>1, <1>4, <2>1, SlotsStay
<1> QED
  BY <1>1, <1>10, <1>11, <1>12, <1>13, <1>14, CountsStay DEF IInv

\* Another local entry is written, or left out with -x.
LEMMA OutputLocalKeeps == ASSUME IInv, OutputLocal PROVE IInv'
<1>1. /\ pc = "local" /\ n <= Len(files[f]) /\ Entry.class \in {"stat", "tag"} \cup Debug
      /\ table' = table /\ lastfile' = lastfile /\ nextfile' = nextfile
      /\ n' = n + 1 + Entry.numaux
      /\ slots' = IF Entry.class = "stat" /\ Entry.scnum > 0 THEN slots \cup {NewSlot(index, FALSE)} ELSE slots
      /\ Advance
  BY DEF OutputLocal, AtEntry, input, pass1, update, Advance
<1>2. /\ files \in Links /\ f \in DOMAIN files /\ n \in DOMAIN files[f] /\ f \in Nat /\ n \in Nat
      /\ Entry = files[f][n] /\ Entry.class # "aux" /\ Entry.numaux \in {0, 1}
      /\ Len(out) = Number(f, n) /\ index = Number(f, n) /\ index \in Nat /\ out \in Seq(Line)
      /\ symbol_index[f] \in Nat /\ xflag \in BOOLEAN
  BY <1>1, AdvanceFacts
<1>0. Entry.class \notin {"ext", "file"}
  BY <1>1 DEF Debug
<1>3. Kept(files[f], xflag, n) <=> ~(xflag /\ Entry.class # "stat")
  BY <1>0, <1>2, OwnEntry
<1>4. TableKnows' /\ TableDefined' /\ TableUndefined' /\ GlobalNumbers'
  BY <1>0, <1>1, TableStays DEF Unnumbered
<1>5. SlotsGiven'
  <2>1. slots' = slots \/ \E err : slots' = slots \cup {NewSlot(index, err)}
    BY <1>1
  <2> QED
    BY <1>0, <1>1, <1>2, <2>1, SlotsStay
<1>6. /\ table' \in Seq(TableSymbol) /\ Len(table') = Len(table)
      /\ lastfile' \in Int /\ nextfile' \in Int
  BY <1>1 DEF IInv, Typed
<1>7. CASE xflag /\ Entry.class # "stat"
  <2>1. out' = out /\ index' = index /\ ~Kept(files[f], xflag, n)
    BY <1>3, <1>7 DEF OutputLocal
  <2>2. LocalsWritten'
    BY <1>1, <2>1, SkipLocals
  <2>3. Chain'
    <3>1. Len(out) \in Nat /\ DOMAIN out' = 1 .. Len(out')
      BY <1>2, <2>1
    <3> QED
      BY <1>0, <1>1, <1>2, <2>1, <3>1, ExtendChain
  <2>4. Typed' /\ Lengths' /\ GlobalsWritten'
    <3>1. index' = Number(f, n')
      BY <1>1, <1>2, <2>1, AdvanceNumbers
    <3> QED
      BY <1>1, <1>2, <1>6, <2>1, <3>1, LocalStep
  <2> QED
    BY <1>1, <1>4, <1>5, <2>2, <2>3, <2>4, CountsStay DEF IInv
<1>8. CASE ~(xflag /\ Entry.class # "stat")
  <2> DEFINE a == Written(Of(f, n), NoAux, 0)
             b == Written(AuxOf(Of(f, n)), Moved(Aux[1], RelocTag(Entry), RelocEnd(Entry),
                                                 Aux[1].endndx + index + 2), 0)
             r == IF Aux = << >> THEN << >> ELSE << b >>
  <2>1. /\ Aux = << >> <=> Entry.numaux = 0
        /\ Entry.numaux = 1 => Aux[1] = files[f][n + 1] /\ files[f][n + 1] \in AuxEntry
    BY <1>2, EntryShape DEF Aux
  <2>2. a \in Line /\ a.of = Of(f, n)
    <3>1. Of(f, n) \in Name
      BY <1>2, EntryShape, OfShape
    <3> QED
      BY <3>1, LineShape, PlainShape
  <2>3. ASSUME Entry.numaux = 1
        PROVE  /\ b \in Line /\ b.of = AuxOf(Of(f, n))
               /\ b.tagndx = IF HasTag(Entry) THEN TagOf(f, files[f][n + 1].tagndx)
                                              ELSE files[f][n + 1].tagndx
               /\ files[f][n + 1].endndx = 0 \/ ~HasEnd(Entry) => b.endndx = files[f][n + 1].endndx
               /\ HasEnd(Entry) /\ files[f][n + 1].endndx # 0 /\ ~xflag
                    => b.endndx = files[f][n + 1].endndx + symbol_index[f]
    <3> DEFINE xend  == Aux[1].endndx + index + 2
               moved == Moved(Aux[1], RelocTag(Entry), RelocEnd(Entry), xend)
    <3>1. xend \in Nat
      BY <1>2, <2>1, <2>3 DEF AuxEntry
    <3> HIDE DEF xend
    <3>2. /\ RelocTag(Entry) \in BOOLEAN /\ RelocEnd(Entry) \in BOOLEAN
          /\ RelocTag(Entry) <=> HasTag(Entry)
          /\ RelocEnd(Entry) <=> HasEnd(Entry)
      BY <1>1, <1>2, <2>3, RelocGuards
    <3>3. /\ moved.tagndx \in Nat /\ moved.endndx \in Nat
          /\ moved.tagndx = IF RelocTag(Entry) THEN TagOf(f, Aux[1].tagndx) ELSE Aux[1].tagndx
          /\ Aux[1].endndx = 0 \/ ~RelocEnd(Entry) => moved.endndx = Aux[1].endndx
          /\ RelocEnd(Entry) /\ Aux[1].endndx # 0
               => moved.endndx = IF xflag THEN xend ELSE Aux[1].endndx + symbol_index[f]
      BY <1>2, <2>1, <2>3, <3>1, <3>2, MovedShape
    <3>4. AuxOf(Of(f, n)) \in Name
      BY <1>2, EntryShape, OfShape
    <3>5. b = Written(AuxOf(Of(f, n)), moved, 0)
      BY DEF xend
    <3> HIDE DEF b, moved
    <3>6. /\ b \in Line /\ b.of = AuxOf(Of(f, n))
          /\ b.tagndx = moved.tagndx /\ b.endndx = moved.endndx
      BY <3>3, <3>4, <3>5, LineShape
    <3> QED
      BY <2>1, <2>3, <3>2, <3>3, <3>6
  <2>4. out' = (out \o << a >>) \o r /\ index' = index + 1 + Entry.numaux
    BY <1>8 DEF OutputLocal
  <2> HIDE DEF a, b
  <2>5. r \in Seq(Line) /\ Len(r) = Entry.numaux /\ (Entry.numaux = 1 => r[1] = b)
    BY <1>2, <2>1, <2>3
  <2> HIDE DEF r
  <2>6. /\ out' \in Seq(Line) /\ Len(out') = Len(out) + 1 + Entry.numaux
        /\ \A k \in DOMAIN out : out'[k] = out[k]
        /\ out'[Len(out) + 1] = a
        /\ Entry.numaux = 1 => out'[Len(out) + 2] = b
    <3>1. out' = (out \o << a >>) \o r /\ Len(r) \in {0, 1}
      BY <1>2, <2>4, <2>5
    <3>2. out \in Seq(Line) /\ a \in Line /\ r \in Seq(Line)
      BY <1>2, <2>2, <2>5
    <3> QED
      BY <2>5, <3>1, <3>2, LinesAdded
  <2>7. LocalsWritten'
    BY <1>0, <1>1, <1>2, <1>3, <1>8, <2>2, <2>3, <2>6, WriteLocals
  <2>8. Chain'
    <3>1. Len(out) \in Nat /\ DOMAIN out' = 1 .. Len(out')
      BY <1>2, <2>6
    <3>2. \A k \in DOMAIN out' : k > Len(out) => out'[k].of \in {Of(f, n), AuxOf(Of(f, n))}
      BY <1>2, <2>2, <2>3, <2>6, <3>1
    <3> QED
      BY <1>0, <1>1, <1>2, <2>6, <3>1, <3>2, ExtendChain
  <2>9. Typed' /\ Lengths' /\ GlobalsWritten'
    <3>1. index' = Number(f, n') /\ Len(out') = index'
      BY <1>1, <1>2, <1>3, <1>8, <2>4, <2>6, AdvanceNumbers
    <3> QED
      BY <1>1, <1>6, <2>6, <3>1, LocalStep
  <2> QED
    BY <1>1, <1>4, <1>5, <2>7, <2>8, <2>9, CountsStay DEF IInv
<1> QED
  BY <1>7, <1>8

\* What changes in the table with an entry for a global symbol: a tag.
LEMMA TagFollowed ==
  ASSUME IInv, OutputExternal
  PROVE  /\ table' \in Seq(TableSymbol) /\ DOMAIN table' = DOMAIN table /\ Len(table') = Len(table)
         /\ \A k \in DOMAIN table :
              /\ table'[k].name = table[k].name /\ table'[k].scnum = table[k].scnum
              /\ table'[k].file = table[k].file /\ table'[k].numaux = table[k].numaux
              /\ table'[k].local_flag = table[k].local_flag
              /\ table'[k].sym_index = table[k].sym_index
              /\ table'[k].aux.endndx = table[k].aux.endndx
              /\ table'[k].aux.tagndx =
                   IF /\ table[k].name = Entry.name /\ Entry.scnum > 0 /\ Aux # << >>
                      /\ table[k].aux.tagndx = Aux[1].tagndx
                   THEN TagOf(f, table[k].aux.tagndx) ELSE table[k].aux.tagndx
<1>1. /\ Typed /\ table \in Seq(TableSymbol) /\ f \in File /\ symbol_index[f] \in Nat
  BY Here DEF IInv, Typed
<1> DEFINE M(k) == /\ table[k].name = Entry.name /\ Entry.scnum > 0 /\ Aux # << >>
                   /\ table[k].aux.tagndx = Aux[1].tagndx
           new(k) == IF M(k) THEN [table[k] EXCEPT !.aux.tagndx = NewTag(@)] ELSE table[k]
<1>2. table' = [k \in DOMAIN table |-> new(k)]
  BY DEF OutputExternal
<1> HIDE DEF M
<1>3. ASSUME NEW k \in DOMAIN table
      PROVE  /\ new(k) \in TableSymbol
             /\ new(k).name = table[k].name /\ new(k).scnum = table[k].scnum
             /\ new(k).file = table[k].file /\ new(k).numaux = table[k].numaux
             /\ new(k).local_flag = table[k].local_flag
             /\ new(k).sym_index = table[k].sym_index
             /\ new(k).aux.endndx = table[k].aux.endndx
             /\ new(k).aux.tagndx = IF M(k) THEN TagOf(f, table[k].aux.tagndx) ELSE table[k].aux.tagndx
  <2>1. table[k] \in TableSymbol
    BY <1>1
  <2>2. CASE ~M(k)
    BY <2>1, <2>2
  <2>3. CASE M(k)
    <3>1. new(k) = [table[k] EXCEPT !.aux.tagndx = NewTag(@)]
      BY <2>3
    <3> HIDE DEF new
    <3>2. table[k].aux \in AuxEntry /\ table[k].aux.tagndx \in Nat
      BY <2>1 DEF TableSymbol, AuxEntry
    <3>3. NewTag(table[k].aux.tagndx) = TagOf(f, table[k].aux.tagndx) /\ NewTag(table[k].aux.tagndx) \in Nat
      BY <1>1, <3>2 DEF NewTag, TagOf
    <3>4. new(k) = [table[k] EXCEPT !.aux = [table[k].aux EXCEPT !.tagndx = NewTag(table[k].aux.tagndx)]]
      BY <2>1, <3>1, <3>2 DEF TableSymbol
    <3> DEFINE aux == [table[k].aux EXCEPT !.tagndx = NewTag(table[k].aux.tagndx)]
    <3>5. aux \in AuxEntry /\ aux.endndx = table[k].aux.endndx /\ aux.tagndx = NewTag(table[k].aux.tagndx)
      BY <3>2, <3>3 DEF AuxEntry
    <3>6. new(k) = [table[k] EXCEPT !.aux = aux]
      BY <3>4
    <3> HIDE DEF aux
    <3> QED
      BY <2>1, <2>3, <3>3, <3>5, <3>6 DEF TableSymbol
  <2> QED
    BY <2>2, <2>3
<1>4. \A k \in DOMAIN table : table'[k] = new(k)
  BY <1>2
<1>5. table' \in Seq(TableSymbol) /\ DOMAIN table' = DOMAIN table /\ Len(table') = Len(table)
  BY <1>1, <1>2, <1>3
<1> HIDE DEF new
<1> QED
  BY <1>3, <1>4, <1>5 DEF M

\* A global symbol that is written later gets a slot, and the tag of its definition
\* follows.
LEMMA OutputExternalKeeps == ASSUME IInv, OutputExternal PROVE IInv'
<1>1. /\ pc = "local" /\ n <= Len(files[f]) /\ Entry.class = "ext"
      /\ ~(Symbol.local_flag /\ Entry.scnum > 0)
      /\ out' = out /\ lastfile' = lastfile /\ nextfile' = nextfile
      /\ n' = n + 1 + Entry.numaux /\ index' = index
      /\ slots' = slots \cup {NewSlot(Symbol.sym_index, Symbol.scnum = 0)}
      /\ Advance
  BY DEF OutputExternal, AtEntry, input, update, Advance
<1>2. /\ files \in Links /\ f \in DOMAIN files /\ f \in File /\ n \in DOMAIN files[f]
      /\ Entry = files[f][n] /\ Entry.class # "aux" /\ Entry.numaux \in {0, 1}
      /\ Len(out) = Number(f, n) /\ index = Number(f, n) /\ out \in Seq(Line)
      /\ xflag \in BOOLEAN /\ File' = File /\ File = DOMAIN files /\ n \in Nat \ {0}
      /\ \A g \in File : \A j \in DOMAIN files[g] :
           Passed(g, j)' <=> Passed(g, j) \/ (g = f /\ j \in n .. (n + Entry.numaux))
      /\ \A g, j : Read(g, j) /\ Read(g, j)' /\ Number(g, j)' = Number(g, j)
      /\ \A k : Updated(k) /\ Updated(k)'
      /\ Base' = Base
  BY <1>1, AdvanceFacts
<1>3. ~Function(Entry) /\ ~Kept(files[f], xflag, n) /\ Unnumbered(Entry)
  <2>1. ~Function(Entry)
    BY <1>1, SymbolHere
  <2> QED
    BY <1>1, <1>2, <2>1, OwnEntry DEF Unnumbered
<1>4. /\ files' = files /\ xflag' = xflag /\ symbol_index' = symbol_index
      /\ TableKnows /\ TableDefined /\ TableUndefined /\ GlobalNumbers /\ Typed
  BY <1>1 DEF Advance, IInv
<1>5. /\ table' \in Seq(TableSymbol) /\ DOMAIN table' = DOMAIN table /\ Len(table') = Len(table)
      /\ \A k \in DOMAIN table :
           /\ table'[k].name = table[k].name /\ table'[k].scnum = table[k].scnum
           /\ table'[k].file = table[k].file /\ table'[k].numaux = table[k].numaux
           /\ table'[k].local_flag = table[k].local_flag
           /\ table'[k].sym_index = table[k].sym_index
           /\ table'[k].aux.endndx = table[k].aux.endndx
  BY TagFollowed
<1>6. LocalsWritten'
  BY <1>1, <1>3, SkipLocals
<1>7. Chain'
  <2>1. Len(out) \in Nat /\ DOMAIN out' = 1 .. Len(out')
    BY <1>1, <1>2
  <2> QED
    BY <1>1, <1>2, <2>1, ExtendChain
<1>8. Typed' /\ Lengths' /\ GlobalsWritten'
  <2>1. index' = Number(f, n') /\ Len(out') = index' /\ out' \in Seq(Line)
    BY <1>1, <1>2, <1>3, AdvanceNumbers
  <2>2. lastfile' \in Int /\ nextfile' \in Int
    BY <1>1, <1>4 DEF Typed
  <2> QED
    BY <1>1, <1>5, <2>1, <2>2, LocalStep
<1>9. SlotsGiven'
  <2>1. \A k \in DOMAIN table : table[k].name = Entry.name => Symbol.sym_index = table[k].sym_index
    BY <1>1, SymbolHere
  <2> QED
    BY <1>1, <1>5, <2>1, SlotsStay
<1>10. TableKnows' /\ TableUndefined'
  <2>1. TableKnows'
    BY <1>2, <1>4, <1>5 DEF TableKnows
  <2>2. TableUndefined'
    <3>1. SUFFICES ASSUME NEW k \in DOMAIN table,
                          \A g \in File : \A j \in DOMAIN files[g] : ~Defines(g, j, table[k].name)
          PROVE  table[k].scnum = 0 /\ table[k].numaux = 0 /\ ~table[k].local_flag
      BY <1>2, <1>4, <1>5 DEF TableUndefined, Defines
    <3> QED
      BY <1>4, <3>1 DEF TableUndefined
  <2> QED
    BY <2>1, <2>2
<1>11. GlobalNumbers'
  <2>1. Len(table) \in Nat /\ DOMAIN table = 1 .. Len(table)
    BY <1>4, TableShape
  <2>2. ASSUME NEW k \in DOMAIN table PROVE GlobalNumber(k)' = GlobalNumber(k)
    <3>1. Units(table', k) = Units(table, k)
      <4>1. \A i \in 1 .. (k - 1) : /\ table'[i].local_flag <=> table[i].local_flag
                                    /\ table'[i].numaux = table[i].numaux
        BY <1>5, <2>1
      <4> QED
        BY <2>1, <4>1, UnitsSame
    <3> QED
      BY <1>2, <3>1 DEF GlobalNumber
  <2> QED
    BY <1>2, <1>4, <1>5, <2>2 DEF GlobalNumbers
<1>12. TableDefined'
  <2>1. SUFFICES ASSUME NEW k \in DOMAIN table, NEW g \in File, NEW j \in DOMAIN files[g],
                        Defines(g, j, table[k].name)
        PROVE  LET e == files[g][j] IN
               /\ table'[k].scnum = e.scnum /\ table'[k].numaux = e.numaux
               /\ table'[k].local_flag <=> Function(e)
               /\ Function(e) => table'[k].file = g /\ table'[k].sym_index = Number(g, j)
               /\ e.numaux = 1 =>
                    /\ table'[k].aux.endndx = files[g][j + 1].endndx
                    /\ table'[k].aux.tagndx =
                         IF ~Function(e) /\ Passed(g, j)' THEN TagOf(g, files[g][j + 1].tagndx)
                                                          ELSE files[g][j + 1].tagndx
    BY <1>2, <1>4, <1>5 DEF TableDefined, Defines, TagOf
  <2>2. LET e == files[g][j] IN
        /\ table[k].scnum = e.scnum /\ table[k].numaux = e.numaux
        /\ table[k].local_flag <=> Function(e)
        /\ Function(e) => table[k].file = g /\ table[k].sym_index = Number(g, j)
        /\ e.numaux = 1 =>
             /\ table[k].aux.endndx = files[g][j + 1].endndx
             /\ table[k].aux.tagndx =
                  IF ~Function(e) /\ Passed(g, j) THEN TagOf(g, files[g][j + 1].tagndx)
                                                  ELSE files[g][j + 1].tagndx
    BY <1>2, <1>4, <2>1 DEF TableDefined
  <2>3. files[g][j].class = "ext" /\ files[g][j].name = table[k].name /\ files[g][j].scnum # 0
    BY <2>1 DEF Defines
  <2>4. ASSUME files[g][j].numaux = 1
        PROVE  table'[k].aux.tagndx =
                 IF ~Function(files[g][j]) /\ Passed(g, j)' THEN TagOf(g, files[g][j + 1].tagndx)
                                                            ELSE files[g][j + 1].tagndx
    <3>1. CASE g = f /\ j = n
      <4>1. /\ Passed(g, j)' /\ ~Passed(g, j) /\ ~Function(files[g][j]) /\ Entry.numaux = 1
            /\ table[k].name = Entry.name /\ table[k].aux.tagndx = files[f][n + 1].tagndx
        <5>1. ~Passed(g, j)
          BY <1>1, <1>2, <3>1, AdvanceFacts
        <5> QED
          BY <1>2, <1>3, <2>2, <2>3, <2>4, <3>1, <5>1
      <4>2. Aux # << >> /\ Aux[1] = files[f][n + 1]
        BY <1>2, <4>1 DEF Aux
      <4>3. table'[k].aux.tagndx = IF Entry.scnum > 0 THEN TagOf(f, table[k].aux.tagndx)
                                   ELSE table[k].aux.tagndx
        BY <4>1, <4>2, TagFollowed
      <4>4. files[f][n + 1].tagndx # 0 => Entry.scnum > 0
        <5>1. Described(files[f], n, files[f][n + 1])
          BY <1>2, <4>1, AuxShape
        <5> QED
          BY <1>2, <1>3, <2>3, <3>1, <5>1 DEF Described, HasTag, Unnumbered
      <4>5. TagOf(f, 0) = 0
        BY DEF TagOf
      <4> QED
        BY <3>1, <4>1, <4>3, <4>4, <4>5
    <3>2. CASE ~(g = f /\ j = n)
      <4>1. Passed(g, j)' <=> Passed(g, j)
        <5>1. SUFFICES ASSUME g = f, j = n + 1, Entry.numaux = 1 PROVE FALSE
          BY <1>2, <3>2
        <5>2. files[f][n + 1].class = "aux"
          BY <1>2, <5>1, EntryShape
        <5> QED
          BY <2>3, <5>1, <5>2
      <4>2. table'[k].aux.tagndx = table[k].aux.tagndx
        <5>1. SUFFICES ASSUME table[k].name = Entry.name, Entry.scnum > 0 PROVE FALSE
          BY TagFollowed
        <5>2. Entry.scnum # 0
          BY <1>2, <5>1, EntryShape
        <5>3. g = f /\ j = n
          BY <1>1, <1>2, <2>3, <5>1, <5>2, DefinedOnce
        <5> QED
          BY <3>2, <5>3
      <4> QED
        BY <2>2, <2>4, <4>1, <4>2
    <3> QED
      BY <3>1, <3>2
  <2> QED
    BY <1>5, <2>2, <2>4
<1> QED
  BY <1>1, <1>6, <1>7, <1>8, <1>9, <1>10, <1>11, <1>12, CountsStay DEF IInv

\* The entry of the chain before gets the number of this one.
LEMMA ChainedShape ==
  ASSUME IInv, Advance, Entry.class = "file"
  PROVE  /\ Chained \in Seq(Line) /\ Len(Chained) = Len(out)
         /\ \A k \in DOMAIN out : /\ Chained[k].of = out[k].of
                                  /\ Chained[k].tagndx = out[k].tagndx
                                  /\ Chained[k].endndx = out[k].endndx
                                  /\ k # lastfile + 1 => Chained[k].value = out[k].value
         /\ lastfile # -1 => Chained[lastfile + 1].value = index
<1>1. /\ Len(out) = index /\ index \in Nat /\ out \in Seq(Line) /\ lastfile \in Int /\ Chain
      /\ nextfile \in Int
  BY AdvanceFacts DEF IInv, Typed
<1>2. lastfile # -1 => /\ lastfile + 1 \in DOMAIN out
                       /\ out[lastfile + 1].value = nextfile \/ nextfile <= lastfile
  BY <1>1 DEF Chain
<1>3. CASE lastfile # -1 /\ nextfile # index
  <2>1. Len(out) - (index - lastfile) + 1 = lastfile + 1
    BY <1>1
  <2>2. Chained = [out EXCEPT ![lastfile + 1].value = index]
    BY <1>3, <2>1 DEF Chained, UpdateFileEntry
  <2>3. out[lastfile + 1] \in Line
    BY <1>1, <1>2, <1>3
  <2>4. Chained = [out EXCEPT ![lastfile + 1] = [out[lastfile + 1] EXCEPT !.value = index]]
    BY <1>1, <2>2
  <2> DEFINE line == [out[lastfile + 1] EXCEPT !.value = index]
  <2>5. /\ line \in Line /\ line.of = out[lastfile + 1].of /\ line.value = index
        /\ line.tagndx = out[lastfile + 1].tagndx /\ line.endndx = out[lastfile + 1].endndx
    BY <1>1, <2>3 DEF Line
  <2>6. Chained = [out EXCEPT ![lastfile + 1] = line]
    BY <2>4
  <2> HIDE DEF line
  <2>7. /\ Chained \in Seq(Line) /\ Len(Chained) = Len(out)
        /\ \A k \in DOMAIN out : k # lastfile + 1 => Chained[k] = out[k]
        /\ Chained[lastfile + 1] = line
    BY <1>1, <1>2, <1>3, <2>5, <2>6
  <2> QED
    BY <2>5, <2>7
<1>4. CASE ~(lastfile # -1 /\ nextfile # index)
  <2>1. Chained = out
    BY <1>4 DEF Chained
  <2>2. lastfile # -1 => out[lastfile + 1].value = index
    BY <1>1, <1>2, <1>4
  <2> QED
    BY <1>1, <2>1, <2>2
<1> QED
  BY <1>3, <1>4

\* A .file entry becomes the end of the chain.
LEMMA LengthenChain ==
  ASSUME IInv, Advance, Entry.class = "file", out' \in Seq(Line), Len(out') = Len(out) + 1 + Entry.numaux,
         \A k \in DOMAIN out : out'[k] = Chained[k],
         out'[Len(out) + 1].of = Of(f, n),
         out'[Len(out) + 1].value = IF f < Len(files) THEN nextfile' ELSE 0,
         Entry.numaux = 1 => out'[Len(out) + 2].of = AuxOf(Of(f, n)),
         lastfile' = index, nextfile' = IF f < Len(files) THEN symbol_index[f + 1] ELSE nextfile
  PROVE  Chain'
<1>1. /\ files \in Links /\ f \in File /\ n \in DOMAIN files[f] /\ Entry.numaux \in {0, 1}
      /\ Entry = files[f][n] /\ File' = File /\ File = DOMAIN files
      /\ out \in Seq(Line) /\ Len(out) = index /\ index \in Nat /\ index = Number(f, n)
      /\ n \in Nat \ {0} /\ f \in Nat
  BY AdvanceFacts
<1>2. /\ files' = files /\ pc = "local" /\ pc' = "local" /\ ~Late /\ ~Late' /\ Typed /\ Chain
      /\ lastfile \in Int /\ f' = f /\ symbol_index' = symbol_index /\ nextfile \in Int
  BY DEF Advance, IInv, Late, Typed
<1>3. /\ DOMAIN out = 1 .. Len(out) /\ DOMAIN out' = 1 .. Len(out') /\ Len(out) \in Nat
      /\ Len(out') \in Nat /\ Len(out) + 1 \in DOMAIN out'
      /\ \A k \in DOMAIN out : /\ k \in DOMAIN out' /\ out[k].value \in Nat
                               /\ out'[k].of = out[k].of
                               /\ k # lastfile + 1 => out'[k].value = out[k].value
      /\ lastfile # -1 => Chained[lastfile + 1].value = index
  <2>1. \A k \in DOMAIN out : out[k] \in Line
    BY <1>1
  <2>2. \A k \in DOMAIN out : out[k].value \in Nat
    BY <2>1 DEF Line
  <2> QED
    BY SMTT(40), <1>1, <2>2, ChainedShape
<1>4. ASSUME NEW k \in DOMAIN out PROVE FileLine(k)' <=> FileLine(k)
  BY <1>1, <1>2, <1>3 DEF FileLine, Of
<1>5. ASSUME NEW k, k = Len(out) + 1 PROVE FileLine(k)'
  <2>1. out'[k].of = Of(f, n)
    BY <1>5
  <2> QED
    BY <1>1, <1>2, <2>1 DEF FileLine, Of
<1>6. ASSUME NEW k, k = Len(out) + 2, Entry.numaux = 1 PROVE ~FileLine(k)'
  <2>1. out'[k].of = <<f, n, "aux">>
    BY <1>1, <1>6 DEF AuxOf, Of
  <2>2. FileLine(k)' <=> \E g \in File : \E j \in DOMAIN files[g] :
                            files[g][j].class = "file" /\ out'[k].of = <<g, j, "sym">>
    BY <1>1, <1>2 DEF FileLine, Of
  <2> QED
    BY <2>1, <2>2
<1>7. \A k \in DOMAIN out' : k \in DOMAIN out \/ k = Len(out) + 1 \/ (k = Len(out) + 2 /\ Entry.numaux = 1)
  BY SMTT(40), <1>1, <1>3
<1>8. ASSUME NEW k \in DOMAIN out', FileLine(k)', k # lastfile' + 1, NEW next, next = out'[k].value
      PROVE  /\ next >= k
             /\ next + 1 \in DOMAIN out' /\ FileLine(next + 1)'
             /\ \A l \in (k + 1) .. next : ~FileLine(l)'
  <2>1. k \in DOMAIN out /\ FileLine(k)
    BY <1>1, <1>4, <1>6, <1>7, <1>8
  <2>2. CASE k # lastfile + 1
    <3>1. next = out[k].value
      BY <1>3, <1>8, <2>1, <2>2
    <3>2. /\ next >= k /\ next + 1 \in DOMAIN out /\ FileLine(next + 1)
          /\ \A l \in (k + 1) .. next : ~FileLine(l)
      BY <1>2, <2>1, <2>2, <3>1 DEF Chain
    <3>3. /\ \A l \in (k + 1) .. next : l \in DOMAIN out
          /\ next + 1 \in DOMAIN out'
      <4>1. next \in Nat /\ k \in Nat \ {0} /\ next + 1 \in DOMAIN out'
        BY <1>3, <2>1, <3>1, <3>2
      <4>2. DOMAIN out = 1 .. Len(out) /\ Len(out) \in Nat
        BY <1>3
      <4> QED
        BY <3>2, <4>1, <4>2
    <3> QED
      BY <1>4, <3>2, <3>3
  <2>3. CASE k = lastfile + 1
    <3>1. lastfile # -1 /\ next = index /\ next = Len(out)
      <4>1. lastfile # -1
        BY <1>2, <1>3, <2>1, <2>3
      <4>2. out'[k] = Chained[k]
        BY <2>1
      <4> QED
        BY <1>1, <1>3, <1>8, <2>3, <4>1, <4>2
    <3>2. \A i \in DOMAIN out : i > k => ~FileLine(i)
      BY <1>2, <2>3, <3>1 DEF Chain
    <3>3. \A l \in (k + 1) .. next : l \in DOMAIN out /\ l > k
      BY <1>3, <2>1, <3>1
    <3> QED
      BY SMTT(40), <1>3, <1>4, <1>5, <2>1, <3>1, <3>2, <3>3
  <2> QED
    BY <2>2, <2>3
<1>9. /\ symbol_index[f] \in Nat /\ symbol_index[f] <= index
  <2>1. Count(files[f], xflag, n) \in Nat /\ symbol_index[f] \in Nat
    BY <1>1, AdvanceFacts, CountStep
  <2> QED
    BY <1>1, <2>1 DEF Number
<1>10. /\ f + 1 \in File <=> f < Len(files)
       /\ nextfile' <= symbol_index[IF f + 1 \in File THEN f + 1 ELSE f]
       /\ nextfile' \in Int
  <2>1. nextfile <= symbol_index[IF f + 1 \in File THEN f + 1 ELSE f]
    BY <1>2 DEF Chain
  <2>2. f + 1 \in File <=> f < Len(files)
    BY <1>1, <1>2, Here
  <2>3. \A g \in File : symbol_index[g] \in Nat
    BY <1>2 DEF Typed
  <2> QED
    BY <1>2, <2>1, <2>2, <2>3
<1>11. out'[lastfile' + 1].value = nextfile' \/ nextfile' <= lastfile'
  <2>1. CASE f < Len(files)
    BY <1>1, <2>1
  <2>2. CASE ~(f < Len(files))
    BY <1>1, <1>9, <1>10, <2>2
  <2> QED
    BY <2>1, <2>2
<1>12. /\ lastfile' + 1 \in DOMAIN out' /\ FileLine(lastfile + 1)'
       /\ \A k \in DOMAIN out' : k > lastfile' + 1 => ~FileLine(k)'
  <2>1. lastfile' + 1 = Len(out) + 1
    BY <1>1
  <2>2. FileLine(lastfile + 1)'
    <3>1. FileLine(lastfile + 1)' <=> \E g \in File : \E j \in DOMAIN files[g] :
                            files[g][j].class = "file" /\ out'[lastfile' + 1].of = Of(g, j)
      BY <1>1, <1>2 DEF FileLine, Of
    <3> QED
      BY <1>1, <2>1, <3>1
  <2> QED
    BY <1>3, <1>6, <1>7, <2>1, <2>2
<1>13. pc' = "local" => nextfile' <= symbol_index'[IF f' + 1 \in File' THEN f' + 1 ELSE f']
  BY <1>1, <1>2, <1>10
<1> QED
  BY <1>2, <1>8, <1>11, <1>12, <1>13 DEF Chain

\* A .file entry is written, and linked to the one before.
LEMMA OutputFileEntryKeeps == ASSUME IInv, OutputFileEntry PROVE IInv'
<1>1. /\ pc = "local" /\ n <= Len(files[f]) /\ Entry.class = "file"
      /\ table' = table /\ slots' = slots
      /\ n' = n + 1 + Entry.numaux /\ index' = index + 1 + Entry.numaux
      /\ lastfile' = index /\ nextfile' = IF f < Len(files) THEN symbol_index[f + 1] ELSE nextfile
      /\ Advance
  BY DEF OutputFileEntry, AtEntry, input, pass1, update, Advance
<1>2. /\ files \in Links /\ f \in DOMAIN files /\ n \in DOMAIN files[f] /\ f \in Nat /\ n \in Nat
      /\ Entry = files[f][n] /\ Entry.class # "aux" /\ Entry.numaux \in {0, 1} /\ File = DOMAIN files
      /\ Len(out) = Number(f, n) /\ index = Number(f, n) /\ index \in Nat /\ out \in Seq(Line)
      /\ symbol_index[f] \in Nat /\ xflag \in BOOLEAN
  BY <1>1, AdvanceFacts
<1>3. Kept(files[f], xflag, n)
  <2>1. /\ files \in Links /\ f \in DOMAIN files /\ n \in DOMAIN files[f]
        /\ files[f][n].class = "file" /\ xflag \in BOOLEAN
    BY <1>1, <1>2
  <2> QED
    BY <2>1, OwnEntry
<1>4. nextfile' \in Int /\ (f < Len(files) => nextfile' \in Nat)
  <2>1. nextfile \in Int /\ symbol_index \in [File -> Nat] /\ File = 1 .. Len(files)
    BY Here DEF IInv, Typed
  <2> QED
    BY SMTT(40), <1>1, <1>2, <2>1
<1>5. /\ Entry.numaux = 1 => files[f][n + 1].tagndx = 0 /\ files[f][n + 1].endndx = 0
      /\ ~HasTag(Entry) /\ ~HasEnd(Entry)
  BY <1>1, <1>2, AuxShape DEF Described, HasTag, HasEnd, Function
<1> DEFINE v == IF f < Len(files) THEN nextfile' ELSE 0
           a == Written(Of(f, n), NoAux, v)
           b == Written(AuxOf(Of(f, n)), NoAux, 0)
           r == [k \in DOMAIN Aux |-> b]
<1>6. a \in Line /\ a.of = Of(f, n) /\ a.value = v
  <2>1. v \in Nat
    BY <1>4
  <2> HIDE DEF v
  <2> QED
    <3>1. Of(f, n) \in Name
      BY <1>2, EntryShape, OfShape
    <3> QED
      BY <2>1, <3>1, LineShape, PlainShape
<1>7. b \in Line /\ b.of = AuxOf(Of(f, n)) /\ b.tagndx = 0 /\ b.endndx = 0
  <2>1. AuxOf(Of(f, n)) \in Name
    BY <1>2, EntryShape, OfShape
  <2> QED
    BY <2>1, LineShape, PlainShape
<1>8. out' = (Chained \o << a >>) \o r
  BY DEF OutputFileEntry
<1>9. DOMAIN Aux = 1 .. Entry.numaux
  <2>1. CASE Entry.numaux = 0
    <3>1. Aux = << >>
      BY <2>1 DEF Aux
    <3> QED
      BY <2>1, <3>1
  <2>2. CASE Entry.numaux = 1
    <3>1. Aux = << files[f][n + 1] >>
      BY <2>2 DEF Aux
    <3> QED
      BY <2>2, <3>1
  <2> QED
    BY <1>2, <2>1, <2>2
<1> HIDE DEF a, b, v
<1>10. r \in Seq(Line) /\ Len(r) = Entry.numaux /\ (Entry.numaux = 1 => r[1] = b)
  <2>1. CASE Entry.numaux = 0
    <3>1. r = << >>
      BY <1>9, <2>1
    <3> QED
      BY <2>1, <3>1
  <2>2. CASE Entry.numaux = 1
    <3>1. r = << b >>
      BY <1>9, <2>2
    <3> HIDE DEF r
    <3> QED
      BY <1>7, <2>2, <3>1
  <2> QED
    BY <1>2, <2>1, <2>2
<1> HIDE DEF r
<1>11. /\ out' \in Seq(Line) /\ Len(out') = Len(out) + 1 + Entry.numaux
       /\ \A k \in DOMAIN out : out'[k] = Chained[k]
       /\ out'[Len(out) + 1] = a
       /\ Entry.numaux = 1 => out'[Len(out) + 2] = b
  <2>1. Chained \in Seq(Line) /\ Len(Chained) = Len(out) /\ DOMAIN Chained = DOMAIN out
    BY <1>1, <1>2, ChainedShape
  <2>2. Len(r) \in {0, 1}
    BY <1>2, <1>10
  <2> QED
    BY <1>6, <1>8, <1>10, <2>1, <2>2, LinesAdded
<1>12. LocalsWritten'
  <2>1. \A k \in DOMAIN out : /\ out'[k].of = out[k].of
                              /\ out'[k].tagndx = out[k].tagndx /\ out'[k].endndx = out[k].endndx
    BY <1>1, <1>11, ChainedShape
  <2>2. TagOf(f, 0) = 0
    BY DEF TagOf
  <2> QED
    BY <1>1, <1>2, <1>3, <1>5, <1>6, <1>7, <1>11, <2>1, <2>2, WriteLocals
<1>13. Chain'
  BY <1>1, <1>6, <1>7, <1>11, LengthenChain DEF v
<1>14. Typed' /\ Lengths' /\ GlobalsWritten'
  <2>1. index' = Number(f, n') /\ Len(out') = index'
    BY <1>1, <1>2, <1>3, <1>11, AdvanceNumbers
  <2>2. table' \in Seq(TableSymbol) /\ Len(table') = Len(table) /\ lastfile' \in Int
    BY <1>1, <1>2 DEF IInv, Typed
  <2> QED
    BY <1>1, <1>4, <1>11, <2>1, <2>2, LocalStep
<1>15. TableKnows' /\ TableDefined' /\ TableUndefined' /\ GlobalNumbers'
  BY <1>1, TableStays DEF Unnumbered
<1>16. SlotsGiven'
  BY <1>1, SlotsStay
<1> QED
  BY <1>1, <1>12, <1>13, <1>14, <1>15, <1>16, CountsStay DEF IInv

\* When a file is through, the next one begins where it ends; the globals begin
\* where the last one ends.
LEMMA EndFileKeeps == ASSUME IInv, EndFile PROVE IInv'
<1>1. /\ Typed /\ LocalCounts /\ TableKnows /\ TableDefined /\ TableUndefined /\ GlobalNumbers
      /\ Bases /\ Lengths /\ LocalsWritten /\ SlotsGiven /\ Chain
  BY DEF IInv
<1>2. /\ pc = "local" /\ n > Len(files[f]) /\ n' = 1
      /\ IF f + 1 \in File THEN f' = f + 1 /\ pc' = pc ELSE f' = 1 /\ pc' \in {"fatal", "global"}
      /\ num_output_syms' = num_output_syms + index - symbol_index[f]
      /\ index' = IF f + 1 \in File THEN symbol_index[f + 1] ELSE index
      /\ files' = files /\ xflag' = xflag /\ File' = File
      /\ local_syms' = local_syms /\ table' = table /\ symbol_index' = symbol_index
      /\ total_output_symbols' = total_output_symbols
      /\ out' = out /\ lastfile' = lastfile /\ nextfile' = nextfile /\ slots' = slots
  BY DEF EndFile, ToNextFile, input, pass1, update, File
<1>3. /\ files \in Links /\ f \in File /\ f \in Nat \ {0}
      /\ File = 1 .. Len(files) /\ Len(files) \in Nat \ {0}
      /\ \A g \in File : DOMAIN files[g] = 1 .. Len(files[g]) /\ Len(files[g]) \in Nat
      /\ local_syms \in [File -> Nat] /\ symbol_index \in [File -> Nat] /\ index \in Nat
      /\ n = Len(files[f]) + 1 /\ nextfile \in Int
      /\ Len(table) \in Nat /\ DOMAIN table = 1 .. Len(table)
  <2>1. /\ files \in Links /\ f \in File /\ File = 1 .. Len(files) /\ Len(files) \in Nat \ {0}
        /\ \A g \in File : DOMAIN files[g] = 1 .. Len(files[g]) /\ Len(files[g]) \in Nat
    BY <1>1, Here
  <2>2. n \in Nat \ {0} /\ n <= Len(files[f]) + 1 /\ nextfile \in Int /\ index \in Nat
    BY <1>1, <1>2 DEF Typed
  <2>3. n = Len(files[f]) + 1
    BY <1>2, <2>1, <2>2
  <2>4. local_syms \in [File -> Nat] /\ symbol_index \in [File -> Nat]
    BY <1>1 DEF Typed
  <2> QED
    BY <1>1, <2>1, <2>2, <2>3, <2>4, TableShape
<1>4. /\ \A g \in File : \A j \in DOMAIN files[g] : Passed(g, j)' <=> Passed(g, j)
      /\ \A g, j : Read(g, j) /\ Read(g, j)' /\ Number(g, j)' = Number(g, j)
      /\ \A k : Updated(k) /\ Updated(k)' /\ GlobalNumber(k)' = GlobalNumber(k)
      /\ Base' = Base /\ Base \in Nat
  <2>1. ASSUME NEW g \in File, NEW j \in DOMAIN files[g] PROVE Passed(g, j)' <=> Passed(g, j)
    <3>1. CASE f + 1 \in File
      BY SMTT(40), <1>2, <1>3, <2>1, <3>1 DEF Passed, Late
    <3>2. CASE f + 1 \notin File
      BY <1>2, <1>3, <2>1, <3>2 DEF Passed, Late
    <3> QED
      BY <3>1, <3>2
  <2>2. /\ \A g, j : Read(g, j) /\ Read(g, j)' /\ Number(g, j)' = Number(g, j)
        /\ \A k : Updated(k) /\ Updated(k)' /\ GlobalNumber(k)' = GlobalNumber(k)
        /\ Base' = Base
    BY <1>2 DEF Read, Number, Updated, GlobalNumber, Base
  <2> QED
    BY <1>1, <2>1, <2>2, NumberTypes
<1>5. index = symbol_index[f] + local_syms[f] /\ Len(out) = index /\ num_output_syms' = index
  <2>1. index = Number(f, n) /\ Len(out) = index /\ num_output_syms = symbol_index[f]
    BY <1>1, <1>2 DEF Lengths
  <2>2. Number(f, n) = symbol_index[f] + local_syms[f]
    BY <1>1, <1>2, <1>3, FilesApart
  <2> QED
    BY <1>2, <1>3, <2>1, <2>2
<1>6. /\ f + 1 \in File => index = symbol_index[f + 1]
      /\ f + 1 \notin File => f = Len(files) /\ index = Base
  <2>1. f + 1 \in File => symbol_index[f + 1] = symbol_index[f] + local_syms[f]
    BY <1>1, <1>2, <1>3 DEF Bases, Indexed
  <2>2. f + 1 \notin File => f = Len(files)
    BY <1>3
  <2> QED
    BY <1>5, <2>1, <2>2 DEF Base
<1>7. LocalCounts' /\ TableKnows' /\ TableUndefined' /\ GlobalNumbers' /\ Bases'
  BY <1>1, <1>2, <1>4
     DEF LocalCounts, Reached, TableKnows, TableUndefined, GlobalNumbers, Bases, Indexed, Defines
<1>8. TableDefined'
  <2>1. \A g, tagndx : TagOf(g, tagndx)' = TagOf(g, tagndx)
    BY <1>2 DEF TagOf
  <2> QED
    BY <1>1, <1>2, <1>4, <2>1 DEF TableDefined, Defines
<1>9. Typed'
  <2>1. f' \in File /\ Begins(files[f'], 1) /\ index' \in Nat /\ num_output_syms' \in Nat
    <3>1. f' \in File
      BY <1>2, <1>3
    <3> QED
      BY <1>1, <1>2, <1>3, <1>5, <3>1, FirstEntry
  <2>2. /\ pc' \in {"local", "fatal", "global"} /\ n' = 1 /\ Begins(files'[f'], n')
        /\ (pc' = "local" => n' <= Len(files'[f']) + 1) /\ n' <= Len(table') + 1
    BY <1>1, <1>2, <1>3, <2>1
  <2> QED
    BY SMTT(40), <1>1, <1>2, <2>1, <2>2 DEF Typed
<1>10. Lengths'
  <2>1. total_output_symbols' = GlobalNumber(Len(table) + 1)'
    BY <1>1, <1>2, <1>4 DEF Lengths, Early, GlobalNumber
  <2>2. CASE f + 1 \in File
    <3>1. Number(f, n)' = symbol_index[f + 1]
      <4>1. Count(files[f + 1], xflag, 1) = 0 /\ symbol_index[f + 1] \in Nat
        BY <1>3, <2>2, CountStep
      <4>2. Number(f, n)' = symbol_index[f + 1] + Count(files[f + 1], xflag, 1)
        BY <1>2, <2>2 DEF Number
      <4> QED
        BY <4>1, <4>2
    <3> QED
      BY <1>2, <1>5, <1>6, <2>1, <2>2, <3>1 DEF Lengths, Early, Late
  <2>3. CASE f + 1 \notin File
    <3>1. GlobalNumber(n)' = Base
      <4>1. Units(table, 1) = 0
        BY UnitsOfNone
      <4>2. GlobalNumber(n)' = Base + Units(table, 1)
        BY <1>2, <1>4 DEF GlobalNumber
      <4> QED
        BY <1>4, <4>1, <4>2
    <3> QED
      BY <1>2, <1>5, <1>6, <2>1, <2>3, <3>1 DEF Lengths, Early, Late
  <2> QED
    BY <2>2, <2>3
<1>11. /\ \A g, j : Right(g, j)' <=> Right(g, j)
  <2>1. ASSUME NEW g, NEW j PROVE Right(g, j)' <=> Right(g, j)
    <3>1. /\ Number(g, j)' = Number(g, j) /\ Number(g, j - 1)' = Number(g, j - 1)
          /\ \A tagndx : TagOf(g, tagndx)' = TagOf(g, tagndx)
          /\ \A i : Of(g, i)' = Of(g, i)
      BY <1>2, <1>4 DEF TagOf, Of
    <3> QED
      BY <1>2, <3>1 DEF Right
  <2> QED
    BY <2>1
<1>12. LocalsWritten'
  BY <1>1, <1>2, <1>4, <1>11 DEF LocalsWritten
<1>13. SlotsGiven'
  BY <1>1, <1>2, <1>4 DEF SlotsGiven
<1>14. GlobalsWritten'
  <2>1. SUFFICES ASSUME f + 1 \notin File PROVE GlobalsWritten'
    <3>1. CASE f + 1 \in File
      BY <1>2, <3>1 DEF GlobalsWritten, Late
    <3> QED
      BY <3>1
  <2>2. DOMAIN out = 1 .. Base
    <3>1. out \in Seq(Line)
      BY <1>1 DEF Typed
    <3> QED
      BY <1>5, <1>6, <2>1, <3>1
  <2>3. /\ \A k \in DOMAIN table : ~(k < 1)
        /\ \A i \in DOMAIN out : ~(i > Base)
    BY <1>3, <1>4, <2>2
  <2> QED
    BY <1>2, <1>4, <2>3 DEF GlobalsWritten
<1>15. Chain'
  <2>1. \A k : FileLine(k)' <=> FileLine(k)
    BY <1>2 DEF FileLine, Of
  <2>2. ~Late
    BY <1>2 DEF Late
  <2>3. ~\E k \in DOMAIN table' : k < n' /\ ~table'[k].local_flag
    BY <1>2, <1>3
  <2>4. pc' = "local" => nextfile' <= symbol_index'[IF f' + 1 \in File' THEN f' + 1 ELSE f']
    <3>1. SUFFICES ASSUME f + 1 \in File
          PROVE  nextfile <= symbol_index[IF f + 1 + 1 \in File THEN f + 1 + 1 ELSE f + 1]
      BY <1>2
    <3>2. nextfile <= symbol_index[f + 1] /\ symbol_index[f + 1] \in Nat
      BY <1>1, <1>2, <1>3, <3>1 DEF Chain
    <3>3. CASE f + 1 + 1 \in File
      <4>1. /\ symbol_index[f + 1 + 1] = symbol_index[f + 1] + local_syms[f + 1]
            /\ local_syms[f + 1] \in Nat
        BY <1>1, <1>2, <1>3, <3>1, <3>3 DEF Bases, Indexed
      <4> QED
        BY <1>3, <3>2, <3>3, <4>1
    <3> QED
      BY <3>2, <3>3
  <2> QED
    BY <1>1, <1>2, <2>1, <2>2, <2>3, <2>4 DEF Chain
<1> QED
  BY <1>7, <1>8, <1>9, <1>10, <1>12, <1>13, <1>14, <1>15 DEF IInv

\* Functions, which are written with their files, have no units.
LEMMA UnitsOfLocals ==
  ASSUME NEW tab, NEW m \in Nat, \A k \in 1 .. (m - 1) : tab[k].local_flag
  PROVE  Units(tab, m) = 0
<1>1. {u \in (1 .. (m - 1)) \X {0, 1} : ~tab[u[1]].local_flag /\ u[2] <= tab[u[1]].numaux} = {}
  OBVIOUS
<1> QED
  BY <1>1, FS_EmptySet DEF Units

\* After the files, the state differs in what is written only.
LEMMA GlobalStep ==
  ASSUME IInv, pc = "global", n \in DOMAIN table, n' = n + 1,
         pc' = pc, f' = f, files' = files, xflag' = xflag, local_syms' = local_syms, table' = table,
         symbol_index' = symbol_index, total_output_symbols' = total_output_symbols,
         index' = index, nextfile' = nextfile, slots' = slots,
         num_output_syms' = GlobalNumber(n + 1), Len(out') = num_output_syms',
         out' \in Seq(Line), lastfile' \in Int
  PROVE  /\ Typed' /\ LocalCounts' /\ TableKnows' /\ TableDefined' /\ TableUndefined' /\ GlobalNumbers'
         /\ Bases' /\ Lengths' /\ SlotsGiven'
<1>1. /\ Typed /\ LocalCounts /\ TableKnows /\ TableDefined /\ TableUndefined /\ GlobalNumbers
      /\ Bases /\ Lengths /\ SlotsGiven
  BY DEF IInv
<1>2. /\ \A g, j : Passed(g, j)' /\ Passed(g, j) /\ Read(g, j) /\ Read(g, j)'
      /\ \A g, j : Number(g, j)' = Number(g, j)
      /\ \A k : Updated(k) /\ Updated(k)' /\ GlobalNumber(k)' = GlobalNumber(k)
      /\ File' = File
  BY DEF Passed, Late, Read, Number, Updated, GlobalNumber, Base, File
<1>3. LocalCounts' /\ TableKnows' /\ TableUndefined' /\ GlobalNumbers' /\ Bases'
  BY <1>1, <1>2
     DEF LocalCounts, Reached, TableKnows, TableUndefined, GlobalNumbers, Bases, Indexed, Defines
<1>4. TableDefined'
  <2>1. \A g, tagndx : TagOf(g, tagndx)' = TagOf(g, tagndx)
    BY DEF TagOf
  <2> QED
    BY <1>1, <1>2, <2>1 DEF TableDefined, Defines
<1>5. SlotsGiven'
  BY <1>1, <1>2 DEF SlotsGiven
<1>6. n' \in Nat \ {0} /\ n' <= Len(table) + 1 /\ num_output_syms' \in Nat
  <2>1. Len(table) \in Nat /\ DOMAIN table = 1 .. Len(table)
    BY <1>1, TableShape
  <2>2. n + 1 \in Nat \ {0}
    BY <2>1
  <2> QED
    BY <1>1, <2>1, <2>2, NumberTypes
<1>7. Typed'
  BY <1>1, <1>2, <1>6 DEF Typed
<1>8. Lengths'
  <2>1. GlobalNumber(n)' = GlobalNumber(n + 1)
    BY DEF GlobalNumber, Base
  <2>2. total_output_symbols' = GlobalNumber(Len(table) + 1)'
    BY <1>1 DEF Lengths, Early, GlobalNumber, Base
  <2> QED
    BY <1>1, <2>1, <2>2 DEF Lengths, Early, Late
<1> QED
  BY <1>3, <1>4, <1>5, <1>7, <1>8

\* Where global symbols stand: behind the files, and each behind those before it.
LEMMA GlobalPlaces ==
  ASSUME Typed, NEW k \in DOMAIN table, NEW m \in Nat, k < m, ~table[k].local_flag
  PROVE  /\ GlobalNumber(k) \in Nat /\ GlobalNumber(m) \in Nat /\ Base \in Nat
         /\ Base <= GlobalNumber(k) /\ Base <= GlobalNumber(m)
         /\ GlobalNumber(k) + 1 + table[k].numaux <= GlobalNumber(m)
<1>1. Base \in Nat
  BY NumberTypes
<1>2. k \in Nat \ {0} /\ table[k].numaux \in {0, 1} /\ k + 1 <= m /\ k + 1 \in Nat \ {0}
  BY TableShape
<1>3. /\ Units(table, k) \in Nat /\ Units(table, k + 1) = Units(table, k) + 1 + table[k].numaux
  BY <1>2, UnitsStep
<1>4. Units(table, k + 1) <= Units(table, m) /\ Units(table, m) \in Nat
  BY <1>2, UnitsMonotone
<1> QED
  BY <1>1, <1>2, <1>3, <1>4 DEF GlobalNumber

\* The last .file entry gets the number of the first global symbol.
LEMMA LastChained ==
  ASSUME IInv, pc = "global", n \in DOMAIN table
  PROVE  LET front == IF lastfile = -1 THEN out ELSE UpdateFileEntry(num_output_syms) IN
         /\ front \in Seq(Line) /\ Len(front) = Len(out)
         /\ \A k \in DOMAIN out : /\ front[k].of = out[k].of
                                  /\ front[k].tagndx = out[k].tagndx
                                  /\ front[k].endndx = out[k].endndx
                                  /\ k # lastfile + 1 => front[k].value = out[k].value
         /\ lastfile # -1 => front[lastfile + 1].value = num_output_syms
<1>1. /\ Typed /\ Lengths /\ Chain
  BY DEF IInv
<1>2. /\ out \in Seq(Line) /\ lastfile \in Int /\ num_output_syms \in Nat /\ Len(out) = num_output_syms
  BY <1>1 DEF Typed, Lengths, Late
<1>3. CASE lastfile = -1
  BY <1>2, <1>3
<1>4. CASE lastfile # -1
  <2>1. lastfile + 1 \in DOMAIN out
    BY <1>1, <1>4 DEF Chain
  <2>2. Len(out) - (num_output_syms - lastfile) + 1 = lastfile + 1
    BY <1>2
  <2> DEFINE line  == [out[lastfile + 1] EXCEPT !.value = num_output_syms]
             front == UpdateFileEntry(num_output_syms)
  <2>3. front = [out EXCEPT ![lastfile + 1] = line]
    BY <1>2, <2>2 DEF UpdateFileEntry
  <2>4. out[lastfile + 1] \in Line
    BY <1>2, <2>1
  <2>5. /\ line \in Line /\ line.of = out[lastfile + 1].of /\ line.value = num_output_syms
        /\ line.tagndx = out[lastfile + 1].tagndx /\ line.endndx = out[lastfile + 1].endndx
    BY <1>2, <2>4 DEF Line
  <2> HIDE DEF line, front
  <2>6. /\ front \in Seq(Line) /\ Len(front) = Len(out)
        /\ \A k \in DOMAIN out : k # lastfile + 1 => front[k] = out[k]
        /\ front[lastfile + 1] = line
    BY <1>2, <2>1, <2>3, <2>5
  <2>7. /\ front \in Seq(Line) /\ Len(front) = Len(out)
        /\ \A k \in DOMAIN out : /\ front[k].of = out[k].of
                                 /\ front[k].tagndx = out[k].tagndx
                                 /\ front[k].endndx = out[k].endndx
                                 /\ k # lastfile + 1 => front[k].value = out[k].value
        /\ front[lastfile + 1].value = num_output_syms
    BY <2>5, <2>6
  <2> QED
    BY <1>4, <2>7 DEF front
<1> QED
  BY <1>3, <1>4

\* A symbol that is written with its file is passed over.
LEMMA GlobalPassedOver == ASSUME IInv, OutputGlobal, table[n].local_flag PROVE IInv'
<1>1. /\ Typed /\ Lengths /\ LocalsWritten /\ GlobalsWritten /\ Chain
  BY DEF IInv
<1>2. /\ pc = "global" /\ n \in DOMAIN table /\ n' = n + 1
      /\ pc' = pc /\ f' = f /\ files' = files /\ xflag' = xflag /\ local_syms' = local_syms
      /\ table' = table /\ symbol_index' = symbol_index
      /\ total_output_symbols' = total_output_symbols
      /\ index' = index /\ nextfile' = nextfile /\ slots' = slots
      /\ out' = out /\ lastfile' = lastfile /\ num_output_syms' = num_output_syms
  BY DEF OutputGlobal, input, pass1, update
<1>3. /\ out \in Seq(Line) /\ lastfile \in Int /\ n \in Nat \ {0} /\ table[n].numaux \in {0, 1}
      /\ Len(table) \in Nat /\ DOMAIN table = 1 .. Len(table)
      /\ Len(out) = num_output_syms /\ num_output_syms = GlobalNumber(n)
  BY <1>1, <1>2, TableShape DEF Typed, Lengths, Late
<1>4. GlobalNumber(n + 1) = GlobalNumber(n)
  BY <1>3, UnitsStep DEF GlobalNumber
<1>5. /\ Typed' /\ LocalCounts' /\ TableKnows' /\ TableDefined' /\ TableUndefined' /\ GlobalNumbers'
      /\ Bases' /\ Lengths' /\ SlotsGiven'
  <2>1. /\ num_output_syms' = GlobalNumber(n + 1) /\ Len(out') = num_output_syms'
        /\ out' \in Seq(Line) /\ lastfile' \in Int
    BY <1>2, <1>3, <1>4
  <2> QED
    BY <1>2, <2>1, GlobalStep
<1>6. /\ \A g, j : Number(g, j)' = Number(g, j)
      /\ \A g, j : Passed(g, j) /\ Passed(g, j)'
      /\ \A k : GlobalNumber(k)' = GlobalNumber(k)
      /\ Base' = Base /\ File' = File
      /\ \A k : FileLine(k)' <=> FileLine(k)
  BY <1>2 DEF Number, Passed, Late, GlobalNumber, Base, FileLine, Of, File
<1>7. LocalsWritten'
  <2>1. ASSUME NEW g, NEW j PROVE Right(g, j)' <=> Right(g, j)
    <3>1. /\ Number(g, j)' = Number(g, j) /\ Number(g, j - 1)' = Number(g, j - 1)
          /\ \A tagndx : TagOf(g, tagndx)' = TagOf(g, tagndx)
          /\ \A i : Of(g, i)' = Of(g, i)
      BY <1>2, <1>6 DEF TagOf, Of
    <3> QED
      BY <1>2, <3>1 DEF Right
  <2> QED
    BY <1>1, <1>2, <1>6, <2>1 DEF LocalsWritten
<1>8. \A k \in DOMAIN table : k < n' /\ ~table[k].local_flag <=> k < n /\ ~table[k].local_flag
  <2>1. \A k \in DOMAIN table : k < n + 1 => k < n \/ k = n
    BY <1>3
  <2>2. \A k \in DOMAIN table : k < n => k < n + 1
    BY <1>3
  <2> QED
    BY <1>2, <2>1, <2>2
<1>9. GlobalsWritten'
  BY <1>1, <1>2, <1>6, <1>8 DEF GlobalsWritten, Late
<1>10. Chain'
  <2>1. (\E k \in DOMAIN table' : k < n' /\ ~table'[k].local_flag)
          => \E k \in DOMAIN table : k < n /\ ~table[k].local_flag
    BY <1>2, <1>8
  <2>2. /\ \A k : FileLine(k)' <=> FileLine(k)
        /\ Base' = Base /\ Late /\ Late' /\ pc' # "local"
    BY <1>2, <1>6 DEF Late
  <2> QED
    BY <1>1, <1>2, <2>1, <2>2 DEF Chain
<1> QED
  BY <1>5, <1>7, <1>9, <1>10 DEF IInv

\* A global symbol is written behind what is written.
LEMMA GlobalWritten == ASSUME IInv, OutputGlobal, ~table[n].local_flag PROVE IInv'
<1>1. /\ Typed /\ Lengths /\ LocalsWritten /\ GlobalsWritten /\ Chain /\ LocalCounts /\ Bases
  BY DEF IInv
<1>2. /\ pc = "global" /\ n \in DOMAIN table /\ n' = n + 1
      /\ pc' = pc /\ f' = f /\ files' = files /\ xflag' = xflag /\ local_syms' = local_syms
      /\ table' = table /\ symbol_index' = symbol_index
      /\ total_output_symbols' = total_output_symbols
      /\ index' = index /\ nextfile' = nextfile /\ slots' = slots
      /\ lastfile' = -1 /\ num_output_syms' = num_output_syms + 1 + table[n].numaux
  BY DEF OutputGlobal, input, pass1, update
<1>3. /\ out \in Seq(Line) /\ lastfile \in Int /\ n \in Nat \ {0} /\ table[n].numaux \in {0, 1}
      /\ Len(table) \in Nat /\ DOMAIN table = 1 .. Len(table)
      /\ Len(out) = num_output_syms /\ num_output_syms = GlobalNumber(n)
      /\ DOMAIN out = 1 .. Len(out) /\ Len(out) \in Nat
      /\ table[n].name \in Nat /\ table[n].aux \in AuxEntry
  <2>1. table[n] \in TableSymbol
    BY <1>1, <1>2, TableShape
  <2>2. table[n].name \in Nat /\ table[n].aux \in AuxEntry
    BY <2>1 DEF TableSymbol
  <2> QED
    BY <1>1, <1>2, <2>2, TableShape DEF Typed, Lengths, Late
<1>4. /\ GlobalNumber(n + 1) = GlobalNumber(n) + 1 + table[n].numaux
      /\ Base \in Nat /\ Base <= GlobalNumber(n) /\ GlobalNumber(n) \in Nat
      /\ Units(table, n) \in Nat
  <2>1. Units(table, n) \in Nat /\ Units(table, n + 1) = Units(table, n) + 1 + table[n].numaux
    BY <1>3, UnitsStep
  <2>2. Base \in Nat
    BY <1>1, NumberTypes
  <2> QED
    BY <1>3, <2>1, <2>2 DEF GlobalNumber
<1> DEFINE of    == <<0, table[n].name, "sym">>
           a     == Written(of, NoAux, 0)
           b     == Written(AuxOf(of), table[n].aux, 0)
           r     == IF table[n].numaux = 0 THEN << >> ELSE << b >>
           front == IF lastfile = -1 THEN out ELSE UpdateFileEntry(num_output_syms)
<1>5. a \in Line /\ a.of = <<0, table[n].name, "sym">>
  <2>1. of \in Name
    BY <1>3 DEF Name
  <2> HIDE DEF of
  <2>2. a \in Line /\ a.of = of
    BY <2>1, LineShape, PlainShape
  <2> QED
    BY <2>2 DEF of
<1>6. /\ b \in Line /\ b.of = <<0, table[n].name, "aux">>
      /\ b.tagndx = table[n].aux.tagndx /\ b.endndx = table[n].aux.endndx
  <2>1. AuxOf(of) = <<0, table[n].name, "aux">>
    BY DEF AuxOf
  <2>2. AuxOf(of) \in Name
    BY <1>3, <2>1 DEF Name
  <2>3. table[n].aux.tagndx \in Nat /\ table[n].aux.endndx \in Nat
    BY <1>3 DEF AuxEntry
  <2> HIDE DEF of
  <2>4. /\ b \in Line /\ b.of = AuxOf(of)
        /\ b.tagndx = table[n].aux.tagndx /\ b.endndx = table[n].aux.endndx
    BY <2>2, <2>3, LineShape
  <2> HIDE DEF b
  <2> QED
    BY <2>1, <2>4
<1>7. out' = (front \o << a >>) \o r
  BY DEF OutputGlobal
<1>8. /\ front \in Seq(Line) /\ Len(front) = Len(out)
      /\ \A k \in DOMAIN out : /\ front[k].of = out[k].of
                               /\ front[k].tagndx = out[k].tagndx
                               /\ front[k].endndx = out[k].endndx
                               /\ k # lastfile + 1 => front[k].value = out[k].value
      /\ lastfile # -1 => front[lastfile + 1].value = num_output_syms
  BY <1>2, LastChained
<1> HIDE DEF a, b, front
<1>9. r \in Seq(Line) /\ Len(r) = table[n].numaux /\ (table[n].numaux = 1 => r[1] = b)
  BY <1>3, <1>6
<1> HIDE DEF r
<1>10. /\ out' \in Seq(Line) /\ Len(out') = Len(out) + 1 + table[n].numaux
       /\ \A k \in DOMAIN out : out'[k] = front[k]
       /\ out'[Len(out) + 1] = a
       /\ table[n].numaux = 1 => out'[Len(out) + 2] = b
  <2>1. DOMAIN front = DOMAIN out /\ Len(r) \in {0, 1}
    BY <1>3, <1>8, <1>9
  <2> QED
    BY <1>5, <1>7, <1>8, <1>9, <2>1, LinesAdded
<1>11. /\ Len(out') \in Nat /\ DOMAIN out' = 1 .. Len(out')
       /\ \A k \in DOMAIN out' : k \in DOMAIN out \/ k = Len(out) + 1
                                   \/ (k = Len(out) + 2 /\ table[n].numaux = 1)
       /\ \A k \in DOMAIN out : /\ k \in DOMAIN out'
                                /\ out'[k].of = out[k].of
                                /\ out'[k].tagndx = out[k].tagndx
                                /\ out'[k].endndx = out[k].endndx
                                /\ k # lastfile + 1 => out'[k].value = out[k].value
       /\ lastfile # -1 /\ lastfile + 1 \in DOMAIN out => out'[lastfile + 1].value = num_output_syms
  <2>1. Len(out') \in Nat /\ DOMAIN out' = 1 .. Len(out')
    BY <1>10
  <2>2. \A k \in DOMAIN out' : k \in DOMAIN out \/ k = Len(out) + 1
                                  \/ (k = Len(out) + 2 /\ table[n].numaux = 1)
    BY <1>3, <1>10, <2>1
  <2>3. \A k \in DOMAIN out : k \in DOMAIN out'
    BY <1>3, <1>10, <2>1
  <2>4. lastfile # -1 /\ lastfile + 1 \in DOMAIN out => out'[lastfile + 1].value = num_output_syms
    BY <1>8, <1>10
  <2> QED
    BY <1>8, <1>10, <2>1, <2>2, <2>3, <2>4
<1>12. /\ Typed' /\ LocalCounts' /\ TableKnows' /\ TableDefined' /\ TableUndefined' /\ GlobalNumbers'
       /\ Bases' /\ Lengths' /\ SlotsGiven'
  <2>1. /\ num_output_syms' = GlobalNumber(n + 1) /\ Len(out') = num_output_syms'
        /\ lastfile' \in Int
    BY <1>2, <1>3, <1>4, <1>10
  <2> QED
    BY <1>2, <1>10, <2>1, GlobalStep
<1>13. /\ \A g, j : Number(g, j)' = Number(g, j)
       /\ \A g, j : Passed(g, j) /\ Passed(g, j)'
       /\ \A k : GlobalNumber(k)' = GlobalNumber(k)
       /\ Base' = Base /\ File' = File /\ Late /\ Late' /\ pc' # "local"
  BY <1>2 DEF Number, Passed, Late, GlobalNumber, Base, File
<1>14. LocalsWritten'
  <2>1. ASSUME NEW g \in File, NEW j \in DOMAIN files[g], Kept(files[g], xflag, j)
        PROVE  Right(g, j)'
    <3>1. Number(g, j) + 1 \in DOMAIN out
      <4>1. /\ Number(g, j) \in Nat /\ Number(g, j) < symbol_index[g] + local_syms[g]
            /\ symbol_index[g] + local_syms[g] <= Base
            /\ symbol_index[g] \in Nat /\ local_syms[g] \in Nat
        BY <1>1, <1>2, <2>1, FilesApart
      <4> QED
        BY SMTT(40), <1>3, <1>4, <4>1
    <3>2. LET k == Number(g, j) + 1 IN
            out'[k].of = out[k].of /\ out'[k].tagndx = out[k].tagndx /\ out'[k].endndx = out[k].endndx
      BY <1>11, <3>1
    <3>3. Right(g, j)
      BY <1>1, <1>13, <2>1 DEF LocalsWritten
    <3>4. /\ Number(g, j)' = Number(g, j) /\ Number(g, j - 1)' = Number(g, j - 1)
          /\ Of(g, j)' = Of(g, j) /\ Of(g, j - 1)' = Of(g, j - 1)
          /\ TagOf(g, files[g][j].tagndx)' = TagOf(g, files[g][j].tagndx)
      BY <1>2, <1>13 DEF TagOf, Of
    <3> QED
      BY <1>2, <3>2, <3>3, <3>4 DEF Right
  <2>2. \A k \in DOMAIN out' : k <= Base => k \in DOMAIN out
    BY <1>3, <1>4, <1>11
  <2> QED
    BY <1>1, <1>2, <1>13, <2>1, <2>2 DEF LocalsWritten
<1>15. ASSUME NEW k \in DOMAIN table, k < n', ~table[k].local_flag
       PROVE  /\ out'[GlobalNumber(k) + 1].of = <<0, table[k].name, "sym">>
              /\ table[k].numaux = 1 =>
                   /\ out'[GlobalNumber(k) + 2].of = <<0, table[k].name, "aux">>
                   /\ out'[GlobalNumber(k) + 2].tagndx = table[k].aux.tagndx
                   /\ out'[GlobalNumber(k) + 2].endndx = table[k].aux.endndx
  <2>1. CASE k < n
    <3>1. /\ GlobalNumber(k) \in Nat /\ GlobalNumber(k) + 1 + table[k].numaux <= GlobalNumber(n)
      BY <1>1, <1>3, <1>15, <2>1, GlobalPlaces
    <3>2. table[k].numaux \in {0, 1}
      BY <1>1, TableShape
    <3>3. /\ GlobalNumber(k) + 1 \in DOMAIN out
          /\ table[k].numaux = 1 => GlobalNumber(k) + 2 \in DOMAIN out
      BY SMTT(40), <1>3, <1>4, <3>1, <3>2
    <3> QED
      BY <1>1, <1>11, <1>13, <1>15, <2>1, <3>3 DEF GlobalsWritten
  <2>2. CASE k = n
    <3>1. GlobalNumber(k) + 1 = Len(out) + 1 /\ GlobalNumber(k) + 2 = Len(out) + 2
      BY <1>3, <2>2
    <3> QED
      BY <1>5, <1>6, <1>10, <2>2, <3>1
  <2> QED
    BY <1>2, <1>3, <1>15, <2>1, <2>2
<1>16. ASSUME NEW i \in DOMAIN out', i > Base
       PROVE  \E k \in DOMAIN table : \E d \in {0, 1} :
                k < n' /\ ~table[k].local_flag /\ d <= table[k].numaux /\ i = GlobalNumber(k) + 1 + d
  <2>1. CASE i \in DOMAIN out
    <3>1. \E k \in DOMAIN table : \E d \in {0, 1} :
            k < n /\ ~table[k].local_flag /\ d <= table[k].numaux /\ i = GlobalNumber(k) + 1 + d
      BY <1>1, <1>13, <1>16, <2>1 DEF GlobalsWritten
    <3>2. \A k \in DOMAIN table : k < n => k < n'
      BY <1>2, <1>3
    <3> QED
      BY <3>1, <3>2
  <2>2. CASE i = Len(out) + 1
    <3>1. i = GlobalNumber(n) + 1 + 0 /\ n < n' /\ 0 <= table[n].numaux
      BY <1>2, <1>3, <1>4, <2>2
    <3> QED
      BY <1>2, <3>1
  <2>3. CASE i = Len(out) + 2 /\ table[n].numaux = 1
    <3>1. i = GlobalNumber(n) + 1 + 1 /\ n < n' /\ 1 <= table[n].numaux
      BY <1>2, <1>3, <1>4, <2>3
    <3> QED
      BY <1>2, <3>1
  <2> QED
    BY <1>11, <2>1, <2>2, <2>3
<1>17. GlobalsWritten'
  <2>1. \A k \in DOMAIN table : GlobalNumber(k)' = GlobalNumber(k)
    BY <1>13
  <2> QED
    BY <1>2, <1>13, <1>15, <1>16, <2>1 DEF GlobalsWritten
<1>18. ASSUME NEW k \in DOMAIN out PROVE FileLine(k)' <=> FileLine(k)
  BY <1>2, <1>11, <1>13 DEF FileLine, Of
<1>19. ASSUME NEW k \in DOMAIN out', k \notin DOMAIN out PROVE ~FileLine(k)'
  <2>1. out'[k].of \in {<<0, table[n].name, "sym">>, <<0, table[n].name, "aux">>}
    BY <1>5, <1>6, <1>10, <1>11, <1>19
  <2>2. FileLine(k)' <=> \E g \in File : \E j \in DOMAIN files[g] :
                           files[g][j].class = "file" /\ out'[k].of = <<g, j, "sym">>
    BY <1>2, <1>13 DEF FileLine, Of
  <2>3. 0 \notin File
    BY <1>1, Here
  <2> QED
    BY <2>1, <2>2, <2>3
<1>20. ASSUME NEW k \in DOMAIN out', FileLine(k)', NEW next, next = out'[k].value
       PROVE  /\ next >= k
              /\ (next + 1 \in DOMAIN out' /\ FileLine(next + 1)') \/ next = Base
              /\ \A l \in (k + 1) .. next : ~FileLine(l)'
  <2>1. k \in DOMAIN out /\ FileLine(k) /\ k \in Nat \ {0}
    BY <1>3, <1>18, <1>19, <1>20
  <2>2. CASE k # lastfile + 1
    <3>1. next = out[k].value /\ next \in Nat
      <4>1. out[k] \in Line
        BY <1>3, <2>1
      <4> QED
        BY <1>11, <1>20, <2>1, <2>2, <4>1 DEF Line
    <3>2. /\ next >= k
          /\ (next + 1 \in DOMAIN out /\ FileLine(next + 1)) \/ (Late /\ next = Base)
          /\ \A l \in (k + 1) .. next : ~FileLine(l)
      BY <1>1, <2>1, <2>2, <3>1 DEF Chain
    <3>3. \A l \in (k + 1) .. next : l \in DOMAIN out
      <4>1. next <= Len(out)
        BY <1>3, <1>4, <3>1, <3>2
      <4> QED
        BY <1>3, <2>1, <3>1, <4>1
    <3> QED
      BY <1>11, <1>18, <3>2, <3>3
  <2>3. CASE k = lastfile + 1
    <3>1. lastfile # -1
      BY <1>3, <2>1, <2>3
    <3>2. next = num_output_syms
      BY <1>11, <1>20, <2>1, <2>3, <3>1
    <3>3. next = Base
      <4>1. \A i \in 1 .. (n - 1) : table[i].local_flag
        <5>1. \A i \in DOMAIN table : i < n => table[i].local_flag
          BY <1>1, <1>13, <3>1 DEF Chain
        <5> QED
          BY <1>2, <1>3, <5>1
      <4>2. Units(table, n) = 0
        BY <1>3, <4>1, UnitsOfLocals
      <4> QED
        BY <1>3, <1>4, <3>2, <4>2 DEF GlobalNumber
    <3>4. \A i \in DOMAIN out : i > k => ~FileLine(i)
      BY <1>1, <2>3, <3>1 DEF Chain
    <3>5. /\ \A l \in (k + 1) .. next : l \in DOMAIN out /\ l > k
          /\ next >= k
      BY <1>3, <2>1, <3>2
    <3> QED
      BY <1>18, <3>3, <3>4, <3>5
  <2> QED
    BY <2>2, <2>3
<1>21. Chain'
  BY <1>2, <1>13, <1>20 DEF Chain
<1> QED
  BY <1>12, <1>14, <1>17, <1>21 DEF IInv

\* When all global symbols are through, nothing changes any more.
LEMMA FinishUpKeeps == ASSUME IInv, FinishUp PROVE IInv'
<1>1. /\ Typed /\ LocalCounts /\ TableKnows /\ TableDefined /\ TableUndefined /\ GlobalNumbers
      /\ Bases /\ Lengths /\ LocalsWritten /\ GlobalsWritten /\ SlotsGiven /\ Chain
  BY DEF IInv
<1>2. /\ pc = "global" /\ pc' = "done" /\ n \notin DOMAIN table /\ n' = n
      /\ f' = f /\ files' = files /\ xflag' = xflag /\ local_syms' = local_syms
      /\ table' = table /\ symbol_index' = symbol_index
      /\ total_output_symbols' = total_output_symbols /\ num_output_syms' = num_output_syms
      /\ index' = index /\ nextfile' = nextfile /\ slots' = slots
      /\ out' = out /\ lastfile' = lastfile /\ File' = File
  BY DEF FinishUp, input, pass1, update, pass2, File
<1>3. n = Len(table) + 1
  BY <1>1, <1>2, TableShape DEF Typed
<1>4. /\ \A g, j : Number(g, j)' = Number(g, j) /\ Read(g, j) /\ Read(g, j)'
      /\ \A g, j : Passed(g, j) /\ Passed(g, j)'
      /\ \A k : Updated(k) /\ Updated(k)' /\ GlobalNumber(k)' = GlobalNumber(k)
      /\ Base' = Base /\ Late /\ Late' /\ pc' # "local" /\ ~Early /\ ~Early'
      /\ \A k : FileLine(k)' <=> FileLine(k)
      /\ \A g, tagndx : TagOf(g, tagndx)' = TagOf(g, tagndx)
  BY <1>2 DEF Number, Read, Passed, Late, Early, Updated, GlobalNumber, Base, FileLine, Of, TagOf
<1>5. Typed' /\ LocalCounts'
  BY <1>1, <1>2 DEF Typed, LocalCounts, Reached
<1>6. TableKnows' /\ TableUndefined' /\ GlobalNumbers' /\ Bases'
  BY <1>1, <1>2, <1>4 DEF TableKnows, TableUndefined, GlobalNumbers, Bases, Indexed, Defines
<1>7. TableDefined'
  BY <1>1, <1>2, <1>4 DEF TableDefined, Defines
<1>8. Lengths'
  <2>1. /\ total_output_symbols' = GlobalNumber(Len(table) + 1)'
        /\ num_output_syms' = GlobalNumber(n)'
    BY <1>1, <1>2, <1>4 DEF Lengths, GlobalNumber, Base
  <2> QED
    BY <1>1, <1>2, <1>3, <1>4, <2>1 DEF Lengths
<1>9. LocalsWritten'
  <2>1. ASSUME NEW g, NEW j PROVE Right(g, j)' <=> Right(g, j)
    <3>1. /\ Number(g, j)' = Number(g, j) /\ Number(g, j - 1)' = Number(g, j - 1)
          /\ \A tagndx : TagOf(g, tagndx)' = TagOf(g, tagndx)
          /\ \A i : Of(g, i)' = Of(g, i)
      BY <1>2, <1>4 DEF TagOf, Of
    <3> QED
      BY <1>2, <3>1 DEF Right
  <2> QED
    BY <1>1, <1>2, <1>4, <2>1 DEF LocalsWritten
<1>10. GlobalsWritten' /\ SlotsGiven'
  BY <1>1, <1>2, <1>4 DEF GlobalsWritten, SlotsGiven
<1>11. Chain'
  BY <1>1, <1>2, <1>4 DEF Chain
<1> QED
  BY <1>5, <1>6, <1>7, <1>8, <1>9, <1>10, <1>11 DEF IInv

-----------------------------------------------------------------------------
(* The invariant.                                                          *)

\* A link begins with the first entry of the first file.
LEMMA InitInv == Init => IInv
<1> SUFFICES ASSUME Init PROVE IInv
  OBVIOUS
<1>1. /\ pc = "pass1" /\ f = 1 /\ n = 1 /\ xflag \in BOOLEAN /\ files \in Links
      /\ local_syms = [g \in File |-> 0] /\ table = <<>>
      /\ symbol_index = [g \in File |-> 0] /\ total_output_symbols = 0
      /\ index = 0 /\ lastfile = -1 /\ nextfile = -1
      /\ num_output_syms = 0 /\ out = <<>> /\ slots = {}
  BY DEF Init
<1>2. /\ File = 1 .. Len(files) /\ Len(files) \in Nat \ {0}
      /\ \A g \in File : DOMAIN files[g] = 1 .. Len(files[g]) /\ Len(files[g]) \in Nat
  BY <1>1, LinkShape DEF File
<1>3. Typed
  <2>1. Begins(files[1], 1)
    <3>1. SUFFICES ASSUME 1 \in DOMAIN files[1], files[1][1].class = "aux" PROVE FALSE
      BY DEF Begins
    <3>2. 1 \in DOMAIN files
      BY <1>2 DEF File
    <3>3. 0 \in DOMAIN files[1]
      BY <1>1, <3>1, <3>2, EntryShape
    <3> QED
      BY <1>2, <3>2, <3>3 DEF File
  <2> QED
    BY <1>1, <1>2, <2>1 DEF Typed
<1>4. \A g \in File : \A j \in DOMAIN files[g] : ~Read(g, j)
  BY <1>1, <1>2 DEF Read
<1>5. LocalCounts
  <2>1. \A g \in File : Reached(g) = 1
    BY <1>1, <1>2 DEF Reached
  <2>2. \A g \in File : Count(files[g], xflag, 1) = 0
    BY CountStep
  <2> QED
    BY <1>1, <2>1, <2>2 DEF LocalCounts
<1>6. TableKnows /\ TableDefined /\ TableUndefined /\ GlobalNumbers /\ Bases
  BY <1>1, <1>4 DEF TableKnows, TableDefined, TableUndefined, GlobalNumbers, Bases, Indexed
<1>7. Lengths /\ Early
  BY <1>1 DEF Lengths, Early, Late
<1> QED
  BY <1>3, <1>5, <1>6, <1>7, NothingWritten DEF IInv

\* Every step keeps the invariant, and so does one that changes nothing.
LEMMA NextInv == IInv /\ [Next]_vars => IInv'
<1> SUFFICES ASSUME IInv, [Next]_vars PROVE IInv'
  OBVIOUS
<1>1. CASE OutputGlobal
  BY <1>1, GlobalPassedOver, GlobalWritten
<1>2. CASE UNCHANGED vars
  <2> USE <1>2 DEF vars, input, pass1, update, pass2
  <2>1. /\ \A g, j : Read(g, j)' <=> Read(g, j)
        /\ \A g, j : Passed(g, j)' <=> Passed(g, j)
        /\ \A g, j : Right(g, j)' <=> Right(g, j)
        /\ \A g, j : Number(g, j)' = Number(g, j)
        /\ \A g, i : TagOf(g, i)' = TagOf(g, i)
        /\ \A k : (Updated(k)' <=> Updated(k)) /\ GlobalNumber(k)' = GlobalNumber(k)
        /\ \A k : FileLine(k)' <=> FileLine(k)
        /\ Base' = Base /\ (Late' <=> Late) /\ (Early' <=> Early) /\ File' = File
        /\ \A g : Reached(g)' = Reached(g)
        /\ Indexed' = Indexed
    BY DEF Read, Passed, Number, TagOf, Updated, GlobalNumber, FileLine, Base, Late, Early, File,
           Reached, Indexed, Right, Of
  <2>2. Typed' /\ LocalCounts' /\ TableKnows' /\ TableUndefined' /\ GlobalNumbers' /\ Bases'
    BY <2>1 DEF IInv, Typed, LocalCounts, TableKnows, TableUndefined, GlobalNumbers, Bases, Defines
  <2>3. TableDefined'
    BY <2>1 DEF IInv, TableDefined, Defines
  <2>4. Lengths'
    <3>1. /\ GlobalNumber(n)' = GlobalNumber(n)
          /\ GlobalNumber(Len(table) + 1)' = GlobalNumber(Len(table) + 1)
          /\ Number(f, n)' = Number(f, n)
      BY DEF GlobalNumber, Base, Number
    <3> QED
      BY <2>1, <3>1 DEF IInv, Lengths
  <2>5. LocalsWritten' /\ SlotsGiven'
    BY <2>1 DEF IInv, LocalsWritten, SlotsGiven
  <2>6. GlobalsWritten'
    BY <2>1 DEF IInv, GlobalsWritten
  <2>7. Chain'
    <3>1. FileLine(lastfile + 1)' <=> FileLine(lastfile + 1)
      BY DEF FileLine, File, Of
    <3> QED
      BY <2>1, <3>1 DEF IInv, Chain
  <2> QED
    BY <2>2, <2>3, <2>4, <2>5, <2>6, <2>7 DEF IInv
<1> QED
  BY <1>1, <1>2, ProcessEntryKeeps, NextFileKeeps, IndexFileKeeps, UpdateSymbolKeeps, UpdateDoneKeeps,
     OutputFunctionKeeps, OutputExternalKeeps, OutputLocalKeeps, OutputFileEntryKeeps, EndFileKeeps,
     FinishUpKeeps DEF Next

\* What the second pass relies on when it uses a number: what pass 1 counted and
\* what the update computed of it agrees with what is written.
THEOREM SpecIInv == Spec => []IInv
BY InitInv, NextInv, PTL DEF Spec

\* The number of symbols that the string table and the file header are made for is
\* that of the entries written.
THEOREM SpecCountsAgree == Spec => []CountsAgree
<1>1. IInv => CountsAgree
  <2> SUFFICES ASSUME IInv, Done PROVE Len(out) = total_output_symbols /\ Len(out) = num_output_syms
    BY DEF CountsAgree
  <2>1. Lengths /\ pc = "done"
    BY DEF IInv, Done
  <2>2. /\ n = Len(table) + 1 /\ num_output_syms = GlobalNumber(n)
        /\ total_output_symbols = GlobalNumber(Len(table) + 1) /\ Len(out) = num_output_syms
    BY <2>1 DEF Lengths, Late, Early
  <2> QED
    BY <2>2
<1> QED
  BY <1>1, SpecIInv, PTL

\* When the link is done all symbols are through.
LEMMA DoneFacts ==
  ASSUME IInv, Done
  PROVE  /\ Typed /\ Late /\ pc = "done" /\ n = Len(table) + 1
         /\ Len(table) \in Nat /\ DOMAIN table = 1 .. Len(table)
         /\ \A g, j : Passed(g, j) /\ Read(g, j)
         /\ \A k : Updated(k)
         /\ \A k \in DOMAIN table : k < n
         /\ out \in Seq(Line) /\ Len(out) = GlobalNumber(n) /\ Len(out) \in Nat /\ DOMAIN out = 1 .. Len(out)
         /\ Base \in Nat /\ Base <= Len(out)
         /\ files \in Links /\ File = DOMAIN files
<1>1. Typed /\ Lengths /\ pc = "done"
  BY DEF IInv, Done
<1>2. Len(table) \in Nat /\ DOMAIN table = 1 .. Len(table) /\ files \in Links
  BY <1>1, TableShape, Here
<1>3. /\ Late /\ n = Len(table) + 1 /\ Len(out) = GlobalNumber(n)
      /\ \A g, j : Passed(g, j) /\ Read(g, j)
      /\ \A k : Updated(k)
  BY <1>1 DEF Lengths, Late, Passed, Read, Updated
<1>4. \A k \in DOMAIN table : k < n
  BY <1>2, <1>3
<1>5. out \in Seq(Line) /\ Len(out) \in Nat /\ DOMAIN out = 1 .. Len(out)
  BY <1>1 DEF Typed
<1>6. Base \in Nat /\ Base <= Len(out)
  <2>1. Base \in Nat /\ Units(table, n) \in Nat
    BY <1>1, <1>2, <1>3, NumberTypes
  <2> QED
    BY <1>3, <2>1 DEF GlobalNumber
<1> QED
  BY <1>1, <1>2, <1>3, <1>4, <1>5, <1>6 DEF File

\* Where an entry of a file is found.
LEMMA FoundLocal ==
  ASSUME IInv, Done, NEW g \in File, NEW j \in DOMAIN files[g], Kept(files[g], xflag, j)
  PROVE  Number(g, j) \in 0 .. (Len(out) - 1) /\ Right(g, j)
<1>1. Typed /\ LocalCounts /\ Bases /\ LocalsWritten /\ pc = "done" /\ Passed(g, j)
      /\ Base \in Nat /\ Base <= Len(out) /\ Len(out) \in Nat
  BY DoneFacts DEF IInv
<1>2. /\ Number(g, j) \in Nat /\ Number(g, j) < symbol_index[g] + local_syms[g]
      /\ symbol_index[g] + local_syms[g] <= Base
      /\ symbol_index[g] \in Nat /\ local_syms[g] \in Nat
  BY <1>1, FilesApart
<1>3. Right(g, j)
  BY <1>1 DEF LocalsWritten
<1> QED
  BY <1>1, <1>2, <1>3

\* Where a global symbol is found.
LEMMA FoundGlobal ==
  ASSUME IInv, Done, NEW k \in DOMAIN table
  PROVE  /\ table[k].sym_index \in 0 .. (Len(out) - 1)
         /\ At(table[k].sym_index).of = <<0, table[k].name, "sym">>
<1>1. /\ Typed /\ TableDefined /\ TableUndefined /\ GlobalNumbers /\ GlobalsWritten
      /\ Late /\ Updated(k) /\ k < n /\ n \in Nat /\ Len(out) = GlobalNumber(n)
  BY DoneFacts DEF IInv
<1>2. CASE table[k].local_flag
  <2>0. PICK g \in File : \E j \in DOMAIN files[g] :
          /\ Defines(g, j, table[k].name) /\ Function(files[g][j])
          /\ table[k].sym_index = Number(g, j)
    BY <1>1, <1>2, LocalSymbol
  <2>1. PICK j \in DOMAIN files[g] :
          /\ Defines(g, j, table[k].name) /\ Function(files[g][j])
          /\ table[k].sym_index = Number(g, j)
    BY <2>0
  <2>2. files[g][j].class = "ext" /\ files[g][j].name = table[k].name
    BY <2>1 DEF Defines
  <2>3. Kept(files[g], xflag, j)
    BY <2>1, <2>2 DEF Kept, Owner
  <2>4. Number(g, j) \in 0 .. (Len(out) - 1) /\ Right(g, j)
    BY <2>3, FoundLocal
  <2>5. out[Number(g, j) + 1].of = <<0, table[k].name, "sym">>
    BY <2>2, <2>4 DEF Right, Of
  <2> QED
    BY <2>1, <2>4, <2>5 DEF At
<1>3. CASE ~table[k].local_flag
  <2>1. table[k].sym_index = GlobalNumber(k)
    BY <1>1, <1>3 DEF GlobalNumbers
  <2>2. /\ GlobalNumber(k) \in Nat /\ GlobalNumber(k) + 1 + table[k].numaux <= GlobalNumber(n)
        /\ GlobalNumber(n) \in Nat /\ table[k].numaux \in {0, 1}
    BY <1>1, <1>3, GlobalPlaces, TableShape
  <2>3. out[GlobalNumber(k) + 1].of = <<0, table[k].name, "sym">>
    BY <1>1, <1>3 DEF GlobalsWritten
  <2> QED
    BY <1>1, <2>1, <2>2, <2>3 DEF At
<1> QED
  BY <1>2, <1>3

\* A number that was put in a slot is the one where the symbol was written.
THEOREM SpecSlotsName == Spec => []SlotsName
<1>1. IInv => SlotsName
  <2> SUFFICES ASSUME IInv, Done, NEW s \in slots
               PROVE  s.new \in 0 .. (Len(out) - 1) /\ At(s.new).of = Of(s.file, s.old)
    BY DEF SlotsName
  <2> DEFINE g == s.file
             j == s.old
             e == files[g][j]
  <2>1. /\ g \in File /\ j \in DOMAIN files[g] /\ e.class \in {"ext", "stat"}
        /\ e.class = "stat" => s.new = Number(g, j)
        /\ e.class = "ext" =>
             \A k \in DOMAIN table : table[k].name = e.name => s.new = table[k].sym_index
    BY DEF IInv, SlotsGiven
  <2>2. CASE e.class = "stat"
    <3>1. Kept(files[g], xflag, j)
      BY <2>2 DEF Kept, Owner
    <3>2. Number(g, j) \in 0 .. (Len(out) - 1) /\ Right(g, j)
      BY <2>1, <3>1, FoundLocal
    <3> QED
      BY <2>1, <2>2, <3>2 DEF Right, At
  <2>3. CASE e.class = "ext"
    <3>1. PICK k \in DOMAIN table : table[k].name = e.name
      BY <2>1, <2>3, DoneFacts DEF IInv, TableKnows
    <3>2. /\ table[k].sym_index \in 0 .. (Len(out) - 1)
          /\ At(table[k].sym_index).of = <<0, table[k].name, "sym">>
      BY FoundGlobal
    <3>3. s.new = table[k].sym_index
      BY <2>1, <2>3, <3>1
    <3>4. Of(g, j) = <<0, e.name, "sym">>
      BY <2>3 DEF Of
    <3> QED
      BY <3>1, <3>2, <3>3, <3>4
  <2> QED
    BY <2>1, <2>2, <2>3
<1> QED
  BY <1>1, SpecIInv, PTL

\* Every .file entry leads to the next one, the last one to the globals.
THEOREM SpecFileChain == Spec => []FileChain
<1>1. IInv => FileChain
  <2> SUFFICES ASSUME IInv, Done, NEW h \in DOMAIN table, ~table[h].local_flag,
                      NEW k \in DOMAIN out, FileLine(k)
               PROVE  /\ out[k].value >= k
                      /\ out[k].value = Base \/ FileLine(out[k].value + 1)
                      /\ \A l \in (k + 1) .. out[k].value : ~FileLine(l)
    BY DEF FileChain, FileLine, Base
  <2>1. lastfile = -1
    <3>1. h < n /\ Late
      BY DoneFacts
    <3> QED
      BY <3>1 DEF IInv, Chain
  <2>2. k # lastfile + 1
    <3>1. k \in 1 .. Len(out)
      BY DoneFacts
    <3> QED
      BY <2>1, <3>1
  <2> QED
    BY <2>2 DEF IInv, Chain
<1> QED
  BY <1>1, SpecIInv, PTL

\* Names in what is written: an entry that defines something has one of its own.
LEMMA NamesApart ==
  ASSUME Typed, NEW g \in File, NEW j \in DOMAIN files[g], NEW h \in File, NEW m \in DOMAIN files[h],
         files[g][j].class = "ext" => files[g][j].scnum # 0,
         files[h][m].class = "ext" => files[h][m].scnum # 0,
         Of(h, m) = Of(g, j) \/ AuxOf(Of(h, m)) = AuxOf(Of(g, j))
  PROVE  h = g /\ m = j
<1>1. g \in Nat \ {0} /\ h \in Nat \ {0} /\ files \in Links /\ g \in DOMAIN files /\ h \in DOMAIN files
  BY Here DEF File
<1>2. ASSUME NEW i, NEW l
      PROVE  /\ Of(i, l) = IF files[i][l].class = "ext" THEN <<0, files[i][l].name, "sym">>
                                                        ELSE <<i, l, "sym">>
             /\ AuxOf(Of(i, l)) = IF files[i][l].class = "ext" THEN <<0, files[i][l].name, "aux">>
                                                               ELSE <<i, l, "aux">>
  BY DEF Of, AuxOf
<1>3. CASE files[g][j].class = "ext" /\ files[h][m].class = "ext"
  <2>1. files[h][m].name = files[g][j].name
    BY <1>2, <1>3
  <2> QED
    BY <1>1, <1>3, <2>1, DefinedOnce
<1>4. CASE files[g][j].class # "ext" /\ files[h][m].class # "ext"
  BY <1>2, <1>4
<1>5. CASE files[g][j].class = "ext" /\ files[h][m].class # "ext"
  BY <1>1, <1>2, <1>5
<1>6. CASE files[g][j].class # "ext" /\ files[h][m].class = "ext"
  BY <1>1, <1>2, <1>6
<1> QED
  BY <1>3, <1>4, <1>5, <1>6

\* A line for a symbol is none for an auxiliary entry.
LEMMA KindsApart == \A g, j, h, m : Of(g, j) # AuxOf(Of(h, m))
BY DEF Of, AuxOf

\* The lines of a file, which stand together, and what they are.
LEMMA LinesOfFile ==
  ASSUME IInv, Done, NEW k \in DOMAIN out, k <= Base
  PROVE  \E h \in File : \E m \in DOMAIN files[h] :
           /\ Kept(files[h], xflag, m) /\ k = Number(h, m) + 1 /\ Right(h, m)
           /\ Number(h, m) \in Nat /\ symbol_index[h] <= Number(h, m)
           /\ Number(h, m) < symbol_index[h] + local_syms[h]
           /\ files[h][m].class # "aux" => out[k].of = Of(h, m)
           /\ files[h][m].class = "aux" =>
                /\ m - 1 \in DOMAIN files[h] /\ files[h][m - 1].class # "aux"
                /\ files[h][m - 1].numaux = 1
                /\ out[k].of = AuxOf(Of(h, m - 1))
           /\ Owner(files[h], m).class = "ext" => Owner(files[h], m).scnum # 0
<1>1. LocalsWritten /\ Typed /\ LocalCounts /\ Bases /\ pc = "done"
      /\ files \in Links /\ File = DOMAIN files
  BY DoneFacts DEF IInv
<1>2. PICK h \in File : \E m \in DOMAIN files[h] : Kept(files[h], xflag, m) /\ k = Number(h, m) + 1
  BY <1>1 DEF LocalsWritten
<1>3. PICK m \in DOMAIN files[h] : Kept(files[h], xflag, m) /\ k = Number(h, m) + 1
  BY <1>2
<1>4. Right(h, m)
  BY <1>3, FoundLocal
<1>5. /\ Number(h, m) \in Nat /\ symbol_index[h] <= Number(h, m)
      /\ Number(h, m) < symbol_index[h] + local_syms[h]
  BY <1>1, <1>3, FilesApart
<1>6. files[h][m].class = "aux" => /\ m - 1 \in DOMAIN files[h] /\ files[h][m - 1].class # "aux"
                                   /\ files[h][m - 1].numaux = 1
  BY <1>1, EntryShape
<1>7. Owner(files[h], m).class = "ext" => Owner(files[h], m).scnum # 0
  <2>1. SUFFICES ASSUME Owner(files[h], m).class = "ext" PROVE Owner(files[h], m).scnum # 0
    OBVIOUS
  <2>2. Function(Owner(files[h], m))
    BY <1>3, <2>1 DEF Kept
  <2>3. PICK i \in DOMAIN files[h] : Owner(files[h], m) = files[h][i]
    BY <1>6 DEF Owner
  <2>4. files[h][i].scnum > 0 /\ files[h][i].scnum \in Int
    BY <1>1, <2>1, <2>2, <2>3, DefinedOnce, EntryShape
  <2> QED
    BY <2>3, <2>4
<1>8. /\ files[h][m].class # "aux" => out[k].of = Of(h, m)
      /\ files[h][m].class = "aux" => out[k].of = AuxOf(Of(h, m - 1))
  BY <1>3, <1>4 DEF Right
<1> QED
  BY <1>3, <1>4, <1>5, <1>6, <1>7, <1>8

\* The place in the output that a number of a file stands for, when no variable
\* comes before it, is counted by what is kept.
LEMMA NewPlaceCounts ==
  ASSUME IInv, Done, NEW g \in File, NEW i \in DOMAIN files[g], Begins(files[g], i + 1),
         \A l \in 1 .. i : ~Unnumbered(Owner(files[g], l))
  PROVE  NewPlace(g, i) = Number(g, i + 1)
<1> DEFINE t == files[g]
           c == Count(t, xflag, i + 1)
           lo == symbol_index[g]
           S == {k \in DOMAIN out :
                   \E j \in 1 .. i : /\ t[j].class # "aux"
                                     /\ out[k].of \in {Of(g, j), AuxOf(Of(g, j))}
                                     /\ k <= lo + local_syms[g]}
<1>1. /\ Typed /\ LocalCounts /\ Bases /\ pc = "done" /\ files \in Links /\ File = DOMAIN files
      /\ DOMAIN out = 1 .. Len(out) /\ Len(out) \in Nat /\ Base \in Nat /\ Base <= Len(out)
  BY DoneFacts DEF IInv
<1>2. /\ DOMAIN t = 1 .. Len(t) /\ Len(t) \in Nat /\ i \in Nat \ {0} /\ i <= Len(t)
      /\ i + 1 \in 1 .. (Len(t) + 1)
      /\ g \in Nat
  BY <1>1, Here
<1>3. /\ lo \in Nat /\ local_syms[g] \in Nat /\ lo + local_syms[g] <= Base
      /\ local_syms[g] = Count(t, xflag, Len(t) + 1)
      /\ \A h \in File : h < g => symbol_index[h] + local_syms[h] <= lo
      /\ \A h \in File : g < h => lo + local_syms[g] <= symbol_index[h]
      /\ \A h \in File : symbol_index[h] \in Nat /\ local_syms[h] \in Nat /\ h \in Nat
  <2>1. \A h \in File : h \in Nat
    BY <1>1, Here
  <2> QED
    BY <1>1, <2>1, FilesApart
<1>4. c \in Nat /\ c <= local_syms[g] /\ Number(g, i + 1) = lo + c
  <2>1. c \in Nat /\ c <= Count(t, xflag, Len(t) + 1)
    BY <1>2, CountRange
  <2> QED
    BY <1>3, <2>1 DEF Number
<1>5. ASSUME NEW l \in 1 .. i PROVE t[l].class = "ext" => t[l].scnum # 0
  <2>1. SUFFICES ASSUME t[l].class = "ext" PROVE t[l].scnum # 0
    OBVIOUS
  <2>2. Owner(t, l) = t[l] /\ l \in DOMAIN t
    BY <1>2, <2>1 DEF Owner
  <2>3. Function(t[l])
    BY <2>1, <2>2 DEF Unnumbered
  <2>4. t[l].scnum > 0 /\ t[l].scnum \in Int
    BY <1>1, <2>1, <2>2, <2>3, DefinedOnce, EntryShape
  <2> QED
    BY <2>4
<1>6. ASSUME NEW k \in (lo + 1) .. (lo + c) PROVE k \in S
  <2>1. k \in DOMAIN out /\ k <= Base /\ k <= lo + local_syms[g] /\ k \in Nat
    BY <1>1, <1>3, <1>4
  <2>2. PICK h \in File : \E m \in DOMAIN files[h] :
           /\ Kept(files[h], xflag, m) /\ k = Number(h, m) + 1
           /\ Number(h, m) \in Nat /\ symbol_index[h] <= Number(h, m)
           /\ Number(h, m) < symbol_index[h] + local_syms[h]
           /\ files[h][m].class # "aux" => out[k].of = Of(h, m)
           /\ files[h][m].class = "aux" =>
                /\ m - 1 \in DOMAIN files[h] /\ files[h][m - 1].class # "aux"
                /\ out[k].of = AuxOf(Of(h, m - 1))
    BY <2>1, LinesOfFile
  <2>3. PICK m \in DOMAIN files[h] :
           /\ Kept(files[h], xflag, m) /\ k = Number(h, m) + 1
           /\ Number(h, m) \in Nat /\ symbol_index[h] <= Number(h, m)
           /\ Number(h, m) < symbol_index[h] + local_syms[h]
           /\ files[h][m].class # "aux" => out[k].of = Of(h, m)
           /\ files[h][m].class = "aux" =>
                /\ m - 1 \in DOMAIN files[h] /\ files[h][m - 1].class # "aux"
                /\ out[k].of = AuxOf(Of(h, m - 1))
    BY <2>2
  <2>4. h = g
    <3>1. ~(h < g)
      BY <1>3, <2>3
    <3>2. ~(g < h)
      BY SMTT(40), <1>3, <1>4, <2>3
    <3> QED
      BY <1>2, <1>3, <3>1, <3>2
  <2>5. m <= i
    <3>1. SUFFICES ASSUME i + 1 <= m PROVE FALSE
      BY <1>2, <2>4
    <3>2. c <= Count(t, xflag, m) /\ Count(t, xflag, m) \in Nat
      BY <1>2, <2>4, <3>1, CountRange
    <3>3. k = lo + Count(t, xflag, m) + 1
      BY <2>3, <2>4 DEF Number
    <3> QED
      BY <1>3, <1>4, <3>2, <3>3
  <2>6. CASE t[m].class # "aux"
    <3>1. m \in 1 .. i
      BY <1>2, <2>4, <2>5
    <3>2. out[k].of = Of(g, m)
      BY <2>3, <2>4, <2>6
    <3> QED
      BY <2>1, <2>6, <3>1, <3>2
  <2>7. CASE t[m].class = "aux"
    <3>1. m - 1 \in 1 .. i
      BY <1>2, <2>3, <2>4, <2>5, <2>7
    <3>2. out[k].of = AuxOf(Of(g, m - 1)) /\ t[m - 1].class # "aux"
      BY <2>3, <2>4, <2>7
    <3> QED
      BY <2>1, <3>1, <3>2
  <2> QED
    BY <2>6, <2>7
<1>7. ASSUME NEW k \in S PROVE k \in (lo + 1) .. (lo + c)
  <2>1. PICK j \in 1 .. i : /\ t[j].class # "aux" /\ out[k].of \in {Of(g, j), AuxOf(Of(g, j))}
                            /\ k <= lo + local_syms[g]
    OBVIOUS
  <2>2. k \in DOMAIN out /\ k <= Base /\ j \in DOMAIN t
    BY <1>1, <1>2, <1>3, <2>1
  <2>3. PICK h \in File : \E m \in DOMAIN files[h] :
           /\ Kept(files[h], xflag, m) /\ k = Number(h, m) + 1
           /\ Number(h, m) \in Nat /\ symbol_index[h] <= Number(h, m)
           /\ files[h][m].class # "aux" => out[k].of = Of(h, m)
           /\ files[h][m].class = "aux" =>
                /\ m - 1 \in DOMAIN files[h] /\ out[k].of = AuxOf(Of(h, m - 1))
           /\ Owner(files[h], m).class = "ext" => Owner(files[h], m).scnum # 0
    BY <2>2, LinesOfFile
  <2>4. PICK m \in DOMAIN files[h] :
           /\ Kept(files[h], xflag, m) /\ k = Number(h, m) + 1
           /\ Number(h, m) \in Nat /\ symbol_index[h] <= Number(h, m)
           /\ files[h][m].class # "aux" => out[k].of = Of(h, m)
           /\ files[h][m].class = "aux" =>
                /\ m - 1 \in DOMAIN files[h] /\ out[k].of = AuxOf(Of(h, m - 1))
           /\ Owner(files[h], m).class = "ext" => Owner(files[h], m).scnum # 0
    BY <2>3
  <2>5. t[j].class = "ext" => t[j].scnum # 0
    BY <1>5
  <2>6. h = g /\ m \in {j, j + 1} /\ (m = j + 1 => t[j + 1].class = "aux")
    <3>1. CASE files[h][m].class # "aux"
      <4>1. out[k].of = Of(h, m) /\ Owner(files[h], m) = files[h][m]
        BY <2>4, <3>1 DEF Owner
      <4>2. Of(h, m) = Of(g, j)
        BY <2>1, <4>1, KindsApart
      <4>3. h = g /\ m = j
        BY <1>1, <2>2, <2>4, <2>5, <4>1, <4>2, NamesApart
      <4> QED
        BY <1>2, <4>3
    <3>2. CASE files[h][m].class = "aux"
      <4>1. /\ m - 1 \in DOMAIN files[h] /\ out[k].of = AuxOf(Of(h, m - 1))
            /\ Owner(files[h], m) = files[h][m - 1]
        BY <2>4, <3>2 DEF Owner
      <4>2. AuxOf(Of(h, m - 1)) = AuxOf(Of(g, j))
        <5>1. out[k].of # Of(g, j)
          BY <4>1, KindsApart
        <5> QED
          BY <2>1, <4>1, <5>1
      <4>3. h = g /\ m - 1 = j
        BY <1>1, <2>2, <2>4, <2>5, <4>1, <4>2, NamesApart
      <4>4. m = j + 1
        BY SMTT(40), <1>2, <2>2, <2>4, <4>3
      <4> QED
        BY <3>2, <4>3, <4>4
    <3> QED
      BY <3>1, <3>2
  <2>7. m \in DOMAIN t /\ m < i + 1
    <3>1. m \in DOMAIN t /\ j <= i
      BY <2>4, <2>6
    <3>2. CASE m = j
      BY <1>2, <3>1, <3>2
    <3>3. CASE m = j + 1
      <4>1. j # i
        <5>1. SUFFICES ASSUME j = i PROVE FALSE
          OBVIOUS
        <5>2. t[i + 1].class = "aux" /\ i + 1 \in DOMAIN t
          BY <2>6, <3>1, <3>3, <5>1
        <5> QED
          BY <5>2 DEF Begins
      <4> QED
        BY <1>2, <3>1, <3>3, <4>1
    <3> QED
      BY <2>6, <3>2, <3>3
  <2>8. Number(g, m) < Number(g, i + 1)
    BY <1>1, <1>2, <2>4, <2>6, <2>7, FilesApart
  <2> QED
    BY <1>3, <1>4, <2>4, <2>6, <2>8
<1>8. S = (lo + 1) .. (lo + c)
  <2>1. S \subseteq (lo + 1) .. (lo + c)
    BY <1>7
  <2>2. (lo + 1) .. (lo + c) \subseteq S
    BY <1>6
  <2> QED
    BY <2>1, <2>2
<1>9. Cardinality((lo + 1) .. (lo + c)) = c
  <2>1. lo + 1 \in Int /\ lo + c \in Int
    BY <1>3, <1>4
  <2>2. Cardinality((lo + 1) .. (lo + c)) = IF lo + 1 > lo + c THEN 0 ELSE (lo + c) - (lo + 1) + 1
    BY <2>1, FS_Interval
  <2> QED
    BY <1>3, <1>4, <2>2
<1>10. NewPlace(g, i) = lo + Cardinality(S)
  BY DEF NewPlace
<1> HIDE DEF S
<1> QED
  BY <1>4, <1>8, <1>9, <1>10

\* What is written of an auxiliary entry, with its file or with the globals.
LEMMA AuxFound ==
  ASSUME IInv, Done, NEW g \in File, NEW j \in DOMAIN files[g], NEW k \in DOMAIN out,
         files[g][j].class # "aux", files[g][j].numaux = 1, out[k].of = AuxOf(Of(g, j))
  PROVE  LET aux == files[g][j + 1] IN
         /\ out[k].tagndx = IF HasTag(files[g][j]) THEN TagOf(g, aux.tagndx) ELSE aux.tagndx
         /\ ~HasEnd(files[g][j]) => out[k].endndx = aux.endndx
         /\ HasEnd(files[g][j]) /\ aux.endndx # 0 =>
              /\ Kept(files[g], xflag, j)
              /\ ~xflag => out[k].endndx = aux.endndx + symbol_index[g]
              /\ xflag /\ files[g][j].class = "ext" => out[k].endndx = Number(g, j) + 2
<1> DEFINE t == files[g]
           aux == t[j + 1]
<1>1. /\ Typed /\ TableDefined /\ GlobalsWritten /\ Late /\ files \in Links /\ File = DOMAIN files
      /\ xflag \in BOOLEAN /\ pc = "done" /\ \A h, i : Passed(h, i) /\ Read(h, i)
  BY DoneFacts, Here DEF IInv
<1>2. j \in Nat /\ j + 1 \in DOMAIN t /\ aux.class = "aux" /\ t[j].scnum \in Int
  BY SMTT(40), <1>1, EntryShape, Here
<1>3. t[j].class = "ext" => t[j].scnum # 0
  BY <1>1, DefinedOnce
<1>4. CASE k <= Base
  <2>1. PICK h \in File : \E m \in DOMAIN files[h] :
           /\ Kept(files[h], xflag, m) /\ k = Number(h, m) + 1 /\ Right(h, m)
           /\ files[h][m].class # "aux" => out[k].of = Of(h, m)
           /\ files[h][m].class = "aux" =>
                /\ m - 1 \in DOMAIN files[h] /\ out[k].of = AuxOf(Of(h, m - 1))
           /\ Owner(files[h], m).class = "ext" => Owner(files[h], m).scnum # 0
    BY <1>4, LinesOfFile
  <2>2. PICK m \in DOMAIN files[h] :
           /\ Kept(files[h], xflag, m) /\ k = Number(h, m) + 1 /\ Right(h, m)
           /\ files[h][m].class # "aux" => out[k].of = Of(h, m)
           /\ files[h][m].class = "aux" =>
                /\ m - 1 \in DOMAIN files[h] /\ out[k].of = AuxOf(Of(h, m - 1))
           /\ Owner(files[h], m).class = "ext" => Owner(files[h], m).scnum # 0
    BY <2>1
  <2>3. files[h][m].class = "aux"
    BY <2>2, KindsApart
  <2>4. /\ m - 1 \in DOMAIN files[h] /\ AuxOf(Of(h, m - 1)) = AuxOf(Of(g, j))
        /\ files[h][m - 1].class = "ext" => files[h][m - 1].scnum # 0
    BY <2>2, <2>3 DEF Owner
  <2>5. h = g /\ m - 1 = j
    BY <1>1, <1>3, <2>4, NamesApart
  <2>6. m = j + 1
    <3>1. m \in Nat
      BY <1>1, Here
    <3> QED
      BY <1>2, <2>5, <3>1
  <2>7. Kept(t, xflag, j)
    <3>1. Kept(t, xflag, j + 1)
      BY <2>2, <2>5, <2>6
    <3> QED
      BY <1>1, <3>1, OwnEntry
  <2>8. /\ out[k].tagndx = IF HasTag(t[j]) THEN TagOf(g, aux.tagndx) ELSE aux.tagndx
        /\ ~HasEnd(t[j]) => out[k].endndx = aux.endndx
        /\ HasEnd(t[j]) /\ aux.endndx # 0 /\ ~xflag => out[k].endndx = aux.endndx + symbol_index[g]
        /\ HasEnd(t[j]) /\ aux.endndx # 0 /\ xflag /\ t[j].class = "ext" => out[k].endndx = Number(g, j) + 2
    BY <1>2, <2>2, <2>3, <2>5, <2>6 DEF Right
  <2> QED
    BY <2>7, <2>8
<1>5. CASE ~(k <= Base)
  <2>0. k > Base
    <3>1. k \in Nat /\ Base \in Nat
      BY DoneFacts
    <3> QED
      BY <1>5, <3>1
  <2>1. PICK i \in DOMAIN table : \E d \in {0, 1} :
          i < n /\ ~table[i].local_flag /\ d <= table[i].numaux /\ k = GlobalNumber(i) + 1 + d
    BY <1>1, <2>0 DEF GlobalsWritten
  <2>2. PICK d \in {0, 1} :
          i < n /\ ~table[i].local_flag /\ d <= table[i].numaux /\ k = GlobalNumber(i) + 1 + d
    BY <2>1
  <2>3. /\ table[i].numaux \in {0, 1} /\ GlobalNumber(i) \in Nat
    <3>1. i \in Nat \ {0}
      BY <1>1, TableShape
    <3> QED
      BY <1>1, <3>1, TableShape, NumberTypes
  <2>4. d = 1
    <3>1. SUFFICES ASSUME d = 0 PROVE FALSE
      OBVIOUS
    <3>2. i \in DOMAIN table /\ i < n /\ ~table[i].local_flag /\ k = GlobalNumber(i) + 1
      BY <2>1, <2>2, <2>3, <3>1
    <3>3. out[k].of = <<0, table[i].name, "sym">>
      BY <1>1, <3>2 DEF GlobalsWritten
    <3> QED
      BY <3>3 DEF AuxOf
  <2>5. table[i].numaux = 1 /\ k = GlobalNumber(i) + 2
    BY <2>2, <2>3, <2>4
  <2>6. /\ out[k].of = <<0, table[i].name, "aux">>
        /\ out[k].tagndx = table[i].aux.tagndx /\ out[k].endndx = table[i].aux.endndx
    BY <1>1, <2>2, <2>5 DEF GlobalsWritten
  <2>7. t[j].class = "ext" /\ t[j].name = table[i].name
    <3>1. g # 0
      BY <1>1, Here
    <3> QED
      BY <2>6, <3>1 DEF AuxOf, Of
  <2>8. Defines(g, j, table[i].name)
    BY <1>3, <2>7 DEF Defines
  <2>9. /\ ~Function(t[j])
        /\ table[i].aux.tagndx = TagOf(g, aux.tagndx) /\ table[i].aux.endndx = aux.endndx
    BY <1>1, <2>2, <2>8 DEF TableDefined
  <2>10. HasTag(t[j]) /\ ~HasEnd(t[j])
    BY <2>7, <2>9 DEF HasTag, HasEnd
  <2> QED
    BY <2>6, <2>9, <2>10
<1> QED
  BY <1>4, <1>5

\* Without -x the entries before a variable keep their distance.
LEMMA NumberUnstripped ==
  ASSUME Typed, ~xflag, NEW g \in File, NEW i \in Nat, i <= Len(files[g]),
         \A l \in 1 .. i : ~Unnumbered(Owner(files[g], l))
  PROVE  Number(g, i + 1) = i + symbol_index[g]
<1>1. symbol_index[g] \in Nat
  BY DEF Typed
<1>2. \A l \in 1 .. ((i + 1) - 1) : Kept(files[g], xflag, l)
  BY DEF Kept, Unnumbered
<1>3. Count(files[g], xflag, 1) = 0
  BY CountStep
<1>4. Count(files[g], xflag, i + 1) = Count(files[g], xflag, 1) + ((i + 1) - 1)
  <2>1. 1 \in Nat \ {0} /\ i + 1 \in Nat /\ 1 <= i + 1
    OBVIOUS
  <2> QED
    BY <1>2, <2>1, CountRange
<1> QED
  BY <1>1, <1>3, <1>4 DEF Number

\* Numbers in auxiliary entries are those of the entries they named; what is no
\* tag and no end of a symbol is what stood there in the file.
THEOREM SpecTagsFollow == Spec => []TagsFollow
<1>1. IInv => TagsFollow
  <2> SUFFICES ASSUME IInv, Done, NEW g \in File, NEW j \in DOMAIN files[g], NEW k \in DOMAIN out,
                      files[g][j].class # "aux", files[g][j].numaux = 1, out[k].of = AuxOf(Of(g, j))
               PROVE  LET aux == files[g][j + 1] IN
                      /\ IF HasTag(files[g][j])
                         THEN /\ out[k].tagndx = 0 <=> (aux.tagndx = 0 \/ xflag)
                              /\ out[k].tagndx # 0 => At(out[k].tagndx).of = Of(g, aux.tagndx + 1)
                         ELSE out[k].tagndx = aux.tagndx
                      /\ IF HasEnd(files[g][j])
                         THEN (aux.endndx # 0 /\ ~EndLost(g, j, aux.endndx))
                                => out[k].endndx = NewPlace(g, aux.endndx)
                         ELSE out[k].endndx = aux.endndx
    BY DEF TagsFollow
  <2> DEFINE t == files[g]
             aux == t[j + 1]
  <2>1. /\ Typed /\ LocalCounts /\ Bases /\ pc = "done" /\ files \in Links /\ File = DOMAIN files
        /\ xflag \in BOOLEAN /\ symbol_index[g] \in Nat
        /\ DOMAIN t = 1 .. Len(t) /\ Len(t) \in Nat /\ j \in Nat \ {0}
    <3>1. /\ Typed /\ LocalCounts /\ Bases /\ pc = "done" /\ files \in Links /\ File = DOMAIN files
      BY DoneFacts DEF IInv
    <3>2. DOMAIN t = 1 .. Len(t) /\ Len(t) \in Nat /\ xflag \in BOOLEAN
      BY <3>1, Here
    <3>3. symbol_index[g] \in Nat
      BY <3>1 DEF Typed
    <3> QED
      BY <3>1, <3>2, <3>3
  <2>2. /\ aux.tagndx \in Nat /\ aux.endndx \in Nat /\ Described(t, j, aux)
        /\ j + 1 \in DOMAIN t /\ t[j + 1].class = "aux"
    <3>1. files \in Links /\ g \in DOMAIN files /\ j \in DOMAIN files[g]
      BY <2>1
    <3>2. j + 1 \in DOMAIN files[g] /\ files[g][j + 1].class = "aux"
      <4>1. files[g][j].numaux = 1 =>
              j + 1 \in DOMAIN files[g] /\ files[g][j + 1].class = "aux"
        BY <3>1, EntryShape
      <4> QED
        BY <4>1
    <3>3. files[g][j + 1].tagndx \in Nat /\ files[g][j + 1].endndx \in Nat
      BY <2>1, <3>1, <3>2, EntryShape
    <3>4. Described(files[g], j, files[g][j + 1])
      BY <2>1, <3>1, AuxShape
    <3> QED
      BY <3>2, <3>3, <3>4
  <2>3. /\ out[k].tagndx = IF HasTag(t[j]) THEN TagOf(g, aux.tagndx) ELSE aux.tagndx
        /\ ~HasEnd(t[j]) => out[k].endndx = aux.endndx
        /\ HasEnd(t[j]) /\ aux.endndx # 0 =>
             /\ Kept(t, xflag, j)
             /\ ~xflag => out[k].endndx = aux.endndx + symbol_index[g]
             /\ xflag /\ t[j].class = "ext" => out[k].endndx = Number(g, j) + 2
    BY AuxFound
  <2>4. HasTag(t[j]) => (out[k].tagndx = 0 <=> (aux.tagndx = 0 \/ xflag))
    BY <2>1, <2>2, <2>3 DEF TagOf
  <2>5. ASSUME HasTag(t[j]), out[k].tagndx # 0 PROVE At(out[k].tagndx).of = Of(g, aux.tagndx + 1)
    <3>1. ~xflag /\ aux.tagndx # 0 /\ out[k].tagndx = aux.tagndx + symbol_index[g]
      BY <2>1, <2>3, <2>5 DEF TagOf
    <3>2. /\ aux.tagndx + 1 \in DOMAIN t /\ t[aux.tagndx + 1].class = "tag"
          /\ \A i \in 1 .. aux.tagndx : ~Unnumbered(Owner(t, i))
      BY <2>2, <2>5, <3>1 DEF Described
    <3>3. Number(g, aux.tagndx + 1) = aux.tagndx + symbol_index[g]
      <4>1. aux.tagndx \in Nat /\ aux.tagndx <= Len(files[g])
        BY <2>1, <2>2, <3>2
      <4>2. \A i \in 1 .. aux.tagndx : ~Unnumbered(Owner(files[g], i))
        BY <3>2
      <4> HIDE DEF aux
      <4> QED
        BY <2>1, <3>1, <4>1, <4>2, NumberUnstripped
    <3>4. Kept(t, xflag, aux.tagndx + 1)
      BY <3>1, <3>2 DEF Kept, Owner
    <3>5. Right(g, aux.tagndx + 1)
      BY <3>2, <3>4, FoundLocal
    <3> QED
      BY <3>1, <3>2, <3>3, <3>5 DEF Right, At
  <2>6. ASSUME HasEnd(t[j]), aux.endndx # 0, ~EndLost(g, j, aux.endndx)
        PROVE  out[k].endndx = NewPlace(g, aux.endndx)
    <3>1. /\ aux.endndx \in DOMAIN t /\ Begins(t, aux.endndx + 1)
          /\ \A i \in 1 .. aux.endndx : ~Unnumbered(Owner(t, i))
      BY <2>2, <2>6 DEF Described
    <3>2. NewPlace(g, aux.endndx) = Number(g, aux.endndx + 1)
      BY <3>1, NewPlaceCounts
    <3>3. CASE ~xflag
      <4>1. Number(g, aux.endndx + 1) = aux.endndx + symbol_index[g]
        <5>1. aux.endndx <= Len(t)
          BY <2>1, <3>1
        <5> QED
          BY <2>1, <2>2, <3>1, <3>3, <5>1, NumberUnstripped
      <4> QED
        BY <2>3, <2>6, <3>2, <3>3, <4>1
    <3>4. CASE xflag
      <4>1. t[j].class # "stat" /\ \A i \in (j + 1) .. aux.endndx : t[i].class # "stat"
        BY <2>6, <3>4 DEF EndLost
      <4>2. t[j].class = "ext"
        <5>1. t[j].class = "ext" \/ t[j].class \in {"stat", "file"}
          BY <2>1, <2>3, <2>6, <3>4, OwnEntry
        <5>2. t[j].class # "file"
          BY <2>6 DEF HasEnd, Function
        <5> QED
          BY <4>1, <5>1, <5>2
      <4>3. /\ aux.endndx > j
            /\ \A i \in (j + 2) .. aux.endndx : Owner(t, i).class \notin {"ext", "file"}
        <5>1. Function(t[j])
          BY <2>6, <4>2 DEF HasEnd
        <5> QED
          BY <2>2, <2>6, <4>2, <5>1 DEF Described
      <4>4. Kept(t, xflag, j) /\ Kept(t, xflag, j + 1)
        BY <2>1, <2>3, <2>6, OwnEntry
      <4>5. /\ Count(t, xflag, j + 1) = Count(t, xflag, j) + 1
            /\ Count(t, xflag, j + 2) = Count(t, xflag, j) + 2
            /\ Count(t, xflag, j) \in Nat
        <5>1. Count(t, xflag, j) \in Nat /\ Count(t, xflag, j + 1) = Count(t, xflag, j) + 1
          BY <2>1, <4>4, CountStep
        <5>2. Count(t, xflag, (j + 1) + 1) = Count(t, xflag, j + 1) + 1
          <6>1. j + 1 \in Nat \ {0}
            BY <2>1
          <6> QED
            BY <4>4, <6>1, CountStep
        <5>3. (j + 1) + 1 = j + 2
          BY <2>1
        <5> QED
          BY <5>1, <5>2, <5>3
      <4>6. aux.endndx >= j + 1
        BY <2>1, <2>2, <4>3
      <4>7. \A i \in (j + 2) .. ((aux.endndx + 1) - 1) : ~Kept(t, xflag, i)
        <5>1. ASSUME NEW i \in (j + 2) .. aux.endndx PROVE ~Kept(t, xflag, i)
          <6>1. i \in DOMAIN t /\ i \in Nat
            BY <2>1, <2>2, <3>1, <5>1
          <6>2. Owner(t, i).class # "stat"
            <7>1. CASE t[i].class # "aux"
              <8>1. i \in (j + 1) .. aux.endndx
                BY <2>1, <2>2, <5>1
              <8> QED
                BY <4>1, <7>1, <8>1 DEF Owner
            <7>2. CASE t[i].class = "aux"
              <8>1. i - 1 \in (j + 1) .. aux.endndx
                BY <2>1, <2>2, <5>1
              <8> QED
                BY <4>1, <7>2, <8>1 DEF Owner
            <7> QED
              BY <7>1, <7>2
          <6> QED
            BY <3>4, <4>3, <5>1, <6>2 DEF Kept
        <5>2. (aux.endndx + 1) - 1 = aux.endndx
          BY <2>2
        <5> QED
          BY <5>1, <5>2
      <4>8. Count(t, xflag, aux.endndx + 1) = Count(t, xflag, j + 2)
        <5>1. j + 2 \in Nat \ {0} /\ aux.endndx + 1 \in Nat /\ j + 2 <= aux.endndx + 1
          BY <2>1, <2>2, <4>6
        <5> QED
          BY <4>7, <5>1, CountRange
      <4>9. Number(g, aux.endndx + 1) = Number(g, j) + 2
        <5>1. /\ Number(g, aux.endndx + 1) = symbol_index[g] + Count(t, xflag, aux.endndx + 1)
              /\ Number(g, j) = symbol_index[g] + Count(t, xflag, j)
          BY DEF Number
        <5>2. symbol_index[g] \in Nat
          BY <2>1
        <5> HIDE DEF t, aux
        <5> QED
          BY <4>5, <4>8, <5>1, <5>2
      <4> QED
        BY <2>3, <2>6, <3>2, <3>4, <4>2, <4>9
    <3> QED
      BY <2>1, <3>3, <3>4
  <2> QED
    BY <2>3, <2>4, <2>5, <2>6
<1> QED
  BY <1>1, SpecIInv, PTL

-----------------------------------------------------------------------------
(* SlotVec.                                                                *)

\* A remainder is less than its divisor.
LEMMA ModRange ==
  ASSUME NEW a \in Int, NEW b \in Nat \ {0}
  PROVE  a % b \in 0 .. (b - 1)
OBVIOUS

\* A number that is in range already is its own remainder.
LEMMA ModSmall ==
  ASSUME NEW b \in Nat \ {0}, NEW a \in 0 .. (b - 1)
  PROVE  a % b = a
OBVIOUS

\* The guess lies between the bounds, and below the upper one if they differ.
LEMMA GuessBetween ==
  ASSUME TypeOK, low <= high
  PROVE  /\ Guess \in Nat /\ low <= Guess /\ Guess <= high
         /\ low # high => Guess < high
BY DEF TypeOK, Guess, UInt

\* getslot always ends up in the vector.
LEMMA GetSlotInVector ==
  ASSUME NEW m \in Int
  PROVE  GetSlot(m) \in Slot
BY SlotAssumption, ModRange DEF GetSlot, Slot

\* A slot number that fits is not changed by getslot.
LEMMA GetSlotOfSlot ==
  ASSUME NEW m \in Slot
  PROVE  GetSlot(m) = m
BY SlotAssumption, ModSmall DEF GetSlot, Slot

-----------------------------------------------------------------------------
\* An empty vector is in order.
LEMMA InitVectorInv == InitVector => VectorInv
<1> SUFFICES ASSUME InitVector PROVE VectorInv
  OBVIOUS
<1> USE SlotAssumption DEF InitVector
<1>1. TypeOK
  BY DEF TypeOK, Slot, UInt
<1>2. SlotsAscend
  BY DEF SlotsAscend
<1>3. LastSlotKnown /\ SearchBracket /\ LookupExact
  BY DEF LastSlotKnown, SearchBracket, LookupExact, Searchable
<1> QED BY <1>1, <1>2, <1>3 DEF VectorInv

\* The actions that neither change the vector nor search in it.
LEMMA VectorKept ==
  ASSUME VectorInv, UNCHANGED vector,
         at' \notin {"search", "answer"},
         begun' = begun, count' \in count .. MaxSyms,
         at' \in {"file", "symbols", "entries", "search", "answer", "exit"},
         sym_index' \in Nat, low' \in UInt, high' \in UInt,
         result' \in Slot \cup {NULL}
  PROVE  VectorInv'
<1> USE DEF VectorInv, vector, query
<1>1. TypeOK'
  BY SlotAssumption DEF TypeOK
<1>2. SlotsAscend'
  BY SlotAssumption DEF TypeOK, SlotsAscend, SymIndex
<1>3. LastSlotKnown' /\ SearchBracket' /\ LookupExact'
  BY DEF LastSlotKnown, SearchBracket, LookupExact, Searchable
<1> QED BY <1>1, <1>2, <1>3

\* A new file begins with a vector without slots.
LEMMA NextFileKeepsVector == VectorInv /\ BeginVector => VectorInv'
<1> SUFFICES ASSUME VectorInv, BeginVector PROVE VectorInv'
  OBVIOUS
<1> USE SlotAssumption DEF VectorInv, BeginVector, query
<1>1. TypeOK'
  BY DEF TypeOK, Slot
<1>2. SlotsAscend'
  BY DEF SlotsAscend
<1>3. LastSlotKnown' /\ SearchBracket' /\ LookupExact'
  BY DEF LastSlotKnown, SearchBracket, LookupExact, Searchable
<1> QED BY <1>1, <1>2, <1>3

\* A slot is put behind the slots of the symbols before it.
LEMMA RelocatableSymbolIInv == VectorInv /\ RelocatableSymbol => VectorInv'
<1> SUFFICES ASSUME VectorInv, RelocatableSymbol PROVE VectorInv'
  OBVIOUS
<1> USE SlotAssumption DEF VectorInv, RelocatableSymbol, SlotvecCreate, query
<1>1. sv_high_slot' \in Slot
  BY ModRange DEF TypeOK, Slot
<1>2. TypeOK'
  BY <1>1 DEF TypeOK, SymIndex
<1>3. SlotsAscend'
  <2> SUFFICES ASSUME made' < SlotRange PROVE SlotsAscend'
    BY DEF SlotsAscend
  <2>1. made \in Nat /\ made' = made + 1 /\ made < SlotRange /\ sv_high_slot = made
    BY DEF TypeOK, SlotsAscend
  <2>2. sv_high_slot' = made'
    BY <2>1, ModSmall
  <2>3. made \in Slot /\ \A s \in 0 .. (made - 1) : s \in Slot /\ s # made
    BY <2>1 DEF Slot
  <2>4. /\ slot'[made] = [sv_symindex |-> count, file |-> begun]
        /\ \A s \in 0 .. (made - 1) : slot'[s] = slot[s]
    BY <2>1, <2>3 DEF TypeOK
  <2>5. 0 .. (made' - 1) = (0 .. (made - 1)) \cup {made}
    BY <2>1
  <2>6. \A s \in 0 .. (made - 1) :
          /\ slot[s].file = begun /\ slot[s].sv_symindex \in relocatable
          /\ slot[s].sv_symindex < count
    BY <2>1 DEF SlotsAscend
  <2>7. \A s \in 0 .. (made' - 1) :
          slot'[s].file = begun' /\ slot'[s].sv_symindex \in relocatable'
    BY <2>4, <2>5, <2>6
  <2>8. \A s, t \in 0 .. (made' - 1) :
          s < t => slot'[s].sv_symindex < slot'[t].sv_symindex
    <3> SUFFICES ASSUME NEW s \in 0 .. (made' - 1), NEW t \in 0 .. (made' - 1), s < t
                 PROVE  slot'[s].sv_symindex < slot'[t].sv_symindex
      OBVIOUS
    <3>1. s \in 0 .. (made - 1)
      BY <2>1
    <3>2. CASE t = made
      BY <3>1, <3>2, <2>4, <2>6
    <3>3. CASE t # made
      BY <3>1, <3>3, <2>1, <2>4, <2>5 DEF SlotsAscend
    <3> QED BY <3>2, <3>3
  <2>9. \A i \in relocatable' :
          i < count' /\ \E s \in 0 .. (made' - 1) : slot'[s].sv_symindex = i
    <3> SUFFICES ASSUME NEW i \in relocatable'
                 PROVE  i < count' /\ \E s \in 0 .. (made' - 1) : slot'[s].sv_symindex = i
      OBVIOUS
    <3>1. count \in Nat
      BY DEF TypeOK
    <3>2. CASE i = count
      BY <3>1, <3>2, <2>4, <2>5
    <3>3. CASE i # count
      <4>1. i \in relocatable /\ i \in Int
        BY <3>3 DEF TypeOK, SymIndex
      <4>2. i < count /\ \E s \in 0 .. (made - 1) : slot[s].sv_symindex = i
        BY <4>1, <2>1 DEF SlotsAscend
      <4> QED BY <4>1, <4>2, <3>1, <2>4, <2>5
    <3> QED BY <3>2, <3>3
  <2> QED BY <2>2, <2>7, <2>8, <2>9 DEF SlotsAscend
<1>4. LastSlotKnown'
  <2> SUFFICES ASSUME Searchable' PROVE slot'[made' - 1].sv_symindex = sv_high_index'
    BY DEF LastSlotKnown
  <2>1. made \in Slot /\ sv_high_slot = made /\ made' - 1 = made
    BY DEF Searchable, SlotsAscend, TypeOK, Slot
  <2> QED BY <2>1 DEF TypeOK
<1>5. SearchBracket' /\ LookupExact'
  BY DEF SearchBracket, LookupExact
<1> QED BY <1>2, <1>3, <1>4, <1>5

\* A symbol that is relocatable has a slot in a vector that can be searched.
LEMMA SlotOfSymbol ==
  ASSUME VectorInv, Searchable, sym_index \in relocatable
  PROVE  \E s \in 0 .. (made - 1) : slot[s].sv_symindex = sym_index
<1>1. made < SlotRange
  BY SlotAssumption DEF Searchable
<1> QED BY <1>1 DEF VectorInv, SlotsAscend

\* A search begins with all slots but the last between its bounds.
LEMMA EntryKeepsVector == VectorInv /\ SlotvecRead => VectorInv'
<1> SUFFICES ASSUME VectorInv, SlotvecRead PROVE VectorInv'
  OBVIOUS
<1> PICK i \in SymIndex :
      /\ sym_index' = i
      /\ IF i = sv_high_index
           THEN /\ result' = GetSlot(sv_high_slot - 1)
                /\ at' = "answer"
                /\ UNCHANGED <<low, high>>
           ELSE /\ high' = (sv_high_slot - 1) % UIntRange
                /\ low' = 0
                /\ at' = "search"
                /\ UNCHANGED result
  BY DEF SlotvecRead
<1> USE SlotAssumption
<1>0. UNCHANGED <<begun, count, slot, sv_high_slot, sv_high_index, made, relocatable>>
  BY DEF SlotvecRead, vector
<1>1. TypeOK /\ SlotsAscend /\ LastSlotKnown /\ SlotsAscend' /\ LastSlotKnown'
  BY <1>0 DEF VectorInv, SlotsAscend, LastSlotKnown, Searchable
<1>2. /\ GetSlot(sv_high_slot - 1) \in Slot
      /\ (sv_high_slot - 1) % UIntRange \in UInt
  <2>1. sv_high_slot - 1 \in Int
    BY <1>1 DEF TypeOK, Slot
  <2>2. UIntRange \in Nat \ {0}
    OBVIOUS
  <2> QED BY <2>1, <2>2, GetSlotInVector, ModRange DEF UInt
<1>3. TypeOK'
  BY <1>0, <1>1, <1>2 DEF TypeOK, SymIndex, UInt
<1>4. Searchable => made - 1 \in Slot /\ made - 1 \in UInt /\ sv_high_slot - 1 = made - 1
  BY <1>1 DEF Searchable, SlotsAscend, Slot, UInt
<1>5. SearchBracket'
  <2> SUFFICES ASSUME at' = "search" PROVE SearchBracket'
    BY DEF SearchBracket
  <2>1. low' = 0 /\ high' = (sv_high_slot - 1) % UIntRange /\ i # sv_high_index /\ sym_index' = i
    OBVIOUS
  <2>2. low' <= high'
    BY <2>1, <1>2 DEF UInt
  <2>3. ASSUME Searchable
        PROVE  /\ high' < made
               /\ \A s \in 0 .. (made - 1) : slot[s].sv_symindex = i => 0 <= s /\ s < high'
    <3>1. high' = made - 1 /\ made \in Nat
      BY <2>1, <2>3, <1>1, <1>4, ModSmall DEF UInt, TypeOK
    <3>2. slot[made - 1].sv_symindex # i
      BY <2>1, <2>3, <1>1 DEF LastSlotKnown
    <3> QED BY <3>1, <3>2
  <2> QED BY <1>0, <2>1, <2>2, <2>3 DEF SearchBracket, Searchable
<1>6. LookupExact'
  <2> SUFFICES ASSUME at' = "answer", Searchable
               PROVE  i \in relocatable /\ result' # NULL
                      /\ slot[result'] = [sv_symindex |-> i, file |-> begun]
    BY <1>0 DEF LookupExact, Searchable
  <2>1. result' = made - 1 /\ i = sv_high_index
    BY <1>4, GetSlotOfSlot
  <2>2. made - 1 \in 0 .. (made - 1) /\ made < SlotRange
    BY DEF Searchable
  <2>3. /\ slot[made - 1].sv_symindex = i /\ slot[made - 1].sv_symindex \in relocatable
        /\ slot[made - 1].file = begun
    BY <1>1, <2>1, <2>2 DEF LastSlotKnown, SlotsAscend
  <2>4. slot[made - 1] \in [sv_symindex : Nat, file : 0 .. MaxFiles]
    BY <1>1, <1>4 DEF TypeOK
  <2>5. result' # NULL
    BY <2>1, <2>2 DEF NULL
  <2> QED BY <2>1, <2>3, <2>4, <2>5
<1> QED BY <1>1, <1>3, <1>5, <1>6 DEF VectorInv

\* A round of the search that ends it with r leaves everything else alone.
LEMMA AnswerIInv ==
  ASSUME VectorInv, NEW r \in Slot \cup {NULL}, at = "search",
         Answer(r), UNCHANGED <<begun, count, vector, sym_index>>,
         Searchable => IF sym_index \in relocatable
                         THEN r # NULL /\ slot[r] = [sv_symindex |-> sym_index, file |-> begun]
                         ELSE r = NULL
  PROVE  VectorInv'
<1> USE DEF VectorInv, vector, Answer
<1>1. TypeOK'
  BY DEF TypeOK
<1>2. SlotsAscend' /\ LastSlotKnown' /\ SearchBracket'
  BY DEF SlotsAscend, LastSlotKnown, SearchBracket, Searchable
<1>3. LookupExact'
  BY DEF LookupExact, Searchable
<1> QED BY <1>1, <1>2, <1>3

\* A search that is given up has no slot left between its bounds.
LEMMA NotFoundIInv ==
  ASSUME VectorInv, at = "search", Answer(NULL),
         UNCHANGED <<begun, count, vector, sym_index>>,
         Searchable => \A s \in 0 .. (made - 1) : slot[s].sv_symindex # sym_index
  PROVE  VectorInv'
<1>1. Searchable => sym_index \notin relocatable
  BY SlotOfSymbol
<1> QED BY <1>1, AnswerIInv

\* What a round of the search starts from.
LEMMA Bracket ==
  ASSUME VectorInv, at = "search"
  PROVE  /\ TypeOK /\ low \in Nat /\ high \in Nat /\ low <= high
         /\ Guess \in Nat /\ low <= Guess /\ Guess <= high /\ Guess \in UInt
         /\ low # high => Guess < high
         /\ Searchable => /\ high < made
                          /\ Guess \in 0 .. (made - 1) /\ GetSlot(Guess) = Guess
                          /\ Guess \in Slot
<1>1. TypeOK /\ low \in Nat /\ high \in Nat /\ low <= high
  BY DEF VectorInv, TypeOK, UInt, SearchBracket
<1>2. /\ Guess \in Nat /\ low <= Guess /\ Guess <= high
      /\ low # high => Guess < high
  BY <1>1, GuessBetween
<1>3. Guess \in UInt
  BY <1>1, <1>2, SlotAssumption DEF TypeOK, UInt
<1>4. Searchable => high < made /\ made < SlotRange /\ made \in Nat
  BY <1>1, SlotAssumption DEF VectorInv, SearchBracket, Searchable, TypeOK
<1>5. Searchable => Guess \in 0 .. (made - 1) /\ Guess \in Slot
  BY <1>1, <1>2, <1>4, SlotAssumption DEF Slot
<1> QED BY <1>1, <1>2, <1>3, <1>4, <1>5, GetSlotOfSlot

\* A search whose bounds have met returns no slot (slotvec_read).
LEMMA ExhaustedIInv == VectorInv /\ Exhausted => VectorInv'
<1> SUFFICES ASSUME VectorInv, Exhausted PROVE VectorInv'
  OBVIOUS
<1>1. /\ at = "search" /\ high = low /\ Answer(NULL)
      /\ UNCHANGED <<begun, count, vector, sym_index>>
  BY DEF Exhausted
<1>2. Searchable => \A s \in 0 .. (made - 1) : slot[s].sv_symindex # sym_index
  BY <1>1, Bracket DEF VectorInv, SearchBracket
<1> QED BY <1>1, <1>2, NotFoundIInv

\* The slot that is hit is the symbol's, and was made for this file.
LEMMA HitIInv == VectorInv /\ Hit => VectorInv'
<1> SUFFICES ASSUME VectorInv, Hit PROVE VectorInv'
  OBVIOUS
<1>1. /\ at = "search" /\ GuessOf = sym_index /\ Answer(GetSlot(Guess))
      /\ UNCHANGED <<begun, count, vector, sym_index>>
  BY DEF Hit
<1>2. GetSlot(Guess) \in Slot
  BY <1>1, Bracket, GetSlotInVector
<1>3. ASSUME Searchable
      PROVE  /\ sym_index \in relocatable /\ GetSlot(Guess) # NULL
             /\ slot[GetSlot(Guess)] = [sv_symindex |-> sym_index, file |-> begun]
  <2>1. Guess \in 0 .. (made - 1) /\ GetSlot(Guess) = Guess /\ Guess \in Slot
    BY <1>1, <1>3, Bracket
  <2>2. slot[Guess].sv_symindex = sym_index
    BY <1>1, <2>1 DEF GuessOf
  <2>3. slot[Guess].file = begun /\ slot[Guess].sv_symindex \in relocatable
    BY <1>3, <2>1, SlotAssumption DEF VectorInv, SlotsAscend, Searchable
  <2>4. slot[Guess] \in [sv_symindex : Nat, file : 0 .. MaxFiles]
    BY <2>1 DEF VectorInv, TypeOK
  <2>5. Guess # NULL
    BY <2>1 DEF NULL
  <2> QED BY <2>1, <2>2, <2>3, <2>4, <2>5
<1> QED BY <1>1, <1>2, <1>3, AnswerIInv

\* The slots are in the order of their symbols: the slot of a symbol below that
\* of the guess is below the guess, and that of a symbol above it above.
LEMMA GuessDivides ==
  ASSUME VectorInv, at = "search", Searchable,
         NEW s \in 0 .. (made - 1), slot[s].sv_symindex = sym_index
  PROVE  /\ GuessOf > sym_index => s < Guess
         /\ GuessOf < sym_index => Guess < s
<1>1. Guess \in 0 .. (made - 1) /\ GetSlot(Guess) = Guess /\ Guess \in Slot
  BY Bracket
<1>2. GuessOf = slot[Guess].sv_symindex
  BY <1>1 DEF GuessOf
<1>3. s \in Slot
  BY SlotAssumption DEF Searchable, Slot
<1>4. slot[Guess].sv_symindex \in Nat /\ slot[s].sv_symindex \in Nat
  BY <1>1, <1>3 DEF VectorInv, TypeOK
<1>5. \A a, b \in 0 .. (made - 1) : a < b => slot[a].sv_symindex < slot[b].sv_symindex
  BY SlotAssumption DEF VectorInv, SlotsAscend, Searchable
<1> QED BY <1>1, <1>2, <1>4, <1>5

\* The lower half is kept if the slot is below the guess.
LEMMA BelowGuessIInv == VectorInv /\ BelowGuess => VectorInv'
<1> SUFFICES ASSUME VectorInv, BelowGuess PROVE VectorInv'
  OBVIOUS
<1>1. /\ at = "search" /\ high # low /\ GuessOf > sym_index
      /\ UNCHANGED <<begun, count, vector, sym_index>>
  BY DEF BelowGuess
<1>2. high # Guess
  BY <1>1, Bracket
<1>3. high' = Guess /\ UNCHANGED <<at, low, result>>
  BY <1>2 DEF BelowGuess
<1>4. TypeOK'
  BY <1>1, <1>3, Bracket DEF TypeOK, vector
<1>5. SlotsAscend' /\ LastSlotKnown' /\ LookupExact'
  BY <1>1, <1>3 DEF VectorInv, SlotsAscend, LastSlotKnown, LookupExact,
              Searchable, vector
<1>6. SearchBracket'
  <2>1. low' <= high'
    BY <1>1, <1>3, Bracket
  <2>2. ASSUME Searchable
        PROVE  /\ Guess < made
               /\ \A s \in 0 .. (made - 1) :
                    slot[s].sv_symindex = sym_index => low <= s /\ s < Guess
    <3>1. Guess < made
      BY <1>1, <2>2, Bracket DEF Searchable
    <3>2. ASSUME NEW s \in 0 .. (made - 1), slot[s].sv_symindex = sym_index
          PROVE  low <= s /\ s < Guess
      BY <1>1, <2>2, <3>2, GuessDivides DEF VectorInv, SearchBracket
    <3> QED BY <3>1, <3>2
  <2> QED BY <1>1, <1>3, <2>1, <2>2 DEF SearchBracket, Searchable, vector
<1> QED BY <1>4, <1>5, <1>6 DEF VectorInv

\* The upper half is kept if it is above.
LEMMA AboveGuessIInv == VectorInv /\ AboveGuess => VectorInv'
<1> SUFFICES ASSUME VectorInv, AboveGuess PROVE VectorInv'
  OBVIOUS
<1>1. /\ at = "search" /\ high # low /\ GuessOf < sym_index
      /\ UNCHANGED <<begun, count, vector, sym_index>>
  BY DEF AboveGuess
<1>2. CASE low = Guess
  <2>1. Answer(NULL)
    BY <1>2 DEF AboveGuess
  <2>2. high = low + 1
    BY <1>1, <1>2, Bracket DEF Guess
  <2>3. ASSUME Searchable, NEW s \in 0 .. (made - 1), slot[s].sv_symindex = sym_index
        PROVE  FALSE
    <3>1. Guess < s
      BY <1>1, <2>3, GuessDivides
    <3>2. s < high
      BY <1>1, <2>3 DEF VectorInv, SearchBracket
    <3> QED BY <1>1, <1>2, <2>2, <3>1, <3>2, Bracket
  <2> QED BY <1>1, <2>1, <2>3, NotFoundIInv
<1>3. CASE low # Guess
  <2>1. low' = Guess /\ UNCHANGED <<at, high, result>>
    BY <1>3 DEF AboveGuess
  <2>2. TypeOK'
    BY <1>1, <2>1, Bracket DEF TypeOK, vector
  <2>3. SlotsAscend' /\ LastSlotKnown' /\ LookupExact'
    BY <1>1, <2>1 DEF VectorInv, SlotsAscend, LastSlotKnown, LookupExact,
              Searchable, vector
  <2>4. low' <= high'
    BY <1>1, <2>1, Bracket
  <2>5. ASSUME Searchable
        PROVE  /\ high < made
               /\ \A s \in 0 .. (made - 1) :
                    slot[s].sv_symindex = sym_index => Guess <= s /\ s < high
    BY <1>1, <2>5, Bracket, GuessDivides DEF VectorInv, SearchBracket
  <2>6. SearchBracket'
    BY <1>1, <2>1, <2>4, <2>5 DEF SearchBracket, Searchable, vector
  <2> QED BY <2>2, <2>3, <2>6 DEF VectorInv
<1> QED BY <1>2, <1>3

\* Every step keeps the invariant.
LEMMA NextVectorInv == VectorInv /\ [NextVector]_vectorVars => VectorInv'
<1> SUFFICES ASSUME VectorInv, [NextVector]_vectorVars PROVE VectorInv'
  OBVIOUS
<1>1. CASE OtherEntry \/ EndSymbols \/ EndEntries \/ UseAnswer
  <2>1. /\ UNCHANGED vector /\ begun' = begun
        /\ at' \in {"file", "symbols", "entries", "exit"}
        /\ count' = count \/ (count' = count + 1 /\ count < MaxSyms)
    BY <1>1 DEF OtherEntry, EndSymbols, EndEntries, UseAnswer
  <2>2. count' \in count .. MaxSyms
    BY <2>1, SlotAssumption DEF VectorInv, TypeOK
  <2>3. /\ sym_index' \in Nat /\ low' \in UInt /\ high' \in UInt
        /\ result' \in Slot \cup {NULL}
    <3>1. CASE UseAnswer
      BY <3>1, SlotAssumption DEF UseAnswer, UInt
    <3>2. CASE UNCHANGED query
      BY <3>2 DEF VectorInv, TypeOK, query
    <3> QED
      BY <1>1, <3>1, <3>2 DEF OtherEntry, EndSymbols, EndEntries
  <2> QED BY <2>1, <2>2, <2>3, VectorKept
<1>2. CASE UNCHANGED vectorVars
  BY <1>2 DEF vectorVars, vector, query, VectorInv, TypeOK, SlotsAscend, LastSlotKnown,
              SearchBracket, LookupExact, Searchable
<1> QED BY <1>1, <1>2, NextFileKeepsVector, RelocatableSymbolIInv, EntryKeepsVector,
           ExhaustedIInv, HitIInv, BelowGuessIInv, AboveGuessIInv DEF NextVector, Search

-----------------------------------------------------------------------------
\* The inductive invariant: the slots of the current file stand in the order of
\* its symbols, and a search never loses the slot it is after.
THEOREM VectorInvariant == VectorSpec => []VectorInv
BY InitVectorInv, NextVectorInv, PTL DEF VectorSpec

\* Every variable keeps its type, also in a vector that has been overrun.
THEOREM VectorTyped == VectorSpec => []TypeOK
<1>1. VectorInv => TypeOK
  BY DEF VectorInv
<1> QED BY <1>1, VectorInvariant, PTL

\* slotvec_read finds exactly the symbols of this file that have a slot, for
\* symbol tables of any size and any number of files before.
THEOREM VectorLookup == VectorSpec => []LookupExact
<1>1. VectorInv => LookupExact
  BY DEF VectorInv
<1> QED BY <1>1, VectorInvariant, PTL

-----------------------------------------------------------------------------
(* The composition.                                                        *)

\* What is written and the vector go through the files together: while the
\* symbols of a file are written both are at this file, and before and after
\* that the vector is at the file before.  The symbols that have a slot are
\* those that a slot was made for.
Together ==
  /\ Early => at = "file" /\ begun = 0
  /\ at = "symbols" => pc = "local" /\ begun = f
  /\ pc = "local" /\ at # "symbols" => n = 1 /\ begun = f - 1
  /\ \A i \in Nat : i \in relocatable <=> \E s \in slots : s.file = begun /\ s.old = i + 1

\* A step of the composition is one of OutputSymbols or leaves its state alone.
LEMMA StepOfSymbols == [OutputNext]_outputVars => [Next]_vars
<1> SUFFICES ASSUME OutputNext PROVE [Next]_vars
  BY DEF outputVars
<1>1. CASE Prepare
  BY <1>1 DEF Prepare, Next
<1>2. CASE BeginFile \/ AuxPassed \/ LookUp \/ FileThrough
  BY <1>2 DEF BeginFile, AuxPassed, LookUp, FileThrough
<1>3. CASE SymbolWithSlot \/ SymbolWithoutSlot
  BY <1>3 DEF SymbolWithSlot, SymbolWithoutSlot, Next
<1>4. CASE SymbolsThrough \/ Finish
  BY <1>4 DEF SymbolsThrough, Finish, Next
<1> QED
  BY <1>1, <1>2, <1>3, <1>4 DEF OutputNext

\* And it is one of SlotVec or leaves the vector alone.
LEMMA StepOfVector == [OutputNext]_outputVars => [NextVector]_vectorVars
<1>1. CASE outputVars' = outputVars
  BY <1>1 DEF outputVars
<1>2. CASE OutputNext
  <2>1. CASE Prepare \/ Finish
    BY <2>1 DEF Prepare, Finish
  <2>2. CASE BeginFile \/ AuxPassed \/ FileThrough
    BY <2>2 DEF BeginFile, AuxPassed, FileThrough, NextVector
  <2>3. CASE LookUp
    BY <2>3 DEF LookUp, NextVector
  <2>4. CASE SymbolWithSlot \/ SymbolWithoutSlot \/ SymbolsThrough
    BY <2>4 DEF SymbolWithSlot, SymbolWithoutSlot, SymbolsThrough, NextVector
  <2> QED
    BY <1>2, <2>1, <2>2, <2>3, <2>4 DEF OutputNext
<1> QED
  BY <1>1, <1>2

\* The composition implements both of its parts: what holds of the symbol tables
\* and what holds of the vector holds of them together.
THEOREM OutputImplements == OutputSpec => Spec /\ VectorSpec
BY StepOfSymbols, StepOfVector, PTL DEF OutputSpec, OutputInit, Spec, VectorSpec

-----------------------------------------------------------------------------
\* Nothing was made before the first file.
LEMMA InitTogether == OutputInit => Together
BY DEF OutputInit, Init, InitVector, Together, Early

\* Without a step of the vector or a slot the symbols that have one stay.
LEMMA SlotsTogether ==
  ASSUME Together, UNCHANGED <<slots, relocatable, begun>>
  PROVE  \A i \in Nat : i \in relocatable' <=> \E s \in slots' : s.file = begun' /\ s.old = i + 1
BY DEF Together

\* Before the first file the vector waits.
LEMMA PrepareTogether == Typed /\ Together /\ Prepare => Together'
<1> SUFFICES ASSUME Typed, Together, Prepare PROVE Together'
  OBVIOUS
<1>1. UNCHANGED <<at, begun, relocatable>> /\ UNCHANGED slots
  BY DEF Prepare, vectorVars, vector, ProcessEntry, NextFile, IndexFile, UpdateSymbol, UpdateDone, pass2
<1>2. /\ Early
      /\ pc' \in {"pass1", "index", "update"} \/ (pc' = "local" /\ n' = 1 /\ f' = 1)
  <2>1. CASE ProcessEntry \/ UpdateSymbol
    BY <2>1 DEF ProcessEntry, UpdateSymbol, Early
  <2>2. CASE NextFile \/ IndexFile
    BY <2>2 DEF NextFile, IndexFile, ToNextFile, Early
  <2>3. CASE UpdateDone
    BY <2>3 DEF UpdateDone, Typed, Early
  <2> QED
    BY <2>1, <2>2, <2>3 DEF Prepare
<1>3. at = "file" /\ begun = 0
  BY <1>2 DEF Together
<1>4. Early' => at' = "file" /\ begun' = 0
  BY <1>1, <1>3
<1>5. pc' = "local" => n' = 1 /\ begun' = f' - 1
  BY <1>1, <1>2, <1>3
<1> QED
  BY <1>1, <1>3, <1>4, <1>5, SlotsTogether DEF Together

\* No slot was made yet for the file that is begun.
LEMMA BeginFileTogether == IInv /\ Together /\ BeginFile => Together'
<1> SUFFICES ASSUME IInv, Together, BeginFile PROVE Together'
  OBVIOUS
<1>1. /\ pc = "local" /\ at = "file" /\ at' = "symbols" /\ begun' = begun + 1 /\ relocatable' = {}
      /\ UNCHANGED <<pc, f, n, slots>>
  BY DEF BeginFile, BeginVector, vars, pass2
<1>2. n = 1 /\ begun = f - 1 /\ f \in Nat /\ ~Early
  <2>1. f \in File /\ File = 1 .. Len(files) /\ Len(files) \in Nat
    BY Here DEF IInv
  <2> QED
    BY <1>1, <2>1 DEF Together, Early
<1>3. begun' = f
  BY <1>1, <1>2
<1>4. ASSUME NEW s \in slots PROVE s.file # f
  <2>1. s.file \in File /\ s.old \in DOMAIN files[s.file] /\ Passed(s.file, s.old)
    BY DEF IInv, SlotsGiven
  <2>2. s.old \in Nat \ {0} /\ s.file \in Nat
    BY <2>1, Here DEF IInv
  <2>3. s.file < f
    BY <1>1, <1>2, <2>1, <2>2 DEF Passed, Late
  <2> QED
    BY <1>2, <2>2, <2>3
<1>5. ~Early'
  BY <1>1, <1>2 DEF Early
<1> QED
  BY <1>1, <1>3, <1>4, <1>5 DEF Together

\* A symbol with a slot is one that a slot is made for.
LEMMA SymbolWithSlotTogether == IInv /\ Together /\ SymbolWithSlot => Together'
<1> SUFFICES ASSUME IInv, Together, SymbolWithSlot PROVE Together'
  OBVIOUS
<1>1. /\ at = "symbols" /\ count = n - 1
      /\ UNCHANGED <<at, begun>> /\ relocatable' = relocatable \cup {count}
  BY DEF SymbolWithSlot, RelocatableSymbol, Current
<1>2. pc = "local" /\ begun = f /\ n \in Nat
  BY <1>1, Here DEF Together, IInv
<1>3. \E new, err : slots' = slots \cup {NewSlot(new, err)}
  <2>1. CASE OutputFunction
    BY <2>1 DEF OutputFunction
  <2>2. CASE OutputExternal
    BY <2>2 DEF OutputExternal
  <2>3. CASE OutputLocal /\ Relocatable
    <3>1. Entry.class # "ext"
      BY <2>3 DEF OutputLocal, AtEntry, Debug
    <3>2. slots' = slots \cup {NewSlot(index, FALSE)}
      BY <2>3, <3>1 DEF OutputLocal, Relocatable
    <3> QED
      BY <3>2
  <2> QED
    BY <2>1, <2>2, <2>3 DEF SymbolWithSlot
<1>4. UNCHANGED <<pc, f>>
  BY DEF SymbolWithSlot, OutputFunction, OutputExternal, OutputLocal
<1>5. PICK new, err : slots' = slots \cup {NewSlot(new, err)}
  BY <1>3
<1>6. NewSlot(new, err).file = begun /\ NewSlot(new, err).old = n
  BY <1>2 DEF NewSlot
<1>7. ASSUME NEW i \in Nat
      PROVE  i \in relocatable' <=> \E s \in slots' : s.file = begun' /\ s.old = i + 1
  <2>1. i \in relocatable <=> \E s \in slots : s.file = begun /\ s.old = i + 1
    BY DEF Together
  <2>2. i = count <=> n = i + 1
    BY <1>1, <1>2
  <2> HIDE DEF Together
  <2> QED
    BY <1>1, <1>5, <1>6, <2>1, <2>2
<1>8. ~Early'
  BY <1>2, <1>4 DEF Early
<1> QED
  BY <1>1, <1>2, <1>4, <1>7, <1>8 DEF Together

\* An entry without a slot is passed over.
LEMMA SymbolWithoutSlotTogether == Together /\ SymbolWithoutSlot => Together'
<1> SUFFICES ASSUME Together, SymbolWithoutSlot PROVE Together'
  OBVIOUS
<1>1. at = "symbols" /\ UNCHANGED <<at, begun, relocatable>>
  BY DEF SymbolWithoutSlot, OtherEntry, vector
<1>2. UNCHANGED <<pc, f, slots>>
  <2>1. CASE OutputLocal /\ ~Relocatable
    BY <2>1 DEF OutputLocal, Relocatable
  <2>2. CASE OutputFileEntry
    BY <2>2 DEF OutputFileEntry
  <2> QED
    BY <2>1, <2>2 DEF SymbolWithoutSlot
<1>3. pc = "local" /\ begun = f
  BY <1>1 DEF Together
<1>4. ~Early'
  BY <1>2, <1>3 DEF Early
<1> QED
  BY <1>1, <1>2, <1>3, <1>4, SlotsTogether DEF Together

\* What only moves the vector within a file leaves both at their places.
LEMMA WithinFileTogether == Together /\ (AuxPassed \/ LookUp \/ FileThrough) => Together'
<1> SUFFICES ASSUME Together, AuxPassed \/ LookUp \/ FileThrough PROVE Together'
  OBVIOUS
<1>1. UNCHANGED <<pc, f, n, slots>>
  BY DEF AuxPassed, LookUp, FileThrough, vars, pass2
<1>2. UNCHANGED <<begun, relocatable>> /\ at # "file"
  BY DEF AuxPassed, LookUp, FileThrough, OtherEntry, SlotvecRead, Search, Exhausted, Hit,
         BelowGuess, AboveGuess, UseAnswer, EndEntries, vector
<1>3. at = "symbols" <=> at' = "symbols"
  BY DEF AuxPassed, LookUp, FileThrough, OtherEntry, SlotvecRead, Search, Exhausted, Hit,
         BelowGuess, AboveGuess, UseAnswer, EndEntries, Answer
<1>4. ~Early'
  BY <1>1, <1>2 DEF Together, Early
<1> QED
  BY <1>1, <1>2, <1>3, <1>4, SlotsTogether DEF Together

\* The next file is not begun with the end of this one.
LEMMA SymbolsThroughTogether == Typed /\ Together /\ SymbolsThrough => Together'
<1> SUFFICES ASSUME Typed, Together, SymbolsThrough PROVE Together'
  OBVIOUS
<1>1. at = "symbols" /\ at' = "entries" /\ UNCHANGED <<begun, relocatable>>
  BY DEF SymbolsThrough, EndSymbols, vector
<1>2. pc = "local" /\ begun = f
  BY <1>1 DEF Together
<1>3. /\ UNCHANGED slots /\ n' = 1
      /\ (pc' = "local" /\ f' = f + 1) \/ pc' \in {"fatal", "global"}
  BY <1>2 DEF SymbolsThrough, EndFile, ToNextFile
<1>4. ~Early' /\ (pc' = "local" => begun' = f' - 1)
  <2>1. f \in Nat
    BY Here
  <2> QED
    BY <1>1, <1>2, <1>3, <2>1 DEF Early
<1> QED
  BY <1>1, <1>3, <1>4, SlotsTogether DEF Together

\* The global symbols come after the last file.
LEMMA FinishTogether == Together /\ Finish => Together'
<1> SUFFICES ASSUME Together, Finish PROVE Together'
  OBVIOUS
<1>1. at = "file" /\ UNCHANGED <<at, begun, relocatable, slots>> /\ pc' \in {"global", "done"}
  BY DEF Finish, vectorVars, vector, OutputGlobal, FinishUp, pass2
<1>2. ~Early'
  BY <1>1 DEF Early
<1> QED
  BY <1>1, <1>2, SlotsTogether DEF Together

\* Every step keeps them together.
LEMMA NextTogether == IInv /\ Together /\ [OutputNext]_outputVars => Together'
<1> SUFFICES ASSUME IInv, Together, [OutputNext]_outputVars PROVE Together'
  OBVIOUS
<1>1. CASE outputVars' = outputVars
  <2>1. UNCHANGED <<pc, f, n, slots, at, begun, relocatable>>
    BY <1>1 DEF outputVars, vars, vectorVars, vector, pass2
  <2> QED
    BY <2>1, SlotsTogether DEF Together, Early
<1>2. Typed
  BY DEF IInv
<1> QED
  BY <1>1, <1>2, PrepareTogether, BeginFileTogether, SymbolWithSlotTogether, SymbolWithoutSlotTogether,
     WithinFileTogether, SymbolsThroughTogether, FinishTogether DEF OutputNext

\* OutputSymbols and SlotVec stay together.
THEOREM SpecTogether == OutputSpec => []Together
BY InitTogether, NextTogether, OutputImplements, SpecIInv, PTL DEF OutputSpec

\* A relocation or line entry gets the slot of the symbol it names.
THEOREM SpecLookupNames == OutputSpec => []LookupNames
<1>1. Together /\ TypeOK /\ LookupExact => LookupNames
  <2> SUFFICES ASSUME Together, TypeOK, LookupExact, at = "answer", Searchable
               PROVE  IF result = NULL
                        THEN \A s \in slots : s.file = begun => s.old # sym_index + 1
                        ELSE \E s \in slots :
                               /\ s.file = begun /\ s.old = sym_index + 1
                               /\ slot[result] = [sv_symindex |-> s.old - 1, file |-> begun]
    BY DEF LookupNames
  <2>1. sym_index \in Nat
    BY DEF TypeOK
  <2>2. sym_index \in relocatable <=> \E s \in slots : s.file = begun /\ s.old = sym_index + 1
    BY <2>1 DEF Together
  <2>3. IF sym_index \in relocatable
          THEN result # NULL /\ slot[result] = [sv_symindex |-> sym_index, file |-> begun]
          ELSE result = NULL
    BY DEF LookupExact
  <2>4. CASE result = NULL
    BY <2>2, <2>3, <2>4
  <2>5. CASE result # NULL
    <3>1. PICK s \in slots : s.file = begun /\ s.old = sym_index + 1
      BY <2>2, <2>3, <2>5
    <3>2. s.old - 1 = sym_index
      BY <2>1, <3>1
    <3> QED
      BY <2>3, <2>5, <3>1, <3>2
  <2> QED
    BY <2>4, <2>5
<1> QED
  BY <1>1, SpecTogether, OutputImplements, VectorTyped, VectorLookup, PTL
=============================================================================
