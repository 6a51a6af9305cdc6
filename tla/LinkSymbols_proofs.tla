------------------------- MODULE LinkSymbols_proofs -------------------------
(***************************************************************************)
(* Proofs about LinkSymbols, for every command line, all contents of the   *)
(* files, any names and any hash function.                                 *)
(***************************************************************************)
EXTENDS LinkSymbols, FiniteSetTheorems, SequenceTheorems, TLAPS

TypeOK ==
  /\ pc \in {"file", "symbols", "archive", "directory", "pass2", "exit", "crash"}
  /\ content \in [File -> [Name -> Kind]] /\ content \in Contents
  /\ rejected \subseteq File
  /\ arg \in Nat \ {0} /\ file \in File \cup {NIL} /\ n \in 1 .. (NName + 1)
  /\ dir \in Nat \ {0} /\ found_one \in BOOLEAN
  /\ hashtab \in [Bucket -> Id \cup {NIL}]
  /\ chain_id \in [Id -> Id \cup {NIL}]
  /\ name \in [Id -> Name \cup {NIL}]
  /\ kind \in [Id -> Kind]
  /\ input_sect \in [Id -> File \cup {NIL}]
  /\ total_symbols \in 0 .. NName /\ extra_sym_cnt \in Nat /\ unresolved \in Int
  /\ input_file_list \in Seq(File)
  /\ user_errors \in Nat /\ linker_errors \in Nat

\* A file is loaded for an argument, an archive searched for one that is one.
Control ==
  /\ pc = "symbols" => file \in File
  /\ pc \in {"symbols", "archive", "directory"} => arg \in DOMAIN Args
  /\ pc \in {"archive", "directory"} => IsArchive

\* Symbols were entered for the entry of some file.
SymbolsEntered == \A s \in Symbol : name[s] \in Name /\ kind[s] # "none"

TableInv == TypeOK /\ Control /\ SymbolsEntered /\ ChainsSound

-----------------------------------------------------------------------------
(* What the table says of the files that were read.                        *)

\* The entry of name x of the i-th file read has been processed; the file being
\* read comes behind those of input_file_list.
EntryRead(i, x) ==
  /\ i \in 1 .. (Len(input_file_list) + 1)
  /\ i = Len(input_file_list) + 1 => pc = "symbols" /\ x < n

FileAt(i) == IF i <= Len(input_file_list) THEN input_file_list[i] ELSE file
Says(i, x) == content[FileAt(i)][x]

\* No file before the i-th makes x absolute.
NotAbsBefore(i, x) == \A k \in 1 .. (i - 1) : Says(k, x) # "abs"

\* The pass goes on.
Live == pc \notin {"exit", "crash"}

\* Whoever defines a name that was read, the table has a definition of it ...
DefinitionsKept ==
  \A i \in 1 .. (Len(input_file_list) + 1), x \in Name :
    EntryRead(i, x) /\ Says(i, x) \in Defining =>
      \E s \in Symbol : name[s] = x /\ kind[s] \in Defining

\* ... that of the first file to define it: in a section, unless one made it
\* absolute before.
SectionsKept ==
  \A i \in 1 .. (Len(input_file_list) + 1), x \in Name :
    EntryRead(i, x) /\ Says(i, x) = "section" /\ NotAbsBefore(i, x) =>
      \E s \in Symbol : name[s] = x /\ kind[s] = "section"

AbsFromFile ==
  \A s \in Symbol : kind[s] = "abs" =>
    \E i \in 1 .. (Len(input_file_list) + 1) :
      EntryRead(i, name[s]) /\ Says(i, name[s]) = "abs"

\* A second definition was counted as an error.
DuplicatesCounted ==
  \A i, j \in 1 .. (Len(input_file_list) + 1), x \in Name :
    /\ i < j /\ EntryRead(i, x) /\ EntryRead(j, x)
    /\ Says(i, x) = "section" /\ Says(j, x) \in Defining /\ NotAbsBefore(i, x)
    => user_errors > 0

\* As long as no section was rejected, a symbol has the section of a file that
\* was read and defines it.
SectionKnown(s) ==
  \E i \in 1 .. (Len(input_file_list) + 1) :
    /\ EntryRead(i, name[s]) /\ Says(i, name[s]) = "section"
    /\ FileAt(i) = input_sect[s] /\ FileAt(i) \notin rejected

SectionsKnown ==
  \A s \in Symbol : kind[s] = "section" /\ linker_errors = 0 => SectionKnown(s)

\* A section that is rejected is counted as an error.
RejectedCounted == pc = "symbols" /\ file \in rejected => linker_errors > 0

Kept ==
  /\ DefinitionsKept /\ SectionsKept /\ AbsFromFile
  /\ DuplicatesCounted /\ SectionsKnown

SourceInv ==
  /\ Live => Kept
  /\ RejectedCounted
  /\ pc = "crash" => linker_errors > 0
  /\ pc = "pass2" => user_errors = 0 /\ linker_errors = 0
  /\ LoadedOnce

-----------------------------------------------------------------------------
\* Object files without common symbols: a common symbol is not counted as
\* unresolved, but its definition is counted down.
NoCommon == \A c \in Contents, f \in File, x \in Name : c[f][x] # "common"

CountInv ==
  /\ UnresolvedCounts
  /\ \A s \in Symbol : kind[s] # "common"

\* In a pass over a directory that has loaded nothing, what was passed is not
\* wanted.
SearchInv ==
  ~ found_one =>
    /\ pc = "directory" => \A d \in 1 .. DirLength : d < dir => ~ Wanted(d)
    /\ pc = "archive" => \A d \in 1 .. DirLength : ~ Wanted(d)

-----------------------------------------------------------------------------
(* Names, symbols and archive entries.                                     *)

\* The ranges of names, files and symbols.
LEMMA Ranges ==
  /\ NName \in Nat \ {0} /\ Name = Id /\ Id \subseteq Nat /\ File \subseteq Nat
  /\ NIL \notin Id /\ NIL \notin File /\ NIL \notin Name
  /\ \A x \in Name : Hash[x] \in Bucket
BY SymbolAssumption DEF Name, Id, File, NIL, Bucket

\* The symbols entered are among those that the table may hold.
LEMMA SymbolsAreIds == ASSUME TypeOK PROVE Symbol \subseteq Id /\ NIL \notin Symbol
BY Ranges DEF TypeOK, Symbol, Id, NIL

\* The members of the argument that is read are files.
LEMMA MembersAreFiles ==
  ASSUME arg \in DOMAIN Args
  PROVE  /\ Members \in Seq(File) /\ Len(Members) \in Nat
         /\ ~ IsArchive => Members[1] \in File
<1> DEFINE R == [archive : BOOLEAN, members : Seq(File)]
<1> HIDE DEF R
<1>0. Args \in Seq(R)
  BY SymbolAssumption DEF R
<1>1. Args[arg] \in R
  BY <1>0, LenProperties, ElementOfSeq
<1> USE DEF R
<1>2. Members \in Seq(File) /\ Len(Members) \in Nat
  BY <1>1 DEF Members
<1>3. ~ IsArchive => Members # << >>
  BY SymbolAssumption DEF IsArchive, Members
<1> QED
  BY <1>2, <1>3

\* Quotient and remainder of a number below a product.
LEMMA DivideProduct ==
  ASSUME NEW a \in Nat, NEW b \in Nat \ {0}, NEW c \in Nat, a < c * b
  PROVE  a \div b \in 0 .. (c - 1) /\ a % b \in 0 .. (b - 1)
<1>1. a % b \in 0 .. (b - 1) /\ a \div b \in Nat /\ a = b * (a \div b) + (a % b)
  OBVIOUS
<1> DEFINE q == a \div b
<1>2. SUFFICES ASSUME q >= c PROVE FALSE
  BY <1>1
<1>3. \A x, y, z \in Nat : x >= y => z * x >= y * z
  OBVIOUS
<1>4. b * q >= c * b
  BY <1>1, <1>2, <1>3
<1> HIDE DEF q
<1> QED
  BY <1>1, <1>4 DEF q

\* An entry of an archive directory names a member and a symbol.
LEMMA EntriesInRange ==
  ASSUME arg \in DOMAIN Args, NEW d \in 1 .. DirLength
  PROVE  Entry(d).member \in File /\ Entry(d).name \in Name
<1>1. Members \in Seq(File) /\ Len(Members) \in Nat
  BY MembersAreFiles
<1>2. d \in Nat /\ d - 1 \in Nat /\ d - 1 < Len(Members) * NName
  <2>1. Len(Members) * NName \in Nat
    BY <1>1, Ranges
  <2> QED
    BY <2>1 DEF DirLength
<1>3. /\ (d - 1) \div NName \in 0 .. (Len(Members) - 1)
      /\ (d - 1) % NName \in 0 .. (NName - 1)
  BY <1>1, <1>2, Ranges, DivideProduct
<1>4. ((d - 1) \div NName) + 1 \in 1 .. Len(Members)
  BY <1>1, <1>3
<1>5. Members[((d - 1) \div NName) + 1] \in File
  BY <1>1, <1>4
<1>6. ((d - 1) % NName) + 1 \in Name
  BY <1>3, Ranges DEF Name
<1> QED
  BY <1>5, <1>6 DEF Entry

-----------------------------------------------------------------------------
(* findsym.                                                                *)

\* findsym finds the symbol of a name if there is one, and no other.
LEMMA FoundSound ==
  ASSUME TypeOK, SymbolsEntered, ChainsSound, NEW x \in Name
  PROVE  /\ Found(x) = NIL \/ (Found(x) \in Symbol /\ name[Found(x)] = x)
         /\ \A s \in Symbol : name[s] = x => Found(x) = s
<1> DEFINE h     == Hash[x]
           there == {s \in Symbol : Hash[name[s]] = h}
           Hits  == {s \in Visited(x) : name[s] = x}
<1>1. h \in Bucket /\ Symbol \subseteq Id /\ there \subseteq Id
  BY Ranges, SymbolsAreIds
<1>2. CASE there = {}
  <2>1. Found(x) = NIL
    BY <1>1, <1>2 DEF ChainsSound, Found
  <2>2. ASSUME NEW s \in Symbol, name[s] = x PROVE FALSE
    <3>1. s \in there
      BY <2>2
    <3> HIDE DEF there
    <3> QED
      BY <1>2, <3>1, Zenon
  <2> QED
    BY <2>1, <2>2
<1>3. CASE there # {}
  <2>1. /\ hashtab[h] \in there
        /\ \A S \in (SUBSET there) \ {{}} : (\A s \in S : chain_id[s] \in S) <=> S = there
    BY <1>1, <1>3 DEF ChainsSound
  <2>2. \A s \in there : chain_id[s] \in there
    BY <1>3, <2>1
  <2>3. Visited(x) \subseteq there
    BY <1>1, <2>1, <2>2 DEF Visited
  <2>4. ASSUME NEW s \in Symbol, name[s] = x
        PROVE  s \in Hits
    <3>1. s \in there /\ s \in Id
      BY <1>1, <2>4
    <3>2. ASSUME NEW S \in SUBSET Id, hashtab[h] \in S,
                 \A t \in S : name[t] # x => chain_id[t] \in S,
                 s \notin S
          PROVE  FALSE
      <4> DEFINE T == S \cap there
      <4>1. T \in (SUBSET there) \ {{}}
        BY <2>1, <3>2
      <4>2. \A t \in T : name[t] # x
        BY <2>4, <3>2 DEF ChainsSound
      <4>3. \A t \in T : chain_id[t] \in T
        BY <2>2, <3>2, <4>2
      <4>4. T = there
        BY <2>1, <4>1, <4>3
      <4> QED
        BY <3>1, <3>2, <4>4
    <3> QED
      BY <2>4, <3>1, <3>2 DEF Visited
  <2>5. \A s \in Hits : s \in Symbol /\ name[s] = x
    BY <2>3
  <2>6. hashtab[h] # NIL
    BY <2>1, SymbolsAreIds
  <2>7. Found(x) = IF Hits = {} THEN NIL ELSE CHOOSE s \in Hits : TRUE
    BY <2>6 DEF Found
  <2>8. \A s, t \in Hits : s = t
    BY <2>5 DEF ChainsSound
  <2>12. \A s \in Symbol : name[s] = x => s \in Hits
    BY <2>4
  <2> HIDE DEF Hits
  <2>9. Hits # {} => (CHOOSE s \in Hits : TRUE) \in Hits
    OBVIOUS
  <2>10. CASE Hits = {}
    <3>1. ASSUME NEW s \in Symbol, name[s] = x PROVE FALSE
      BY <2>10, <2>12, <3>1, Zenon
    <3>2. Found(x) = NIL
      BY <2>7, <2>10
    <3> QED
      BY <3>1, <3>2
  <2>11. CASE Hits # {}
    <3>1. Found(x) \in Hits
      BY <2>7, <2>9, <2>11
    <3> QED
      BY <2>5, <2>8, <2>12, <3>1
  <2> QED
    BY <2>10, <2>11
<1> QED
  BY <1>2, <1>3

\* The symbol found last becomes the head of its ring; the ring stays.
LEMMA HeadMoves ==
  ASSUME TypeOK, SymbolsEntered, ChainsSound, NEW s \in Symbol,
         hashtab' = [hashtab EXCEPT ![Hash[name[s]]] = s],
         UNCHANGED <<chain_id, name, total_symbols>>
  PROVE  ChainsSound'
<1>1. Symbol' = Symbol /\ hashtab \in [Bucket -> Id \cup {NIL}]
  BY DEF Symbol, TypeOK
<1>2. \A t, u \in Symbol' : name'[t] = name'[u] => t = u
  BY <1>1 DEF ChainsSound
<1>3. ASSUME NEW h \in Bucket
      PROVE  LET there == {t \in Symbol' : Hash[name'[t]] = h}
             IN  IF there = {} THEN hashtab'[h] = NIL
                 ELSE /\ hashtab'[h] \in there
                      /\ \A S \in (SUBSET there) \ {{}} :
                           (\A t \in S : chain_id'[t] \in S) <=> S = there
  <2> DEFINE there == {t \in Symbol : Hash[name[t]] = h}
  <2>1. IF there = {} THEN hashtab[h] = NIL
        ELSE /\ hashtab[h] \in there
             /\ \A S \in (SUBSET there) \ {{}} :
                  (\A t \in S : chain_id[t] \in S) <=> S = there
    BY DEF ChainsSound
  <2>2. SUFFICES IF there = {} THEN hashtab'[h] = NIL
                 ELSE /\ hashtab'[h] \in there
                      /\ \A S \in (SUBSET there) \ {{}} :
                           (\A t \in S : chain_id[t] \in S) <=> S = there
    BY <1>1
  <2>3. CASE Hash[name[s]] = h
    <3>1. s \in there /\ hashtab'[h] = s
      BY <1>1, <2>3
    <3>2. there # {}
      BY <3>1
    <3> QED
      BY <2>1, <3>1, <3>2
  <2>4. CASE Hash[name[s]] # h
    <3>1. hashtab'[h] = hashtab[h]
      BY <1>1, <2>4
    <3> QED
      BY <2>1, <3>1
  <2> QED
    BY <2>3, <2>4
<1> QED
  BY <1>2, <1>3 DEF ChainsSound

\* There is an id for every name that is not in the table.
LEMMA NamesFit ==
  ASSUME TypeOK, SymbolsEntered, ChainsSound, NEW x \in Name, Found(x) = NIL
  PROVE  /\ total_symbols + 1 \in Id
         /\ \A s \in Symbol : name[s] # x
<1>1. \A s \in Symbol : name[s] # x
  BY FoundSound, SymbolsAreIds
<1>2. total_symbols \in Nat /\ total_symbols <= NName /\ NName \in Nat \ {0}
  BY Ranges DEF TypeOK
<1>3. SUFFICES ASSUME total_symbols = NName PROVE FALSE
  BY <1>1, <1>2 DEF Id
<1> DEFINE f == [s \in Symbol |-> name[s]]
           T == Name \ {x}
<1>4. f \in [Symbol -> T]
  BY <1>1 DEF SymbolsEntered
<1>5. IsFiniteSet(Symbol) /\ Cardinality(Symbol) = NName
  BY <1>2, <1>3, FS_Interval DEF Symbol
<1>6. IsFiniteSet(T) /\ Cardinality(T) = NName - 1
  <2>1. IsFiniteSet(Name) /\ Cardinality(Name) = NName
    BY <1>2, FS_Interval DEF Name
  <2> QED
    BY <2>1, FS_RemoveElement
<1>7. Cardinality(T) < Cardinality(Symbol)
  BY <1>2, <1>5, <1>6
<1> HIDE DEF f, T
<1>8. \E s, t \in Symbol : s # t /\ f[s] = f[t]
  BY <1>4, <1>5, <1>6, <1>7, FS_PigeonHole
<1> QED
  BY <1>8 DEF f, ChainsSound

\* A new symbol is linked into the ring of its name.
LEMMA ChainInsert ==
  ASSUME TypeOK, SymbolsEntered, ChainsSound, NEW x \in Name, Found(x) = NIL,
         NEW k, NewSymbol(x, k)
  PROVE  ChainsSound'
<1> DEFINE new == total_symbols + 1
           p2  == hashtab[Hash[x]]
<1>1. /\ new \in Id /\ new \notin Symbol /\ Symbol' = Symbol \cup {new}
      /\ Symbol \subseteq Id
  BY NamesFit, SymbolsAreIds DEF NewSymbol, Symbol, TypeOK, Id
<1>2. /\ name'[new] = x /\ \A t \in Symbol : name'[t] = name[t] /\ name[t] # x
  BY <1>1, NamesFit DEF NewSymbol, TypeOK
<1>3. \A s, t \in Symbol' : name'[s] = name'[t] => s = t
  BY <1>1, <1>2 DEF ChainsSound
<1>4. /\ hashtab'[Hash[x]] = new
      /\ \A h \in Bucket : h # Hash[x] => hashtab'[h] = hashtab[h]
  BY Ranges DEF NewSymbol, TypeOK
<1>5. /\ chain_id'[new] = IF p2 # NIL THEN chain_id[p2] ELSE new
      /\ p2 # NIL /\ p2 \in Symbol => chain_id'[p2] = new
      /\ \A t \in Symbol : t # p2 => chain_id'[t] = chain_id[t]
  BY <1>1 DEF NewSymbol, LinkIntoChain, TypeOK
<1> HIDE DEF new
<1>6. ASSUME NEW h \in Bucket
      PROVE  LET there == {s \in Symbol' : Hash[name'[s]] = h}
             IN  IF there = {} THEN hashtab'[h] = NIL
                 ELSE /\ hashtab'[h] \in there
                      /\ \A S \in (SUBSET there) \ {{}} :
                           (\A s \in S : chain_id'[s] \in S) <=> S = there
  <2> DEFINE old   == {s \in Symbol : Hash[name[s]] = h}
             there == {s \in Symbol' : Hash[name'[s]] = h}
  <2> SUFFICES IF there = {} THEN hashtab'[h] = NIL
               ELSE /\ hashtab'[h] \in there
                    /\ \A S \in (SUBSET there) \ {{}} :
                         (\A s \in S : chain_id'[s] \in S) <=> S = there
    OBVIOUS
  <2>1. IF old = {} THEN hashtab[h] = NIL
        ELSE /\ hashtab[h] \in old
             /\ \A S \in (SUBSET old) \ {{}} : (\A s \in S : chain_id[s] \in S) <=> S = old
    BY DEF ChainsSound
  <2>2. old \subseteq Symbol
    OBVIOUS
  <2>3. CASE h # Hash[x]
    <3>1. there = old
      BY <1>1, <1>2, <2>3
    <3>2. \A s \in old : chain_id'[s] = chain_id[s]
      <4>1. p2 \notin old
        <5>1. Hash[x] \in Bucket
          BY Ranges
        <5>2. p2 = NIL \/ Hash[name[p2]] = Hash[x]
          BY <5>1 DEF ChainsSound
        <5> QED
          BY <2>3, <5>2, SymbolsAreIds
      <4> QED
        BY <1>5, <2>2, <4>1
    <3> HIDE DEF old, there
    <3>3. \A S \in SUBSET old :
            (\A s \in S : chain_id'[s] \in S) <=> (\A s \in S : chain_id[s] \in S)
      BY <3>2
    <3> QED
      BY <1>4, <2>1, <2>3, <3>1, <3>3
  <2>4. CASE h = Hash[x]
    <3>1. there = old \cup {new} /\ new \notin old
      BY <1>1, <1>2, <2>4
    <3> HIDE DEF old, there
    <3>2. CASE old = {}
      <4>1. p2 = NIL /\ there = {new}
        BY <2>1, <2>4, <3>1, <3>2
      <4>2. \A S \in (SUBSET there) \ {{}} : S = there
        BY <4>1
      <4>3. chain_id'[new] = new /\ hashtab'[h] = new
        BY <1>4, <1>5, <2>4, <4>1
      <4> QED
        BY <4>1, <4>2, <4>3
    <3>3. CASE old # {}
      <4>1. /\ p2 \in old /\ p2 # NIL /\ p2 \in Symbol
            /\ \A S \in (SUBSET old) \ {{}} : (\A s \in S : chain_id[s] \in S) <=> S = old
        BY <2>1, <2>2, <2>4, <3>3, SymbolsAreIds
      <4>2. \A s \in old : chain_id[s] \in old
        BY <3>3, <4>1
      <4>3. /\ chain_id'[new] = chain_id[p2] /\ chain_id'[p2] = new
            /\ \A t \in old : t # p2 => chain_id'[t] = chain_id[t]
        BY <1>5, <2>2, <4>1
      <4>4. \A s \in there : chain_id'[s] \in there
        BY <3>1, <4>1, <4>2, <4>3
      <4>5. ASSUME NEW S \in (SUBSET there) \ {{}}, \A s \in S : chain_id'[s] \in S
            PROVE  S = there
        <5> DEFINE T == S \ {new}
        <5>1. \A t \in T : chain_id[t] \in T
          <6>1. SUFFICES ASSUME NEW t \in T PROVE chain_id[t] \in T
            OBVIOUS
          <6>2. t \in old /\ chain_id[t] \in old
            BY <3>1, <4>2, <4>5
          <6>3. CASE t = p2
            BY <3>1, <4>3, <4>5, <6>2, <6>3
          <6>4. CASE t # p2
            BY <3>1, <4>3, <4>5, <6>2, <6>4
          <6> QED
            BY <6>3, <6>4
        <5>2. T # {}
          <6>1. SUFFICES ASSUME S = {new} PROVE FALSE
            BY <4>5
          <6> QED
            BY <3>1, <4>1, <4>2, <4>3, <4>5, <6>1
        <5>3. T \subseteq old
          BY <3>1, <4>5
        <5>4. T = old
          BY <4>1, <5>1, <5>2, <5>3
        <5>5. new \in S
          BY <4>1, <4>3, <4>5, <5>4
        <5> QED
          BY <3>1, <4>5, <5>4, <5>5
      <4>6. hashtab'[h] \in there /\ there # {}
        BY <1>4, <2>4, <3>1
      <4> QED
        BY <4>4, <4>5, <4>6
    <3> QED
      BY <3>2, <3>3
  <2> QED
    BY <2>3, <2>4
<1> QED
  BY <1>3, <1>6 DEF ChainsSound

-----------------------------------------------------------------------------
(* The symbol table and control.                                           *)

\* The entry that process_symbol_table reads is one of the file's.
LEMMA EntryKind ==
  ASSUME TypeOK, Control, pc = "symbols", n \in Name
  PROVE  file \in File /\ content[file][n] \in Kind /\ n + 1 \in 1 .. (NName + 1)
BY Ranges DEF TypeOK, Control, Name

\* load_object_file begins with the first entry of the file, or ends the link.
LEMMA StartLoadType ==
  ASSUME TypeOK, NEW f \in File, StartLoad(f)
  PROVE  /\ file' = f /\ n' = 1 /\ n' \in 1 .. (NName + 1) /\ pc' \in {"symbols", "exit"}
         /\ user_errors' \in Nat /\ linker_errors' \in Nat
BY Ranges DEF StartLoad, TypeOK, errors

\* Chains stay sound while the table is left alone.
LEMMA TableUnchanged ==
  ASSUME SymbolsEntered, ChainsSound,
         UNCHANGED <<hashtab, chain_id, name, kind, total_symbols>>
  PROVE  SymbolsEntered' /\ ChainsSound'
<1>1. Symbol' = Symbol
  BY DEF Symbol
<1>2. SymbolsEntered'
  BY <1>1 DEF SymbolsEntered
<1>3. \A t, u \in Symbol' : name'[t] = name'[u] => t = u
  BY <1>1 DEF ChainsSound
<1>4. ASSUME NEW h \in Bucket
      PROVE  LET there == {t \in Symbol' : Hash[name'[t]] = h}
             IN  IF there = {} THEN hashtab'[h] = NIL
                 ELSE /\ hashtab'[h] \in there
                      /\ \A S \in (SUBSET there) \ {{}} :
                           (\A t \in S : chain_id'[t] \in S) <=> S = there
  <2> DEFINE there == {t \in Symbol : Hash[name[t]] = h}
  <2>1. SUFFICES IF there = {} THEN hashtab[h] = NIL
                 ELSE /\ hashtab[h] \in there
                      /\ \A S \in (SUBSET there) \ {{}} :
                           (\A t \in S : chain_id[t] \in S) <=> S = there
    BY <1>1
  <2> QED
    BY DEF ChainsSound
<1> QED
  BY <1>2, <1>3, <1>4 DEF ChainsSound

\* An entry whose name is not in the table.
LEMMA EnterTable == ASSUME TableInv, EnterSymbol PROVE TableInv'
<1> USE DEF TableInv
<1> DEFINE s == total_symbols + 1
           k == content[file][n]
<1>1. /\ pc = "symbols" /\ n \in Name /\ k # "none" /\ NewSymbol(n, k)
      /\ Found(n) = NIL /\ n' = n + 1
      /\ UNCHANGED <<inputs, arg, file, dir, found_one, input_file_list>>
  BY DEF EnterSymbol
<1>2. file \in File /\ k \in Kind /\ n' \in 1 .. (NName + 1)
  BY <1>1, EntryKind
<1>3. s \in Id /\ s \notin Symbol /\ Symbol' = Symbol \cup {s} /\ s \in 1 .. NName
  BY <1>1, NamesFit DEF NewSymbol, Symbol, TypeOK, Id
<1>4. ChainsSound'
  BY <1>1, ChainInsert
<1>5. SymbolsEntered'
  BY <1>1, <1>2, <1>3, SymbolsAreIds DEF SymbolsEntered, NewSymbol, TypeOK
<1>6. /\ pc' \in {"symbols", "exit"}
      /\ user_errors' \in Nat /\ linker_errors' \in Nat
  BY <1>1 DEF EnterSymbol, LinkerError, NoError, TypeOK, errors
<1>7. /\ hashtab' \in [Bucket -> Id \cup {NIL}] /\ chain_id' \in [Id -> Id \cup {NIL}]
      /\ name' \in [Id -> Name \cup {NIL}] /\ kind' \in [Id -> Kind]
      /\ input_sect' \in [Id -> File \cup {NIL}]
  <2>1. Hash[n] \in Bucket
    BY <1>1, Ranges
  <2>2. hashtab' \in [Bucket -> Id \cup {NIL}]
    BY <1>1, <1>3, <2>1 DEF NewSymbol, TypeOK
  <2>3. chain_id' \in [Id -> Id \cup {NIL}]
    BY <1>1, <1>3, <2>1 DEF NewSymbol, LinkIntoChain, TypeOK
  <2>4. name' \in [Id -> Name \cup {NIL}] /\ kind' \in [Id -> Kind]
    BY <1>1, <1>2, <1>3 DEF NewSymbol, TypeOK
  <2>5. input_sect' \in [Id -> File \cup {NIL}]
    BY <1>1, <1>2, <1>3 DEF NewSymbol, SectionOf, TypeOK
  <2> QED
    BY <2>2, <2>3, <2>4, <2>5
<1>8. /\ total_symbols' \in 0 .. NName /\ extra_sym_cnt' \in Nat /\ unresolved' \in Int
  BY <1>1, <1>3, Ranges DEF NewSymbol, GrowTable, TypeOK
<1>9. TypeOK'
  BY <1>1, <1>2, <1>6, <1>7, <1>8 DEF TypeOK, inputs
<1>10. Control'
  BY <1>1, <1>2, <1>6 DEF Control
<1> QED
  BY <1>4, <1>5, <1>9, <1>10

\* One whose name is.
LEMMA MergeTable == ASSUME TableInv, MergeEntry PROVE TableInv'
<1> USE DEF TableInv
<1> DEFINE s == Found(n)
           k == content[file][n]
<1>1. /\ pc = "symbols" /\ n \in Name /\ k # "none" /\ s # NIL /\ MergeSymbol(s, n, k)
      /\ n' = n + 1
      /\ UNCHANGED <<inputs, arg, file, dir, found_one, input_file_list>>
  BY DEF MergeEntry
<1>2. file \in File /\ k \in Kind /\ n' \in 1 .. (NName + 1)
  BY <1>1, EntryKind
<1>3. s \in Symbol /\ name[s] = n /\ s \in Id
  BY <1>1, FoundSound, SymbolsAreIds
<1> HIDE DEF s
<1>4. ChainsSound'
  <2>1. /\ hashtab' = [hashtab EXCEPT ![Hash[name[s]]] = s]
        /\ UNCHANGED <<chain_id, name, total_symbols>>
    BY <1>1, <1>3 DEF MergeSymbol
  <2> QED
    BY <1>3, <2>1, HeadMoves
<1>5. Symbol' = Symbol /\ Symbol \subseteq Id
  BY <1>1, SymbolsAreIds DEF MergeSymbol, Symbol
<1>6. SymbolsEntered'
  BY <1>1, <1>3, <1>5 DEF SymbolsEntered, MergeSymbol, TypeOK
<1>7. /\ pc' \in {"symbols", "exit", "crash"}
      /\ user_errors' \in Nat /\ linker_errors' \in Nat
  BY <1>1 DEF MergeEntry, UserError, NoError, TypeOK, errors
<1>8. /\ hashtab' \in [Bucket -> Id \cup {NIL}] /\ chain_id' \in [Id -> Id \cup {NIL}]
      /\ name' \in [Id -> Name \cup {NIL}] /\ kind' \in [Id -> Kind]
      /\ input_sect' \in [Id -> File \cup {NIL}]
  <2>1. Hash[n] \in Bucket
    BY <1>1, Ranges
  <2> QED
    BY <1>1, <1>2, <1>3, <2>1 DEF MergeSymbol, SectionOf, TypeOK
<1>9. total_symbols' \in 0 .. NName /\ extra_sym_cnt' \in Nat /\ unresolved' \in Int
  BY <1>1 DEF MergeSymbol, TypeOK
<1>10. TypeOK'
  BY <1>1, <1>2, <1>7, <1>8, <1>9 DEF TypeOK, inputs
<1>11. Control'
  BY <1>1, <1>2, <1>7 DEF Control
<1> QED
  BY <1>4, <1>6, <1>10, <1>11

\* An entry of an archive directory.
LEMMA DirectoryTable == ASSUME TableInv, DirectoryEntry PROVE TableInv'
<1> USE DEF TableInv
<1> DEFINE x == Entry(dir).name
           f == Entry(dir).member
           s == Found(x)
<1>1. /\ pc = "directory" /\ dir \in 1 .. DirLength /\ TouchHead(dir)
      /\ UNCHANGED <<inputs, arg, found_one, chain_id, name, kind, input_sect,
                     total_symbols, extra_sym_cnt, unresolved, input_file_list>>
  BY DEF DirectoryEntry
<1>2. arg \in DOMAIN Args /\ IsArchive
  BY <1>1 DEF Control
<1>3. x \in Name /\ f \in File
  BY <1>1, <1>2, EntriesInRange
<1> HIDE DEF x, f
<1>4. s = NIL \/ (s \in Symbol /\ name[s] = x /\ s \in Id)
  BY <1>3, FoundSound, SymbolsAreIds
<1> HIDE DEF s
<1>5. \/ hashtab' = hashtab
      \/ s \in Symbol /\ s \in Id /\ name[s] = x /\ hashtab' = [hashtab EXCEPT ![Hash[x]] = s]
  BY <1>1, <1>4 DEF TouchHead, x, s
<1>6. hashtab' \in [Bucket -> Id \cup {NIL}]
  BY <1>3, <1>5, Ranges DEF TypeOK
<1>7. SymbolsEntered' /\ ChainsSound'
  <2>1. CASE hashtab' = hashtab
    BY <1>1, <2>1, TableUnchanged
  <2>2. CASE hashtab' # hashtab
    <3>1. s \in Symbol /\ hashtab' = [hashtab EXCEPT ![Hash[name[s]]] = s]
      BY <1>5, <2>2
    <3>2. ChainsSound'
      BY <1>1, <3>1, HeadMoves
    <3>3. Symbol' = Symbol
      BY <1>1 DEF Symbol
    <3> QED
      BY <1>1, <3>2, <3>3 DEF SymbolsEntered
  <2> QED
    BY <2>1, <2>2
<1>8. \/ StartLoad(f) /\ UNCHANGED dir
      \/ dir' = dir + 1 /\ UNCHANGED <<pc, file, n, errors>>
  BY DEF DirectoryEntry, f
<1>9. /\ pc' \in {"symbols", "exit", "directory"}
      /\ pc' = "symbols" => file' \in File
      /\ file' \in File \cup {NIL} /\ n' \in 1 .. (NName + 1) /\ dir' \in Nat \ {0}
      /\ user_errors' \in Nat /\ linker_errors' \in Nat
  <2>1. CASE StartLoad(f) /\ UNCHANGED dir
    BY <1>3, <2>1, StartLoadType DEF TypeOK
  <2>2. CASE dir' = dir + 1 /\ UNCHANGED <<pc, file, n, errors>>
    BY <1>1, <2>2 DEF TypeOK, errors
  <2> QED
    BY <1>8, <2>1, <2>2
<1>10. TypeOK'
  BY <1>1, <1>6, <1>9 DEF TypeOK, inputs
<1>11. Control'
  BY <1>1, <1>2, <1>9 DEF Control, IsArchive
<1> QED
  BY <1>7, <1>10, <1>11

\* An empty table has no chains.
LEMMA InitTable == Init => TableInv
<1> SUFFICES ASSUME Init PROVE TableInv
  OBVIOUS
<1>1. Symbol = {}
  BY DEF Init, Symbol
<1>2. TypeOK
  <2>1. content \in Contents /\ content \in [File -> [Name -> Kind]] /\ rejected \subseteq File
    BY SymbolAssumption DEF Init
  <2> QED
    <3>1. found_one \in BOOLEAN
      BY Zenon DEF Init
    <3>2. /\ hashtab \in [Bucket -> Id \cup {NIL}] /\ chain_id \in [Id -> Id \cup {NIL}]
          /\ name \in [Id -> Name \cup {NIL}] /\ kind \in [Id -> Kind]
          /\ input_sect \in [Id -> File \cup {NIL}]
      BY DEF Init, Kind
    <3>3. /\ pc = "file" /\ arg = 1 /\ file = NIL /\ n = 1 /\ dir = 1
          /\ total_symbols = 0 /\ extra_sym_cnt = 0 /\ unresolved = 0
          /\ input_file_list = << >> /\ user_errors = 0 /\ linker_errors = 0
      BY DEF Init
    <3>4. n \in 1 .. (NName + 1) /\ total_symbols \in 0 .. NName
      BY <3>3, Ranges
    <3> QED
      BY <2>1, <3>1, <3>2, <3>3, <3>4, EmptySeq DEF TypeOK
<1>3. Control /\ SymbolsEntered
  BY <1>1 DEF Init, Control, SymbolsEntered
<1>4. ChainsSound
  BY <1>1 DEF Init, ChainsSound
<1> QED
  BY <1>2, <1>3, <1>4 DEF TableInv

\* Every step of pass 1 keeps the chains.
LEMMA NextTable == ASSUME TableInv, [Next]_vars PROVE TableInv'
<1> USE DEF TableInv
<1>1. CASE SkipEntry
  <2>1. UNCHANGED table
    BY <1>1 DEF SkipEntry
  <2>2. SymbolsEntered' /\ ChainsSound'
    BY <2>1, TableUnchanged DEF table
  <2>3. TypeOK'
    BY <1>1, EntryKind DEF SkipEntry, TypeOK, inputs, table, errors
  <2>4. Control'
    BY <1>1 DEF SkipEntry, Control
  <2> QED
    BY <2>2, <2>3, <2>4
<1>2. CASE EnterSymbol
  BY <1>2, EnterTable
<1>3. CASE MergeEntry
  BY <1>3, MergeTable
<1>4. CASE ObjectFile
  <2>1. SymbolsEntered' /\ ChainsSound'
    BY <1>4, TableUnchanged DEF ObjectFile, table
  <2>2. arg \in DOMAIN Args /\ Members[1] \in File
    BY <1>4, MembersAreFiles DEF ObjectFile
  <2>3. CASE StartLoad(Members[1]) /\ UNCHANGED arg
    <3>1. TypeOK'
      BY <1>4, <2>2, <2>3, StartLoadType DEF ObjectFile, TypeOK, inputs, table
    <3>2. Control'
      BY <1>4, <2>2, <2>3, StartLoadType DEF ObjectFile, Control
    <3> QED
      BY <2>1, <3>1, <3>2
  <2>4. CASE arg' = arg + 1 /\ UNCHANGED <<pc, file, n, errors>>
    <3>1. TypeOK'
      BY <1>4, <2>4 DEF ObjectFile, TypeOK, inputs, table, errors
    <3>2. Control'
      BY <1>4, <2>4 DEF ObjectFile, Control
    <3> QED
      BY <2>1, <3>1, <3>2
  <2> QED
    BY <1>4, <2>3, <2>4 DEF ObjectFile
<1>5. CASE EndLoad
  <2>1. SymbolsEntered' /\ ChainsSound'
    BY <1>5, TableUnchanged DEF EndLoad, table
  <2>2. file \in File /\ arg \in DOMAIN Args
    BY <1>5 DEF EndLoad, Control
  <2>3. Append(input_file_list, file) \in Seq(File)
    BY <2>2 DEF TypeOK
  <2>4. TypeOK'
    <3>1. found_one' \in BOOLEAN
      BY <1>5, Zenon DEF EndLoad, TypeOK
    <3>2. /\ pc' \in {"directory", "file"} /\ arg' \in {arg, arg + 1} /\ dir' \in {dir, dir + 1}
          /\ input_file_list' = Append(input_file_list, file)
          /\ UNCHANGED <<inputs, file, n, table, errors>>
      BY <1>5 DEF EndLoad
    <3> QED
      BY <2>3, <3>1, <3>2 DEF TypeOK, inputs, table, errors
  <2>5. Control'
    BY <1>5, <2>2 DEF EndLoad, Control, IsArchive
  <2> QED
    BY <2>1, <2>4, <2>5
<1>6. CASE ArchiveFile
  <2>1. SymbolsEntered' /\ ChainsSound'
    BY <1>6, TableUnchanged DEF ArchiveFile, table
  <2>2. TypeOK'
    BY <1>6 DEF ArchiveFile, TypeOK, inputs, table, errors
  <2>3. Control'
    BY <1>6 DEF ArchiveFile, Control, IsArchive
  <2> QED
    BY <2>1, <2>2, <2>3
<1>7. CASE SearchArchive
  <2>1. SymbolsEntered' /\ ChainsSound'
    BY <1>7, TableUnchanged DEF SearchArchive, table
  <2>2. TypeOK'
    <3>1. found_one' \in BOOLEAN
      BY <1>7, Zenon DEF SearchArchive
    <3>2. /\ pc' = "directory" /\ dir' = 1
          /\ UNCHANGED <<inputs, arg, file, n, table, input_file_list, errors>>
      BY <1>7 DEF SearchArchive
    <3> QED
      BY <3>1, <3>2 DEF TypeOK, inputs, table, errors
  <2>3. Control'
    BY <1>7 DEF SearchArchive, Control, IsArchive
  <2> QED
    BY <2>1, <2>2, <2>3
<1>8. CASE EndArchive
  <2>1. SymbolsEntered' /\ ChainsSound'
    BY <1>8, TableUnchanged DEF EndArchive, table
  <2>2. TypeOK'
    BY <1>8 DEF EndArchive, TypeOK, inputs, table, errors
  <2>3. Control'
    BY <1>8 DEF EndArchive, Control
  <2> QED
    BY <2>1, <2>2, <2>3
<1>9. CASE DirectoryEntry
  BY <1>9, DirectoryTable
<1>10. CASE EndDirectory
  <2>1. SymbolsEntered' /\ ChainsSound'
    BY <1>10, TableUnchanged DEF EndDirectory, table
  <2>2. TypeOK'
    BY <1>10 DEF EndDirectory, TypeOK, inputs, table, errors
  <2>3. Control'
    BY <1>10 DEF EndDirectory, Control, IsArchive
  <2> QED
    BY <2>1, <2>2, <2>3
<1>11. CASE EndPass1
  <2>1. SymbolsEntered' /\ ChainsSound'
    BY <1>11, TableUnchanged DEF EndPass1, table
  <2>2. TypeOK'
    BY <1>11 DEF EndPass1, TypeOK, inputs, table, errors
  <2>3. Control'
    BY <1>11 DEF EndPass1, Control
  <2> QED
    BY <2>1, <2>2, <2>3
<1>12. CASE UNCHANGED vars
  <2>1. SymbolsEntered' /\ ChainsSound'
    BY <1>12, TableUnchanged DEF vars, table
  <2>2. TypeOK'
    BY <1>12 DEF vars, TypeOK, inputs, table, errors
  <2>3. Control'
    BY <1>12 DEF vars, Control, IsArchive
  <2> QED
    BY <2>1, <2>2, <2>3
<1> QED
  BY <1>1, <1>2, <1>3, <1>4, <1>5, <1>6, <1>7, <1>8, <1>9, <1>10, <1>11, <1>12 DEF Next

\* findsym is reliable: the symbols of a hash value are one ring that hashtab
\* enters, and no name is in the table twice, whatever was searched for before.
THEOREM TableSound == Spec => [](TypeOK /\ ChainsSound)
<1>1. Spec => []TableInv
  BY InitTable, NextTable, PTL DEF Spec
<1>2. TableInv => TypeOK /\ ChainsSound
  BY DEF TableInv
<1> QED
  BY <1>1, <1>2, PTL

-----------------------------------------------------------------------------
(* What a step leaves alone.                                               *)

\* Symbols are entered and defined in two of the actions only.
LEMMA TableSteps ==
  ASSUME [Next]_vars
  PROVE  \/ EnterSymbol \/ MergeEntry
         \/ UNCHANGED <<chain_id, name, kind, input_sect, total_symbols, extra_sym_cnt,
                        unresolved>>
<1>1. Next \/ UNCHANGED vars
  OBVIOUS
<1> QED
  BY <1>1 DEF Next, vars, table, SkipEntry, ObjectFile, EndLoad, ArchiveFile, SearchArchive,
     EndArchive, DirectoryEntry, EndDirectory, EndPass1

\* Errors are never taken back, and what has ended stays so.
LEMMA ErrorsGrow ==
  ASSUME TypeOK, [Next]_vars
  PROVE  /\ user_errors' \in Nat /\ linker_errors' \in Nat
         /\ user_errors' >= user_errors /\ linker_errors' >= linker_errors
         /\ pc \in {"exit", "crash", "pass2"} => UNCHANGED vars
<1>0. user_errors \in Nat /\ linker_errors \in Nat
  BY DEF TypeOK
<1> DEFINE Grow == /\ user_errors' \in Nat /\ linker_errors' \in Nat
                   /\ user_errors' >= user_errors /\ linker_errors' >= linker_errors
<1>1. ASSUME UNCHANGED errors PROVE Grow
  BY <1>0, <1>1 DEF errors
<1>2. ASSUME NEW f, StartLoad(f) PROVE Grow
  BY <1>0, <1>2 DEF StartLoad, errors
<1>3. ASSUME UserError \/ LinkerError PROVE Grow
  BY <1>0, <1>3 DEF UserError, LinkerError, errors
<1>4. ASSUME EnterSymbol PROVE Grow
  BY <1>0, <1>1, <1>3, <1>4 DEF EnterSymbol, NoError, errors
<1>5. ASSUME MergeEntry PROVE Grow
  BY <1>0, <1>1, <1>3, <1>5 DEF MergeEntry, NoError, errors
<1>6. ASSUME ObjectFile PROVE Grow
  BY <1>0, <1>1, <1>2, <1>6 DEF ObjectFile, errors
<1>7. ASSUME DirectoryEntry PROVE Grow
  BY <1>0, <1>1, <1>2, <1>7 DEF DirectoryEntry, errors
<1>8. ASSUME \/ SkipEntry \/ EndLoad \/ ArchiveFile \/ SearchArchive \/ EndArchive
             \/ EndDirectory \/ EndPass1 \/ UNCHANGED vars
      PROVE  Grow
  BY <1>1, <1>8 DEF SkipEntry, EndLoad, ArchiveFile, SearchArchive, EndArchive,
     EndDirectory, EndPass1, vars
<1>9. Grow
  BY <1>4, <1>5, <1>6, <1>7, <1>8 DEF Next
<1>10. pc \in {"exit", "crash", "pass2"} => UNCHANGED vars
  BY DEF Next, SkipEntry, EnterSymbol, MergeEntry, ObjectFile, EndLoad, ArchiveFile,
     SearchArchive, EndArchive, DirectoryEntry, EndDirectory, EndPass1
<1> QED
  BY <1>9, <1>10

\* A symbol keeps its name, and the definition it has.
LEMMA DefinitionStays ==
  ASSUME TableInv, [Next]_vars
  PROVE  \A s \in Symbol : /\ s \in Symbol' /\ name'[s] = name[s]
                           /\ kind[s] \in Defining => kind'[s] = kind[s]
<1> USE DEF TableInv
<1>1. CASE EnterSymbol
  <2>1. n \in Name /\ Found(n) = NIL /\ NewSymbol(n, content[file][n])
    BY <1>1 DEF EnterSymbol
  <2>2. total_symbols + 1 \notin Symbol /\ Symbol' = Symbol \cup {total_symbols + 1}
    BY <2>1 DEF NewSymbol, Symbol, TypeOK
  <2> QED
    BY <2>1, <2>2, SymbolsAreIds DEF NewSymbol, TypeOK
<1>2. CASE MergeEntry
  <2> DEFINE s == Found(n)
             k == content[file][n]
  <2>1. MergeSymbol(s, n, k)
    BY <1>2 DEF MergeEntry
  <2>2. Symbol' = Symbol /\ name' = name
    BY <2>1 DEF MergeSymbol, Symbol
  <2>3. ASSUME NEW t \in Symbol, kind[t] \in Defining PROVE kind'[t] = kind[t]
    <3>1. kind' = kind \/ (kind' = [kind EXCEPT ![s] = k] /\ kind[s] \notin Defining)
      BY <2>1 DEF MergeSymbol
    <3>2. t # s \/ kind' = kind
      BY <2>3, <3>1
    <3>3. t \in Id
      BY SymbolsAreIds
    <3> HIDE DEF s, k
    <3> QED
      BY <3>1, <3>2, <3>3 DEF TypeOK
  <2> QED
    BY <2>2, <2>3
<1>3. CASE UNCHANGED <<name, kind, total_symbols>>
  BY <1>3 DEF Symbol
<1> QED
  BY <1>1, <1>2, <1>3, TableSteps

\* The first definition of a symbol is the one that counts: makesym merges no later
\* one over it, and no reference takes it away.
THEOREM FirstStays == Spec => FirstDefinitionStays
<1> DEFINE A == \A s \in Symbol : /\ name'[s] = name[s]
                                  /\ kind[s] \in Defining => kind'[s] = kind[s]
<1>1. TableInv /\ [Next]_vars => [A]_vars
  BY DefinitionStays
<1>2. Spec => [][A]_vars
  BY <1>1, InitTable, NextTable, PTL DEF Spec
<1> QED
  BY <1>2 DEF FirstDefinitionStays

-----------------------------------------------------------------------------
(* The blocks of the symbol table.                                         *)

\* The sizes of the symbol table and its extensions, and the error limit.
LEMMA Sizes ==
  TableSize \in Nat \ {0} /\ ExtraSize \in Nat \ {0} /\ MaxExtra \in Nat /\ MaxErrors \in Nat
BY SymbolAssumption

\* Every step keeps the symbols in entries that were allocated (makesym).
LEMMA NextAllocated ==
  ASSUME TableInv, [Next]_vars, EntriesAllocated
  PROVE  EntriesAllocated'
<1> USE DEF TableInv
<1>1. /\ total_symbols \in Nat /\ extra_sym_cnt \in Nat /\ linker_errors \in Nat
      /\ linker_errors' \in Nat /\ linker_errors' >= linker_errors
      /\ pc = "exit" => pc' = "exit"
  BY ErrorsGrow DEF TypeOK, vars
<1>2. CASE EnterSymbol
  <2> DEFINE room == TableSize + extra_sym_cnt * ExtraSize
  <2>1. /\ total_symbols' = total_symbols + 1
        /\ extra_sym_cnt' = IF total_symbols >= room THEN extra_sym_cnt + 1 ELSE extra_sym_cnt
        /\ IF Overflows THEN LinkerError ELSE NoError
    BY <1>2 DEF EnterSymbol, NewSymbol, GrowTable
  <2>2. room \in Nat /\ TableSize + (extra_sym_cnt + 1) * ExtraSize = room + ExtraSize
    BY <1>1, Sizes
  <2>3. total_symbols <= room
    BY DEF EntriesAllocated
  <2>4. CASE total_symbols >= room
    <3>1. extra_sym_cnt' = extra_sym_cnt + 1
      BY <2>1, <2>4
    <3>2. total_symbols' <= TableSize + extra_sym_cnt' * ExtraSize
      <4>1. TableSize + extra_sym_cnt' * ExtraSize = room + ExtraSize
        BY <2>2, <3>1
      <4> HIDE DEF room
      <4> QED
        BY <1>1, <2>1, <2>2, <2>3, <4>1, Sizes
    <3>3. ASSUME extra_sym_cnt' > MaxExtra PROVE linker_errors' > 0 \/ pc' = "exit"
      <4>1. extra_sym_cnt >= MaxExtra
        BY <1>1, <3>1, <3>3, Sizes
      <4>2. Overflows
        BY <2>4, <4>1 DEF Overflows
      <4> QED
        BY <1>1, <2>1, <4>2 DEF LinkerError
    <3> QED
      BY <3>2, <3>3 DEF EntriesAllocated
  <2>5. CASE ~ (total_symbols >= room)
    <3>1. extra_sym_cnt' = extra_sym_cnt
      BY <2>1, <2>5
    <3>2. total_symbols' <= TableSize + extra_sym_cnt' * ExtraSize
      <4>1. TableSize + extra_sym_cnt' * ExtraSize = room
        BY <3>1
      <4> HIDE DEF room
      <4> QED
        BY <1>1, <2>1, <2>2, <2>5, <4>1
    <3> QED
      BY <1>1, <3>1, <3>2 DEF EntriesAllocated
  <2> QED
    BY <2>4, <2>5
<1>3. CASE UNCHANGED <<total_symbols, extra_sym_cnt>>
  BY <1>1, <1>3 DEF EntriesAllocated
<1> QED
  BY <1>2, <1>3, TableSteps DEF MergeEntry, MergeSymbol

\* makesym has an entry for every symbol it makes; MAX_EXTRA blocks are exceeded
\* only with the overflow reported.
THEOREM Allocated == Spec => []EntriesAllocated
<1>1. Init => EntriesAllocated
  BY Sizes DEF Init, EntriesAllocated
<1> QED
  BY <1>1, InitTable, NextTable, NextAllocated, PTL DEF Spec

-----------------------------------------------------------------------------
(* What the table says of the files that were read.                        *)

EntryStep == SkipEntry \/ EnterSymbol \/ MergeEntry

\* Entries are of files; all those of an earlier file are read.
LEMMA ReadFiles ==
  ASSUME TypeOK, Control
  PROVE  /\ Len(input_file_list) \in Nat
         /\ \A i : \A x : EntryRead(i, x) =>
              /\ i \in 1 .. (Len(input_file_list) + 1) /\ FileAt(i) \in File
              /\ \A k \in 1 .. (i - 1) : \A y : EntryRead(k, y)
         /\ pc # "symbols" => \A i : \A x : EntryRead(i, x) <=> i \in 1 .. Len(input_file_list)
         /\ \A i \in 1 .. Len(input_file_list) :
              FileAt(i) = input_file_list[i] /\ \A x : EntryRead(i, x)
<1>1. Len(input_file_list) \in Nat
  BY DEF TypeOK
<1>2. \A i \in 1 .. Len(input_file_list) : FileAt(i) = input_file_list[i] /\ FileAt(i) \in File
  BY <1>1 DEF FileAt, TypeOK
<1>3. FileAt(Len(input_file_list) + 1) = file /\ (pc = "symbols" => file \in File)
  BY <1>1 DEF FileAt, Control
<1> QED
  BY <1>1, <1>2, <1>3 DEF EntryRead

\* A step that processes no entry leaves what was read as it was.
LEMMA ReadSame ==
  ASSUME TableInv, [Next]_vars, ~ EntryStep, Live'
  PROVE  /\ Live
         /\ \A i : \A x \in Name :
              /\ EntryRead(i, x)' <=> EntryRead(i, x)
              /\ EntryRead(i, x) => FileAt(i)' = FileAt(i) /\ Says(i, x)' = Says(i, x)
<1> USE DEF TableInv
<1> DEFINE L == Len(input_file_list)
<1>1. L \in Nat /\ n \in 1 .. (NName + 1) /\ NName \in Nat /\ Name = 1 .. NName
  BY Ranges DEF TypeOK, Name
<1>2. Live
  BY ErrorsGrow DEF Live, vars
<1>3. content' = content
  BY DEF Next, vars, inputs, EntryStep, ObjectFile, EndLoad, ArchiveFile, SearchArchive, EndArchive,
     DirectoryEntry, EndDirectory, EndPass1
<1>4. CASE EndLoad
  <2>1. /\ pc = "symbols" /\ n > NName /\ pc' # "symbols" /\ file' = file
        /\ input_file_list' = Append(input_file_list, file)
    BY <1>4 DEF EndLoad
  <2>2. /\ Len(input_file_list') = L + 1 /\ input_file_list'[L + 1] = file
        /\ \A i \in 1 .. L : input_file_list'[i] = input_file_list[i]
    BY <2>1 DEF TypeOK, Control
  <2>3. \A i : \A x \in Name : EntryRead(i, x) <=> i \in 1 .. (L + 1)
    BY <1>1, <2>1 DEF EntryRead
  <2>4. \A i : \A x \in Name : EntryRead(i, x)' <=> i \in 1 .. (L + 1)
    BY <1>1, <2>1, <2>2 DEF EntryRead
  <2>5. \A i \in 1 .. (L + 1) : FileAt(i)' = FileAt(i)
    BY <1>1, <2>1, <2>2 DEF FileAt
  <2> QED
    BY <1>2, <1>3, <2>3, <2>4, <2>5 DEF Says
<1>5. CASE ~ EndLoad
  <2>1. /\ input_file_list' = input_file_list
        /\ \/ UNCHANGED <<pc, file, n>>
           \/ pc # "symbols" /\ n' = 1
           \/ pc # "symbols" /\ pc' # "symbols"
    BY <1>5 DEF Next, vars, EntryStep, ObjectFile, ArchiveFile, SearchArchive, EndArchive,
       DirectoryEntry, EndDirectory, EndPass1, StartLoad
  <2>2. \A i : \A x \in Name : EntryRead(i, x)' <=> EntryRead(i, x)
    BY <1>1, <2>1 DEF EntryRead
  <2>3. ASSUME NEW i, NEW x \in Name, EntryRead(i, x) PROVE FileAt(i)' = FileAt(i)
    <3>1. i \in 1 .. L \/ (i = L + 1 /\ pc = "symbols")
      BY <1>1, <2>3 DEF EntryRead
    <3> QED
      BY <1>1, <2>1, <3>1 DEF FileAt
  <2> QED
    BY <1>2, <1>3, <2>2, <2>3 DEF Says
<1> QED
  BY <1>4, <1>5

\* One that processes an entry adds it.
LEMMA ReadMore ==
  ASSUME TableInv, EntryStep, Live'
  PROVE  /\ Live /\ pc = "symbols" /\ n \in Name /\ ~ EntryRead(Len(input_file_list) + 1, n)
         /\ Says(Len(input_file_list) + 1, n) = content[file][n]
         /\ FileAt(Len(input_file_list) + 1) = file
         /\ UNCHANGED <<content, rejected, file, input_file_list>>
         /\ \A i : FileAt(i)' = FileAt(i) /\ \A x : Says(i, x)' = Says(i, x)
         /\ \A i : \A x \in Name :
              EntryRead(i, x)' <=> EntryRead(i, x) \/ (i = Len(input_file_list) + 1 /\ x = n)
<1> USE DEF TableInv
<1> DEFINE L == Len(input_file_list)
<1>1. L \in Nat /\ n \in 1 .. (NName + 1) /\ NName \in Nat /\ Name = 1 .. NName
  BY Ranges DEF TypeOK, Name
<1>2. /\ pc = "symbols" /\ n \in Name /\ n' = n + 1
      /\ UNCHANGED <<content, rejected, file, input_file_list>>
  BY DEF EntryStep, SkipEntry, EnterSymbol, MergeEntry, inputs
<1>3. pc' = "symbols"
  BY <1>2 DEF Live, EntryStep, SkipEntry, EnterSymbol, MergeEntry, LinkerError, NoError, UserError
<1>4. \A i : FileAt(i)' = FileAt(i) /\ \A x : Says(i, x)' = Says(i, x)
  BY <1>2 DEF FileAt, Says
<1>5. FileAt(L + 1) = file
  BY <1>1 DEF FileAt
<1>6. ~ EntryRead(L + 1, n)
  BY <1>1 DEF EntryRead
<1>7. ASSUME NEW i, NEW x \in Name
      PROVE  EntryRead(i, x)' <=> EntryRead(i, x) \/ (i = L + 1 /\ x = n)
  <2>1. EntryRead(i, x)' <=> i \in 1 .. (L + 1) /\ (i = L + 1 => x < n + 1)
    BY <1>2, <1>3 DEF EntryRead
  <2>2. EntryRead(i, x) <=> i \in 1 .. (L + 1) /\ (i = L + 1 => x < n)
    BY <1>2 DEF EntryRead
  <2> QED
    BY <1>1, <2>1, <2>2
<1> QED
  BY <1>2, <1>4, <1>5, <1>6, <1>7 DEF Live, Says

\* Where the table and what was read stay, what is known stays.
LEMMA KeptSame ==
  ASSUME TableInv, [Next]_vars, ~ EntryStep, Live', Kept
  PROVE  Kept'
<1> USE DEF TableInv
<1> DEFINE L == Len(input_file_list)
<1>1. UNCHANGED <<name, kind, input_sect>> /\ Symbol' = Symbol /\ rejected' = rejected
  <2>1. Next \/ UNCHANGED vars
    OBVIOUS
  <2>2. UNCHANGED <<name, kind, input_sect, total_symbols, rejected>>
    BY <2>1 DEF Next, vars, table, inputs, EntryStep, ObjectFile, EndLoad, ArchiveFile, SearchArchive,
       EndArchive, DirectoryEntry, EndDirectory, EndPass1
  <2> QED
    BY <2>2 DEF Symbol
<1>2. /\ \A i : \A x \in Name :
           /\ EntryRead(i, x)' <=> EntryRead(i, x)
           /\ EntryRead(i, x) => FileAt(i)' = FileAt(i) /\ Says(i, x)' = Says(i, x)
      /\ Live
  BY ReadSame
<1>3. /\ L \in Nat
      /\ \A i : \A x : EntryRead(i, x) =>
           /\ i \in 1 .. (L + 1) /\ \A k \in 1 .. (i - 1) : \A y : EntryRead(k, y)
  BY ReadFiles
<1>4. \A i : \A x : EntryRead(i, x)' => i \in 1 .. (Len(input_file_list)' + 1)
  BY DEF EntryRead
<1>5. \A i : \A x \in Name : EntryRead(i, x) => (NotAbsBefore(i, x)' <=> NotAbsBefore(i, x))
  BY <1>2, <1>3 DEF NotAbsBefore
<1>6. \A s \in Symbol : name[s] \in Name
  BY DEF SymbolsEntered
<1>7. user_errors' \in Nat /\ user_errors \in Nat /\ user_errors' >= user_errors
      /\ linker_errors' \in Nat /\ linker_errors \in Nat /\ linker_errors' >= linker_errors
  BY ErrorsGrow DEF TypeOK
<1>8. DefinitionsKept'
  BY <1>1, <1>2, <1>3 DEF DefinitionsKept, Kept
<1>9. SectionsKept'
  BY <1>1, <1>2, <1>3, <1>5 DEF SectionsKept, Kept
<1>10. AbsFromFile'
  BY <1>1, <1>2, <1>4, <1>6 DEF AbsFromFile, Kept
<1>11. DuplicatesCounted'
  <2>1. ASSUME NEW i, NEW j, NEW x \in Name, i < j, EntryRead(i, x)', EntryRead(j, x)',
               Says(i, x)' = "section", Says(j, x)' \in Defining, NotAbsBefore(i, x)'
        PROVE  user_errors' > 0
    <3>1. /\ EntryRead(i, x) /\ EntryRead(j, x) /\ Says(i, x) = "section"
          /\ Says(j, x) \in Defining /\ NotAbsBefore(i, x)
          /\ i \in 1 .. (L + 1) /\ j \in 1 .. (L + 1)
      BY <1>2, <1>3, <1>5, <2>1
    <3>2. user_errors > 0
      BY <2>1, <3>1 DEF Kept, DuplicatesCounted
    <3> QED
      BY <1>7, <3>2
  <2> QED
    BY <2>1 DEF DuplicatesCounted
<1>12. SectionsKnown'
  <2>1. ASSUME NEW s \in Symbol, kind'[s] = "section", linker_errors' = 0
        PROVE  SectionKnown(s)'
    <3>1. SectionKnown(s)
      BY <1>1, <1>7, <2>1 DEF Kept, SectionsKnown
    <3>2. PICK i \in 1 .. (L + 1) :
            /\ EntryRead(i, name[s]) /\ Says(i, name[s]) = "section"
            /\ FileAt(i) = input_sect[s] /\ FileAt(i) \notin rejected
      BY <3>1 DEF SectionKnown
    <3>3. /\ EntryRead(i, name[s])' /\ Says(i, name[s])' = "section"
          /\ FileAt(i)' = input_sect'[s] /\ FileAt(i)' \notin rejected'
      BY <1>1, <1>2, <1>6, <3>2
    <3> QED
      BY <1>1, <1>4, <3>3 DEF SectionKnown
  <2> QED
    BY <1>1, <2>1 DEF SectionsKnown
<1> QED
  BY <1>8, <1>9, <1>10, <1>11, <1>12 DEF Kept

\* The entries of a file: none, a new name, a known one.
LEMMA KeptEntry ==
  ASSUME TableInv, EntryStep, Live', Kept, RejectedCounted
  PROVE  Kept'
<1> USE DEF TableInv
<1> DEFINE L == Len(input_file_list)
           k == content[file][n]
<1>1. /\ Live /\ pc = "symbols" /\ n \in Name /\ ~ EntryRead(L + 1, n)
      /\ Says(L + 1, n) = k /\ FileAt(L + 1) = file
      /\ UNCHANGED <<content, rejected, file, input_file_list>>
      /\ \A i : FileAt(i)' = FileAt(i) /\ \A x : Says(i, x)' = Says(i, x)
      /\ \A i : \A x \in Name : EntryRead(i, x)' <=> EntryRead(i, x) \/ (i = L + 1 /\ x = n)
  BY ReadMore
<1>2. /\ L \in Nat
      /\ \A i : \A x : EntryRead(i, x) =>
           /\ i \in 1 .. (L + 1) /\ \A j \in 1 .. (i - 1) : \A y : EntryRead(j, y)
      /\ \A i \in 1 .. L : \A x : EntryRead(i, x)
  BY ReadFiles
<1>3. /\ \A i : \A x : EntryRead(i, x)' => i \in 1 .. (L + 1)
      /\ \A i : \A x : NotAbsBefore(i, x)' <=> NotAbsBefore(i, x)
  BY <1>1 DEF NotAbsBefore, EntryRead
<1>4. [Next]_vars
  BY DEF EntryStep, Next
<1>5. /\ user_errors' \in Nat /\ user_errors \in Nat /\ user_errors' >= user_errors
      /\ linker_errors' \in Nat /\ linker_errors \in Nat /\ linker_errors' >= linker_errors
  BY <1>4, ErrorsGrow DEF TypeOK
<1>6. /\ \A s \in Symbol : /\ s \in Symbol' /\ name'[s] = name[s] /\ name[s] \in Name
                           /\ kind[s] \in Defining => kind'[s] = kind[s]
      /\ Symbol \subseteq Id
  BY <1>4, DefinitionStays, SymbolsAreIds DEF SymbolsEntered
<1>7. \A s \in Symbol : name[s] = n => Found(n) = s
  BY <1>1, FoundSound
<1>8. SectionOf = NIL => linker_errors > 0
  BY <1>1, Ranges DEF SectionOf, RejectedCounted, Control
<1>9. SectionOf # NIL => SectionOf = file /\ file \notin rejected
  BY DEF SectionOf
<1> HIDE DEF k
\* What the step does with the entry.
<1>10. \/ SkipEntry /\ k = "none" /\ UNCHANGED <<name, kind, input_sect>> /\ Symbol' = Symbol
       \/ \E s : /\ EnterSymbol /\ Found(n) = NIL
                 /\ s \notin Symbol /\ Symbol' = Symbol \cup {s} /\ name'[s] = n /\ kind'[s] = k
                 /\ k = "section" => input_sect'[s] = SectionOf
                 /\ \A t \in Symbol : /\ kind'[t] = kind[t] /\ input_sect'[t] = input_sect[t]
       \/ \E s \in Symbol :
            /\ MergeEntry /\ s = Found(n) /\ name[s] = n /\ Symbol' = Symbol
            /\ k \in Defining => kind'[s] \in Defining
            /\ k \in Defining /\ kind[s] \notin Defining => kind'[s] = k
            /\ ~ (k \in Defining /\ kind[s] \notin Defining) => kind'[s] = kind[s]
            /\ input_sect'[s] = IF k = "section" THEN SectionOf ELSE input_sect[s]
            /\ Duplicate(s, k) => user_errors' > 0
            /\ \A t \in Symbol : t # s => kind'[t] = kind[t] /\ input_sect'[t] = input_sect[t]
  <2>1. CASE SkipEntry
    BY <2>1 DEF SkipEntry, table, Symbol, k
  <2>2. CASE EnterSymbol
    <3> DEFINE s == total_symbols + 1
    <3>1. Found(n) = NIL /\ NewSymbol(n, k)
      BY <2>2 DEF EnterSymbol, k
    <3>2. s \in Id /\ s \notin Symbol /\ Symbol' = Symbol \cup {s}
      BY <1>1, <3>1, NamesFit DEF NewSymbol, Symbol, TypeOK
    <3>3. /\ name'[s] = n /\ kind'[s] = k
          /\ k = "section" => input_sect'[s] = SectionOf
          /\ \A t \in Symbol : /\ kind'[t] = kind[t] /\ input_sect'[t] = input_sect[t]
      BY <1>6, <3>1, <3>2 DEF NewSymbol, TypeOK
    <3> HIDE DEF s
    <3> QED
      BY <2>2, <3>1, <3>2, <3>3
  <2>3. CASE MergeEntry
    <3> DEFINE s == Found(n)
    <3>1. s # NIL /\ MergeSymbol(s, n, k)
      BY <2>3 DEF MergeEntry, k
    <3>2. s \in Symbol /\ name[s] = n /\ s \in Id
      BY <1>1, <1>6, <3>1, FoundSound
    <3>3. Duplicate(s, k) => user_errors' > 0
      <4>1. ASSUME Duplicate(s, k) PROVE user_errors' = user_errors + 1
        BY <2>3, <4>1 DEF MergeEntry, UserError, Live, k
      <4> QED
        BY <1>5, <4>1
    <3> HIDE DEF s
    <3>4. Symbol' = Symbol
      BY <3>1 DEF MergeSymbol, Symbol
    <3>5. /\ k \in Defining => kind'[s] \in Defining
          /\ k \in Defining /\ kind[s] \notin Defining => kind'[s] = k
          /\ ~ (k \in Defining /\ kind[s] \notin Defining) => kind'[s] = kind[s]
          /\ input_sect'[s] = IF k = "section" THEN SectionOf ELSE input_sect[s]
          /\ \A t \in Symbol : t # s => kind'[t] = kind[t] /\ input_sect'[t] = input_sect[t]
      BY <1>6, <3>1, <3>2 DEF MergeSymbol, TypeOK
    <3> QED
      BY <2>3, <3>2, <3>3, <3>4, <3>5 DEF s
  <2> QED
    BY <2>1, <2>2, <2>3 DEF EntryStep
<1>11. DefinitionsKept'
  <2>1. SUFFICES ASSUME NEW i, NEW x \in Name, EntryRead(i, x)', Says(i, x)' \in Defining
                 PROVE  \E s \in Symbol' : name'[s] = x /\ kind'[s] \in Defining
    BY DEF DefinitionsKept
  <2>2. CASE EntryRead(i, x)
    <3>1. PICK s \in Symbol : name[s] = x /\ kind[s] \in Defining
      BY <1>1, <1>2, <2>1, <2>2 DEF Kept, DefinitionsKept
    <3> QED
      BY <1>6, <3>1
  <2>3. CASE i = L + 1 /\ x = n
    <3>1. k \in Defining /\ k # "none"
      BY <1>1, <2>1, <2>3 DEF Defining
    <3> QED
      BY <1>6, <1>10, <2>3, <3>1
  <2> QED
    BY <1>1, <2>1, <2>2, <2>3
<1>12. SectionsKept'
  <2>1. SUFFICES ASSUME NEW i, NEW x \in Name, EntryRead(i, x)', Says(i, x)' = "section",
                        NotAbsBefore(i, x)'
                 PROVE  \E s \in Symbol' : name'[s] = x /\ kind'[s] = "section"
    BY DEF SectionsKept
  <2>2. CASE EntryRead(i, x)
    <3>1. PICK s \in Symbol : name[s] = x /\ kind[s] = "section"
      BY <1>1, <1>2, <1>3, <2>1, <2>2 DEF Kept, SectionsKept
    <3> QED
      BY <1>6, <3>1 DEF Defining
  <2>3. CASE i = L + 1 /\ x = n
    <3>1. k = "section" /\ k \in Defining /\ NotAbsBefore(L + 1, n)
      BY <1>1, <1>3, <2>1, <2>3 DEF Defining
    <3>2. ASSUME NEW s \in Symbol, name[s] = n, kind[s] = "abs" PROVE FALSE
      <4>1. PICK j \in 1 .. (L + 1) : EntryRead(j, n) /\ Says(j, n) = "abs"
        BY <3>2 DEF Kept, AbsFromFile
      <4>2. j \in 1 .. L
        BY <1>1, <1>2, <4>1
      <4> QED
        BY <1>2, <3>1, <4>1, <4>2 DEF NotAbsBefore
    <3>3. ASSUME NEW s \in Symbol, name[s] = n, kind[s] \in Defining PROVE kind'[s] = "section"
      BY <1>6, <3>2, <3>3 DEF Defining
    <3> QED
      BY <1>6, <1>10, <2>3, <3>1, <3>3
  <2> QED
    BY <1>1, <2>1, <2>2, <2>3
<1>13. AbsFromFile'
  <2>1. SUFFICES ASSUME NEW s \in Symbol', kind'[s] = "abs", NEW x, x = name'[s]
                 PROVE  \E i \in 1 .. (L + 1) : EntryRead(i, x)' /\ Says(i, x)' = "abs"
    BY <1>1 DEF AbsFromFile
  <2>2. CASE s \in Symbol /\ kind[s] = "abs"
    <3>1. PICK i \in 1 .. (L + 1) : EntryRead(i, name[s]) /\ Says(i, name[s]) = "abs"
      BY <2>2 DEF Kept, AbsFromFile
    <3>2. x = name[s] /\ x \in Name
      BY <1>6, <2>1, <2>2
    <3> QED
      BY <1>1, <3>1, <3>2
  <2>3. CASE ~ (s \in Symbol /\ kind[s] = "abs")
    <3>1. x = n /\ k = "abs"
      BY <1>6, <1>10, <2>1, <2>3
    <3> QED
      BY <1>1, <1>2, <3>1
  <2> QED
    BY <2>2, <2>3
<1>14. DuplicatesCounted'
  <2>1. SUFFICES ASSUME NEW i \in 1 .. (L + 1), NEW j \in 1 .. (L + 1), NEW x \in Name,
                        i < j, EntryRead(i, x)', EntryRead(j, x)',
                        Says(i, x)' = "section", Says(j, x)' \in Defining, NotAbsBefore(i, x)'
                 PROVE  user_errors' > 0
    BY <1>1 DEF DuplicatesCounted
  <2>2. /\ Says(i, x) = "section" /\ Says(j, x) \in Defining /\ NotAbsBefore(i, x)
        /\ i \in 1 .. L /\ EntryRead(i, x)
    BY <1>1, <1>2, <1>3, <2>1
  <2>3. CASE EntryRead(j, x)
    <3>1. user_errors > 0
      BY <2>1, <2>2, <2>3 DEF Kept, DuplicatesCounted
    <3> QED
      BY <1>5, <3>1
  <2>4. CASE j = L + 1 /\ x = n
    <3>1. k \in Defining /\ k # "none"
      BY <1>1, <2>2, <2>4 DEF Defining
    <3>2. PICK s \in Symbol : name[s] = n /\ kind[s] = "section"
      BY <1>2, <2>1, <2>2, <2>4 DEF Kept, SectionsKept
    <3>3. s = Found(n) /\ s # NIL
      BY <1>7, <3>2, SymbolsAreIds
    <3>4. Duplicate(s, k)
      BY <3>1, <3>2, <3>3 DEF Duplicate
    <3> QED
      BY <1>10, <3>1, <3>3, <3>4
  <2> QED
    BY <1>1, <2>1, <2>3, <2>4
<1>15. SectionsKnown'
  <2>1. SUFFICES ASSUME NEW s \in Symbol', kind'[s] = "section", linker_errors' = 0,
                        NEW x, x = name'[s]
                 PROVE  \E i \in 1 .. (L + 1) :
                          /\ EntryRead(i, x)' /\ Says(i, x)' = "section"
                          /\ FileAt(i)' = input_sect'[s] /\ FileAt(i)' \notin rejected'
    BY <1>1 DEF SectionsKnown, SectionKnown
  <2>2. linker_errors = 0
    BY <1>5, <2>1
  <2>3. SectionOf = file /\ file \notin rejected
    BY <1>8, <1>9, <2>2
  <2>4. CASE s \in Symbol /\ kind[s] = "section" /\ input_sect'[s] = input_sect[s]
    <3>1. PICK i \in 1 .. (L + 1) :
            /\ EntryRead(i, name[s]) /\ Says(i, name[s]) = "section"
            /\ FileAt(i) = input_sect[s] /\ FileAt(i) \notin rejected
      BY <2>2, <2>4 DEF Kept, SectionsKnown, SectionKnown
    <3>2. x = name[s] /\ x \in Name
      BY <1>6, <2>1, <2>4
    <3> QED
      BY <1>1, <2>4, <3>1, <3>2
  <2>5. CASE ~ (s \in Symbol /\ kind[s] = "section" /\ input_sect'[s] = input_sect[s])
    <3>1. x = n /\ k = "section" /\ input_sect'[s] = SectionOf
      BY <1>6, <1>10, <2>1, <2>5 DEF Defining
    <3> QED
      BY <1>1, <1>2, <2>3, <3>1
  <2> QED
    BY <2>4, <2>5
<1> QED
  BY <1>11, <1>12, <1>13, <1>14, <1>15 DEF Kept

\* A rejected section is counted before the first symbol of its file.
LEMMA NextRejected ==
  ASSUME TableInv, [Next]_vars, RejectedCounted
  PROVE  RejectedCounted'
<1> USE DEF TableInv
<1>1. SUFFICES ASSUME pc' = "symbols", file' \in rejected' PROVE linker_errors' > 0
  BY DEF RejectedCounted
<1>2. /\ linker_errors \in Nat /\ linker_errors' \in Nat /\ linker_errors' >= linker_errors
      /\ rejected' = rejected
  <2>1. Next \/ UNCHANGED vars
    OBVIOUS
  <2> QED
    BY <2>1, ErrorsGrow DEF TypeOK, Next, vars, inputs, SkipEntry, EnterSymbol, MergeEntry, ObjectFile,
       EndLoad, ArchiveFile, SearchArchive, EndArchive, DirectoryEntry, EndDirectory, EndPass1
<1>3. ASSUME NEW f, StartLoad(f) PROVE linker_errors' > 0
  BY <1>1, <1>2, <1>3 DEF StartLoad
<1>4. CASE pc = "symbols" /\ file' = file
  BY <1>1, <1>2, <1>4 DEF RejectedCounted
<1>5. (pc = "symbols" /\ file' = file) \/ \E f : StartLoad(f)
  BY <1>1 DEF Next, vars, errors, SkipEntry, EnterSymbol, MergeEntry, ObjectFile,
     EndLoad, ArchiveFile, SearchArchive, EndArchive, DirectoryEntry, EndDirectory, EndPass1
<1> QED
  BY <1>3, <1>4, <1>5

\* A duplicate with no first file to name comes after a rejected section.
LEMMA NextCrash ==
  ASSUME TableInv, [Next]_vars, SourceInv
  PROVE  /\ pc' = "crash" => linker_errors' > 0
         /\ pc' = "pass2" => user_errors' = 0 /\ linker_errors' = 0
<1> USE DEF TableInv
<1>1. user_errors \in Nat /\ linker_errors \in Nat
  BY DEF TypeOK
<1>2. CASE MergeEntry /\ pc' = "crash"
  <2> DEFINE s == Found(n)
             k == content[file][n]
  <2>1. /\ pc = "symbols" /\ n \in Name /\ s # NIL /\ Duplicate(s, k)
        /\ input_sect[s] = NIL /\ linker_errors' = linker_errors
    BY <1>2 DEF MergeEntry, NoError, UserError, errors
  <2>2. s \in Symbol /\ kind[s] = "section"
    BY <2>1, FoundSound DEF Duplicate
  <2> HIDE DEF s
  <2>3. SUFFICES ASSUME linker_errors = 0 PROVE FALSE
    BY <1>1, <1>2, <2>1
  <2>4. PICK i \in 1 .. (Len(input_file_list) + 1) :
          EntryRead(i, name[s]) /\ FileAt(i) = input_sect[s]
    BY <2>1, <2>2, <2>3 DEF SourceInv, Live, Kept, SectionsKnown, SectionKnown
  <2> QED
    BY <2>1, <2>4, ReadFiles, Ranges
<1>3. CASE EndPass1
  BY <1>1, <1>3 DEF EndPass1, errors
<1>4. CASE UNCHANGED <<pc, errors>>
  BY <1>4 DEF SourceInv, errors
<1>5. \/ MergeEntry /\ pc' = "crash"
      \/ EndPass1
      \/ UNCHANGED <<pc, errors>>
      \/ pc' \notin {"crash", "pass2"}
  BY DEF Next, vars, errors, SkipEntry, EnterSymbol, LinkerError, NoError, MergeEntry, UserError, ObjectFile,
     EndLoad, ArchiveFile, SearchArchive, EndArchive, DirectoryEntry, EndDirectory, StartLoad
<1> QED
  BY <1>2, <1>3, <1>4, <1>5

\* A member is loaded for a symbol that is undefined, and what was loaded has
\* defined its symbols.
LEMMA NextLoaded ==
  ASSUME TableInv, [Next]_vars, SourceInv
  PROVE  LoadedOnce'
<1> USE DEF TableInv
<1> DEFINE L == Len(input_file_list)
<1>1. /\ L \in Nat /\ DOMAIN input_file_list = 1 .. L
      /\ \A i \in 1 .. L : FileAt(i) = input_file_list[i] /\ \A x : EntryRead(i, x)
  BY ReadFiles DEF TypeOK
<1>2. CASE EndLoad
  <2>1. /\ pc = "symbols" /\ pc' # "symbols"
        /\ input_file_list' = Append(input_file_list, file)
    BY <1>2 DEF EndLoad
  <2>2. file \notin Loaded
    BY <2>1 DEF SourceInv, LoadedOnce
  <2>3. /\ DOMAIN input_file_list' = 1 .. (L + 1) /\ input_file_list'[L + 1] = file
        /\ \A i \in 1 .. L : input_file_list'[i] = input_file_list[i]
    BY <1>1, <2>1 DEF TypeOK, Control
  <2>4. \A i, j \in 1 .. (L + 1) : input_file_list'[i] = input_file_list'[j] => i = j
    BY <1>1, <2>2, <2>3 DEF SourceInv, LoadedOnce, Loaded
  <2> QED
    BY <2>1, <2>3, <2>4 DEF LoadedOnce
<1>3. CASE input_file_list' = input_file_list
  <2>1. Loaded' = Loaded
    BY <1>3 DEF Loaded
  <2>2. ASSUME pc' = "symbols" PROVE file' \notin Loaded
    <3>1. CASE pc = "symbols" /\ file' = file
      BY <3>1 DEF SourceInv, LoadedOnce
    <3>2. CASE ObjectFile /\ pc # "symbols"
      BY <2>2, <3>2 DEF ObjectFile, StartLoad
    <3>3. CASE DirectoryEntry
      <4> DEFINE x == Entry(dir).name
                 f == Entry(dir).member
      <4>1. /\ pc = "directory" /\ dir \in 1 .. DirLength /\ Wanted(dir) /\ file' = f
        BY <2>2, <3>3 DEF DirectoryEntry, StartLoad
      <4>2. /\ x \in Name /\ content[f][x] \in Defining
            /\ Found(x) # NIL /\ kind[Found(x)] = "undef"
        BY <4>1, EntriesInRange DEF Control, Wanted, Listed, UndefinedKind
      <4>3. SUFFICES ASSUME NEW i \in 1 .. L, input_file_list[i] = f PROVE FALSE
        BY <4>1 DEF Loaded
      <4> HIDE DEF x, f
      <4>4. EntryRead(i, x) /\ Says(i, x) \in Defining
        BY <1>1, <4>2, <4>3 DEF Says
      <4>5. PICK s \in Symbol : name[s] = x /\ kind[s] \in Defining
        BY <1>1, <4>1, <4>2, <4>4 DEF SourceInv, Live, Kept, DefinitionsKept
      <4>6. s = Found(x)
        BY <4>2, <4>5, FoundSound
      <4> QED
        BY <4>2, <4>5, <4>6 DEF Defining
    <3>4. (pc = "symbols" /\ file' = file) \/ (ObjectFile /\ pc # "symbols") \/ DirectoryEntry
      BY <2>2 DEF Next, vars, SkipEntry, EnterSymbol, MergeEntry, ObjectFile,
         EndLoad, ArchiveFile, SearchArchive, EndArchive, EndDirectory, EndPass1
    <3> QED
      BY <3>1, <3>2, <3>3, <3>4
  <2> QED
    BY <1>3, <2>1, <2>2 DEF SourceInv, LoadedOnce
<1> QED
  BY <1>2, <1>3 DEF Next, vars, SkipEntry, EnterSymbol, MergeEntry, ObjectFile, ArchiveFile,
     SearchArchive, EndArchive, DirectoryEntry, EndDirectory, EndPass1

\* No symbol has a kind before a file is loaded.
LEMMA InitSource == Init => SourceInv
<1> SUFFICES ASSUME Init PROVE SourceInv
  OBVIOUS
<1>1. Symbol = {} /\ pc = "file" /\ Len(input_file_list) = 0 /\ DOMAIN input_file_list = {}
  BY DEF Init, Symbol
<1>2. \A i : \A x : ~ EntryRead(i, x)
  BY <1>1 DEF EntryRead
<1>3. Kept
  BY <1>1, <1>2 DEF Kept, DefinitionsKept, SectionsKept, AbsFromFile, DuplicatesCounted, SectionsKnown
<1>4. LoadedOnce /\ RejectedCounted
  BY <1>1 DEF LoadedOnce, RejectedCounted
<1> QED
  BY <1>1, <1>3, <1>4 DEF SourceInv

\* Every step keeps the sources of kinds and sections.
LEMMA NextSource ==
  ASSUME TableInv, [Next]_vars, SourceInv
  PROVE  SourceInv'
<1>1. RejectedCounted'
  BY NextRejected DEF SourceInv
<1>2. ASSUME Live' PROVE Kept'
  <2>1. CASE EntryStep
    <3>1. Live
      BY <1>2, <2>1, ReadMore
    <3> QED
      BY <1>2, <2>1, <3>1, KeptEntry DEF SourceInv
  <2>2. CASE ~ EntryStep
    <3>1. Live
      BY <1>2, <2>2, ReadSame
    <3> QED
      BY <1>2, <2>2, <3>1, KeptSame DEF SourceInv
  <2> QED
    BY <2>1, <2>2
<1> QED
  BY <1>1, <1>2, NextCrash, NextLoaded DEF SourceInv

\* They are known throughout the link.
LEMMA SourceAlways == Spec => [](TableInv /\ SourceInv)
BY InitTable, NextTable, InitSource, NextSource, PTL DEF Spec

\* No object file or archive member is bound twice, however often the command line
\* and the passes over an archive come by it.
THEOREM LoadOnce == Spec => []LoadedOnce
<1>1. SourceInv => LoadedOnce
  BY DEF SourceInv
<1> QED
  BY <1>1, SourceAlways, PTL

\* Pass 2 is not reached with a symbol that two files define, the first of them in
\* a section.
THEOREM DuplicatesStop == Spec => []DuplicatesStopLink
<1>1. TableInv /\ SourceInv => DuplicatesStopLink
  <2> SUFFICES ASSUME TableInv, SourceInv, pc = "pass2",
                      NEW i \in DOMAIN input_file_list, NEW j \in DOMAIN input_file_list,
                      NEW x \in Name, i < j,
                      content[input_file_list[i]][x] = "section",
                      content[input_file_list[j]][x] \in Defining,
                      ~ \E k \in 1 .. (i - 1) : content[input_file_list[k]][x] = "abs"
               PROVE  FALSE
    BY DEF DuplicatesStopLink
  <2>1. /\ Len(input_file_list) \in Nat /\ DOMAIN input_file_list = 1 .. Len(input_file_list)
        /\ \A k \in 1 .. Len(input_file_list) :
             FileAt(k) = input_file_list[k] /\ \A y : EntryRead(k, y)
    BY ReadFiles DEF TableInv, TypeOK
  <2>2. /\ EntryRead(i, x) /\ EntryRead(j, x) /\ Says(i, x) = "section"
        /\ Says(j, x) \in Defining /\ NotAbsBefore(i, x)
    BY <2>1 DEF Says, NotAbsBefore
  <2>3. user_errors > 0
    BY <2>1, <2>2 DEF SourceInv, Live, Kept, DuplicatesCounted
  <2> QED
    BY <2>3 DEF SourceInv
<1> QED
  BY <1>1, SourceAlways, PTL

\* In pass 2 the section of a symbol is one of a file that was loaded, was not left
\* out, and defines the symbol there; process_symbol_table has no duplicate to
\* report without a first file unless a section was rejected before.
THEOREM SectionDefined == Spec => []DefinedHasSection
<1>1. TableInv /\ SourceInv => DefinedHasSection
  <2> SUFFICES ASSUME TableInv, SourceInv PROVE DefinedHasSection
    OBVIOUS
  <2>1. ASSUME pc = "pass2", NEW s \in Symbol, kind[s] = "section"
        PROVE  /\ input_sect[s] \in Loaded \ rejected
               /\ content[input_sect[s]][name[s]] = "section"
    <3>1. SectionKnown(s)
      BY <2>1 DEF SourceInv, Live, Kept, SectionsKnown
    <3>2. PICK i : /\ EntryRead(i, name[s]) /\ Says(i, name[s]) = "section"
                   /\ FileAt(i) = input_sect[s] /\ FileAt(i) \notin rejected
      BY <3>1 DEF SectionKnown
    <3>3. i \in 1 .. Len(input_file_list) /\ FileAt(i) = input_file_list[i]
      BY <2>1, <3>2, ReadFiles DEF TableInv
    <3> QED
      BY <3>2, <3>3 DEF Loaded, Says
  <2> QED
    BY <2>1 DEF DefinedHasSection, SourceInv
<1> QED
  BY <1>1, SourceAlways, PTL

-----------------------------------------------------------------------------
(* The number of unresolved symbols, and the search of an archive.         *)

Undefined == {s \in Symbol : UndefinedKind(kind[s])}

\* The undefined symbols can be counted.
LEMMA UndefinedFinite ==
  ASSUME TypeOK
  PROVE  IsFiniteSet(Undefined) /\ Cardinality(Undefined) \in Nat
<1>1. total_symbols \in Nat
  BY DEF TypeOK
<1>2. IsFiniteSet(Symbol)
  BY <1>1, FS_Interval DEF Symbol
<1>3. Undefined \subseteq Symbol
  BY DEF Undefined
<1> QED
  BY <1>2, <1>3, FS_Subset, FS_CardinalityType

\* There are none at first, and unresolved is 0.
LEMMA InitCount == Init => CountInv
<1> SUFFICES ASSUME Init PROVE CountInv
  OBVIOUS
<1>1. Symbol = {} /\ unresolved = 0
  BY DEF Init, Symbol
<1>2. {s \in Symbol : UndefinedKind(kind[s])} = {}
  BY <1>1
<1> QED
  BY <1>1, <1>2, FS_EmptySet DEF CountInv, UnresolvedCounts

\* Every step keeps unresolved exact, without common symbols.
LEMMA NextCount ==
  ASSUME NoCommon, TableInv, [Next]_vars, CountInv
  PROVE  CountInv'
<1> USE DEF TableInv
<1> DEFINE k == content[file][n]
<1>1. /\ IsFiniteSet(Undefined) /\ Cardinality(Undefined) \in Nat
      /\ unresolved = Cardinality(Undefined)
      /\ \A s \in Symbol : kind[s] # "common"
  BY UndefinedFinite DEF CountInv, UnresolvedCounts, Undefined
<1>2. SUFFICES /\ unresolved' = Cardinality(Undefined')
               /\ \A s \in Symbol' : kind'[s] # "common"
  BY DEF CountInv, UnresolvedCounts, Undefined
<1>3. ASSUME pc = "symbols", n \in Name PROVE k \in Kind /\ k # "common"
  BY <1>3, EntryKind DEF NoCommon, TypeOK
<1>4. CASE EnterSymbol
  <2> DEFINE s == total_symbols + 1
  <2>1. pc = "symbols" /\ n \in Name /\ Found(n) = NIL /\ NewSymbol(n, k)
    BY <1>4 DEF EnterSymbol
  <2>2. s \in Id /\ s \notin Symbol /\ Symbol' = Symbol \cup {s} /\ Symbol \subseteq Id
    BY <2>1, NamesFit, SymbolsAreIds DEF NewSymbol, Symbol, TypeOK
  <2>3. k # "common"
    BY <1>3, <2>1
  <2> HIDE DEF k
  <2>4. /\ kind'[s] = k /\ \A t \in Symbol : kind'[t] = kind[t]
        /\ unresolved' = IF UndefinedKind(k) THEN unresolved + 1 ELSE unresolved
    BY <2>1, <2>2 DEF NewSymbol, TypeOK
  <2> HIDE DEF s
  <2>5. \A t \in Symbol' : kind'[t] # "common"
    BY <1>1, <2>2, <2>3, <2>4
  <2>6. s \notin Undefined
    BY <2>2 DEF Undefined
  <2>7. CASE UndefinedKind(k)
    <3>1. Undefined' = Undefined \cup {s}
      BY <2>2, <2>4, <2>7 DEF Undefined
    <3>2. Cardinality(Undefined \cup {s}) = Cardinality(Undefined) + 1
      BY <1>1, <2>6, FS_AddElement
    <3> QED
      BY <1>1, <2>4, <2>5, <2>7, <3>1, <3>2
  <2>8. CASE ~ UndefinedKind(k)
    <3>1. Undefined' = Undefined
      BY <2>2, <2>4, <2>8 DEF Undefined
    <3> QED
      BY <1>1, <2>4, <2>5, <2>8, <3>1
  <2> QED
    BY <2>7, <2>8
<1>5. CASE MergeEntry
  <2> DEFINE s == Found(n)
  <2>1. pc = "symbols" /\ n \in Name /\ s # NIL /\ MergeSymbol(s, n, k)
    BY <1>5 DEF MergeEntry
  <2>2. s \in Symbol /\ s \in Id
    BY <2>1, FoundSound, SymbolsAreIds
  <2>3. k # "common"
    BY <1>3, <2>1
  <2> HIDE DEF s, k
  <2>4. Symbol' = Symbol /\ Symbol \subseteq Id
    BY <2>1, SymbolsAreIds DEF MergeSymbol, Symbol
  <2>5. CASE k \in Defining /\ kind[s] \notin Defining
    <3>1. unresolved' = unresolved - 1 /\ kind' = [kind EXCEPT ![s] = k]
      BY <2>1, <2>5 DEF MergeSymbol
    <3>2. kind[s] = "undef"
      BY <1>1, <2>2, <2>5 DEF SymbolsEntered, TypeOK, Kind, Defining
    <3>3. kind'[s] = k /\ \A t \in Symbol : t # s => kind'[t] = kind[t]
      BY <2>2, <2>4, <3>1 DEF TypeOK
    <3>4. s \in Undefined /\ ~ UndefinedKind(k)
      BY <2>2, <2>5, <3>2 DEF Undefined, UndefinedKind, Defining
    <3>5. Undefined' = Undefined \ {s}
      BY <2>4, <3>3, <3>4 DEF Undefined
    <3>6. Cardinality(Undefined \ {s}) = Cardinality(Undefined) - 1
      BY <1>1, <3>4, FS_RemoveElement
    <3> QED
      BY <1>1, <2>3, <2>4, <3>1, <3>3, <3>5, <3>6
  <2>6. CASE ~ (k \in Defining /\ kind[s] \notin Defining)
    <3>1. UNCHANGED <<unresolved, kind>>
      BY <2>1, <2>6 DEF MergeSymbol
    <3> QED
      BY <1>1, <2>4, <3>1 DEF Undefined
  <2> QED
    BY <2>5, <2>6
<1>6. CASE UNCHANGED <<kind, total_symbols, unresolved>>
  BY <1>1, <1>6 DEF Undefined, Symbol
<1> QED
  BY <1>4, <1>5, <1>6, TableSteps

\* The loop over an archive stops on the number of symbols a member may define, if
\* no file has a common symbol: that is not counted when it is entered, but is
\* counted down when it is defined.
THEOREM UnresolvedCounted == ASSUME NoCommon PROVE Spec => []UnresolvedCounts
<1>1. CountInv => UnresolvedCounts
  BY DEF CountInv
<1>2. TableInv /\ [Next]_vars /\ CountInv => CountInv'
  BY NextCount
<1> QED
  BY <1>1, <1>2, InitTable, NextTable, InitCount, PTL DEF Spec

\* A member is wanted if the table has the name as undefined, whichever symbol is
\* the head of its chain.
WantedIsUndefined ==
  \A d \in 1 .. DirLength :
    Wanted(d) <=> Listed(d) /\ \E s \in Undefined : name[s] = Entry(d).name

\* A wanted entry of a directory is one whose symbol is undefined.
LEMMA WantedFacts == TableInv /\ arg \in DOMAIN Args => WantedIsUndefined
<1> SUFFICES ASSUME TableInv, arg \in DOMAIN Args, NEW d \in 1 .. DirLength
             PROVE  Wanted(d) <=> Listed(d) /\ \E s \in Undefined : name[s] = Entry(d).name
  BY DEF WantedIsUndefined
<1> DEFINE x == Entry(d).name
<1>1. /\ Found(x) = NIL \/ (Found(x) \in Symbol /\ name[Found(x)] = x)
      /\ \A s \in Symbol : name[s] = x => Found(x) = s
  BY EntriesInRange, FoundSound DEF TableInv
<1>2. NIL \notin Symbol
  BY SymbolsAreIds DEF TableInv
<1> QED
  BY <1>1, <1>2 DEF Wanted, Undefined

\* Moving a head makes no member wanted.
LEMMA WantedStays ==
  ASSUME TableInv, TableInv', arg \in DOMAIN Args, NEW d \in 1 .. DirLength,
         UNCHANGED <<content, arg, name, kind, total_symbols>>
  PROVE  Wanted(d)' <=> Wanted(d)
<1>1. WantedIsUndefined
  BY WantedFacts
<1>2. WantedIsUndefined'
  <2>1. TableInv' /\ (arg \in DOMAIN Args)' => WantedIsUndefined'
    BY WantedFacts, PTL
  <2> QED
    BY <2>1
<1>3. DirLength' = DirLength /\ Entry(d)' = Entry(d) /\ Listed(d)' = Listed(d)
  BY DEF DirLength, Entry, Members, Listed
<1>4. Undefined' = Undefined
  BY DEF Undefined, Symbol
<1> QED
  BY <1>1, <1>2, <1>3, <1>4 DEF WantedIsUndefined

\* Every step keeps what the search of an archive has found out.
LEMMA NextSearch ==
  ASSUME TableInv, TableInv', [Next]_vars, SearchInv
  PROVE  SearchInv'
<1>1. SUFFICES ASSUME ~ found_one', pc' \in {"directory", "archive"}
               PROVE  /\ pc' = "directory" => \A d \in 1 .. DirLength' : d < dir' => ~ Wanted(d)'
                      /\ pc' = "archive" => \A d \in 1 .. DirLength' : ~ Wanted(d)'
  BY DEF SearchInv
<1>2. CASE SearchArchive
  <2>1. dir' = 1 /\ pc' = "directory"
    BY <1>2 DEF SearchArchive
  <2>2. \A d \in 1 .. DirLength' : ~ (d < 1)
    OBVIOUS
  <2> QED
    BY <2>1, <2>2
<1>3. CASE DirectoryEntry
  <2>1. /\ pc = "directory" /\ dir \in 1 .. DirLength /\ ~ Wanted(dir) /\ dir' = dir + 1
        /\ pc' = "directory" /\ ~ found_one
        /\ UNCHANGED <<content, arg, name, kind, total_symbols>>
    BY <1>1, <1>3 DEF DirectoryEntry, StartLoad, inputs
  <2>2. arg \in DOMAIN Args /\ DirLength' = DirLength
    BY <2>1 DEF TableInv, Control, DirLength, Members
  <2>3. \A d \in 1 .. DirLength : d < dir + 1 => ~ Wanted(d)
    BY <1>1, <2>1 DEF SearchInv
  <2>4. \A d \in 1 .. DirLength : Wanted(d)' <=> Wanted(d)
    BY <2>1, <2>2, WantedStays
  <2> QED
    BY <2>1, <2>2, <2>3, <2>4
<1>4. CASE EndDirectory
  <2>1. /\ pc = "directory" /\ dir > DirLength /\ pc' = "archive" /\ ~ found_one
        /\ UNCHANGED <<content, arg, name, kind, total_symbols>>
    BY <1>1, <1>4 DEF EndDirectory, inputs, table
  <2>2. arg \in DOMAIN Args /\ DirLength' = DirLength
    BY <2>1 DEF TableInv, Control, DirLength, Members
  <2>3. dir \in Nat
    BY DEF TableInv, TypeOK
  <2>4. \A d \in 1 .. DirLength : ~ Wanted(d)
    <3>1. DirLength \in Nat
      BY <2>2, MembersAreFiles, Ranges DEF DirLength
    <3> QED
      BY <2>1, <2>3, <3>1 DEF SearchInv
  <2>5. \A d \in 1 .. DirLength : Wanted(d)' <=> Wanted(d)
    BY <2>1, <2>2, WantedStays
  <2> QED
    BY <2>1, <2>2, <2>4, <2>5
<1>5. CASE UNCHANGED vars
  <2>1. /\ ~ found_one /\ UNCHANGED <<pc, dir, content, arg, name, kind, total_symbols>>
    BY <1>1, <1>5 DEF vars, inputs, table
  <2>2. arg \in DOMAIN Args /\ DirLength' = DirLength
    BY <1>1, <2>1 DEF TableInv, Control, DirLength, Members
  <2>3. \A d \in 1 .. DirLength : Wanted(d)' <=> Wanted(d)
    BY <2>1, <2>2, WantedStays
  <2> QED
    BY <1>1, <2>1, <2>2, <2>3 DEF SearchInv
<1>6. SearchArchive \/ DirectoryEntry \/ EndDirectory \/ UNCHANGED vars
  <2>1. ~ (SkipEntry \/ EnterSymbol \/ MergeEntry)
    BY <1>1 DEF SkipEntry, EnterSymbol, MergeEntry, LinkerError, NoError, UserError
  <2>2. ~ (ObjectFile \/ EndLoad \/ ArchiveFile \/ EndArchive \/ EndPass1)
    BY <1>1 DEF ObjectFile, StartLoad, EndLoad, ArchiveFile, EndArchive, EndPass1
  <2> QED
    BY <2>1, <2>2 DEF Next
<1> QED
  BY <1>2, <1>3, <1>4, <1>5, <1>6

\* The search of an archive ends only when no member of it defines a symbol that is
\* still undefined: a pass has loaded nothing, or nothing is undefined.
THEOREM ArchiveDone == ASSUME NoCommon PROVE Spec => []ArchiveExhausted
<1>1. Init => SearchInv
  BY DEF Init, SearchInv
<1>2. TableInv /\ CountInv /\ SearchInv => ArchiveExhausted
  <2> SUFFICES ASSUME TableInv, CountInv, SearchInv, pc = "archive",
                      ~ found_one \/ unresolved = 0, NEW d \in 1 .. DirLength, Wanted(d)
               PROVE  FALSE
    BY DEF ArchiveExhausted
  <2>1. unresolved = 0
    BY DEF SearchInv
  <2>3. \E s : s \in Undefined
    BY WantedFacts DEF WantedIsUndefined, TableInv, Control
  <2>4. IsFiniteSet(Undefined) /\ Cardinality(Undefined) = 0
    BY <2>1, UndefinedFinite DEF TableInv, CountInv, UnresolvedCounts, Undefined
  <2>5. Undefined = {}
    BY <2>4, FS_EmptySet
  <2> QED
    BY <2>3, <2>5
<1>3. TableInv /\ [Next]_vars /\ CountInv => CountInv'
  BY NextCount
<1>4. TableInv /\ TableInv' /\ [Next]_vars /\ SearchInv => SearchInv'
  BY NextSearch
<1> QED
  BY <1>1, <1>2, <1>3, <1>4, InitTable, NextTable, InitCount, PTL DEF Spec
=============================================================================
