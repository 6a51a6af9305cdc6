--------------------------- MODULE OutputSymbols ---------------------------
(***************************************************************************)
(* The symbol table of the executable.  Pass 1 counts what every file will *)
(* write (process_symbol_table), update_symbol_information gives numbers   *)
(* to symbols from these counts, and pass 2 writes the entries             *)
(* (output_local_symbols, output_global_symbols) and whatever refers to a  *)
(* number: slots, tags, ends of functions, the chain of .file entries.     *)
(*                                                                         *)
(* A symbol table is a sequence of entries in which an auxiliary entry is  *)
(* an element of its own: the number of an entry in its file is its place  *)
(* minus one.  Links without a symbol table (sflag) write nothing.         *)
(***************************************************************************)
EXTENDS Integers, Sequences, FiniteSets

CONSTANT Links   \* the sequences of symbol tables that are tried

\* Storage classes as output_local_symbols tells them apart: "var" is C_AUTO, C_MOS
\* and their like, "field" C_FIELD and C_REGPARM, "block" C_FCN and C_BLOCK, "other"
\* what it only copies.  Of the type it looks at two things: whether it is that of
\* a function (fcn), and whether its basic type is an enum, union or struct (agg).
Debug       == {"var", "field", "block", "other"}
SymbolEntry == [class : {"ext", "stat", "file", "tag"} \cup Debug, name : Nat, scnum : Int,
                fcn : BOOLEAN, agg : BOOLEAN, numaux : {0, 1}]
AuxEntry    == [class : {"aux"}, tagndx : Nat, endndx : Nat]

Owner(t, j)    == IF t[j].class = "aux" THEN t[j - 1] ELSE t[j]
Function(e)    == e.class = "ext" /\ e.fcn /\ e.scnum # -1
Unnumbered(e)  == e.class = "ext" /\ ~Function(e)
Begins(t, j)   == j \in DOMAIN t => t[j].class # "aux"

\* What the assembler writes: an auxiliary entry stands behind its symbol.
Table(t) ==
  /\ t \in Seq(SymbolEntry \cup AuxEntry)
  /\ \A j \in DOMAIN t :
       IF t[j].class = "aux"
       THEN j - 1 \in DOMAIN t /\ t[j - 1].class # "aux" /\ t[j - 1].numaux = 1
       ELSE t[j].numaux = 1 => j + 1 \in DOMAIN t /\ t[j + 1].class = "aux"

\* Whose auxiliary entry has a tag, and whose an end.  Elsewhere these fields are the
\* length of a section or dimensions of an array, any numbers at all.
HasTag(e) == e.class \in {"ext", "tag", "var"} \/ (e.class \in {"stat", "field"} /\ e.agg)
HasEnd(e) == e.class \in {"tag", "block"} \/ Function(e) \/ (e.class = "stat" /\ e.fcn)

\* What is named is an entry, and no variable comes before it.  An end is behind
\* its symbol; only members stand under a tag, and no function in a function.
\* A static symbol that is described is in a section.
Described(t, j, aux) ==
  /\ HasTag(t[j]) /\ aux.tagndx # 0 =>
       /\ aux.tagndx + 1 \in DOMAIN t /\ t[aux.tagndx + 1].class = "tag"
       /\ \A i \in 1 .. aux.tagndx : ~Unnumbered(Owner(t, i))
  /\ HasEnd(t[j]) /\ aux.endndx # 0 =>
       /\ aux.endndx \in DOMAIN t /\ Begins(t, aux.endndx + 1)
       /\ \A i \in 1 .. aux.endndx : ~Unnumbered(Owner(t, i))
  /\ t[j].class = "file" => aux.tagndx = 0 /\ aux.endndx = 0
  /\ t[j].class = "tag" => \A i \in (j + 2) .. aux.endndx : Owner(t, i).class \in Debug
  /\ Function(t[j]) => \A i \in (j + 2) .. aux.endndx : Owner(t, i).class \notin {"ext", "file"}
  /\ t[j].class = "tag" \/ (Function(t[j]) /\ aux.endndx # 0) => aux.endndx > j
  /\ t[j].class = "stat" \/ (Unnumbered(t[j]) /\ aux.tagndx # 0) => t[j].scnum > 0

\* A name is defined once; what only refers to it is no function and has no
\* auxiliary entry.
ASSUME LinkAssumption ==
  \A link \in Links :
    /\ link \in Seq(Seq(SymbolEntry \cup AuxEntry)) /\ link # << >>
    /\ \A g \in DOMAIN link :
         /\ Table(link[g])
         /\ \A j \in DOMAIN link[g] : LET e == link[g][j] IN
              /\ e.class # "aux" /\ e.numaux = 1 => Described(link[g], j, link[g][j + 1])
              /\ e.class = "ext" /\ e.scnum = 0 => ~e.fcn /\ e.numaux = 0
              /\ e.class = "ext" /\ e.fcn => e.scnum >= -1
              /\ \A h \in DOMAIN link : \A k \in DOMAIN link[h] : LET d == link[h][k] IN
                   /\ e.class = "ext" /\ e.scnum # 0
                   /\ d.class = "ext" /\ d.scnum # 0 /\ d.name = e.name
                   => h = g /\ k = j

VARIABLES
  pc, f, n,              \* where control is, the file and the entry or symbol
  xflag,                 \* -x: only static and global symbols are kept
  files,                 \* the symbol tables of the input files
  local_syms,            \* entries that a file writes by itself, as counted in pass 1
  table,                 \* the global symbols in the order they were entered
  symbol_index,          \* where the entries of a file begin
  total_output_symbols,
  index,                 \* the number of the next entry
  lastfile, nextfile,
  num_output_syms,
  out,                   \* what was written to the symbol file
  slots,                 \* all slots that were made
  error_level

pass1  == <<local_syms, table>>
update == <<symbol_index, total_output_symbols>>
pass2  == <<lastfile, nextfile, num_output_syms, out, slots, error_level>>
input  == <<xflag, files>>
vars   == <<pc, f, n, input, pass1, update, index, pass2>>

File == DOMAIN files

\* The files are taken one after the other, here and in both passes.
ToNextFile(next) ==
  /\ n' = 1
  /\ IF f + 1 \in File THEN f' = f + 1 /\ UNCHANGED pc ELSE f' = 1 /\ pc' = next

Init ==
  /\ pc = "pass1" /\ f = 1 /\ n = 1
  /\ xflag \in BOOLEAN /\ files \in Links
  /\ local_syms = [g \in File |-> 0] /\ table = <<>>
  /\ symbol_index = [g \in File |-> 0] /\ total_output_symbols = 0
  /\ index = 0 /\ lastfile = -1 /\ nextfile = -1
  /\ num_output_syms = 0 /\ out = <<>> /\ slots = {} /\ error_level = 0

-----------------------------------------------------------------------------
(* syms.c                                                                  *)

Entry == files[f][n]
Aux   == IF Entry.numaux = 0 THEN << >> ELSE << files[f][n + 1] >>

\* The members of a structure are passed over together with its tag.
NextEntry ==
  IF Entry.class = "tag" /\ Aux # << >> THEN Aux[1].endndx + 1 ELSE n + 1 + Entry.numaux

\* MUTANT: what -x leaves out is counted.
CountedUnstripped == IF Unnumbered(Entry) THEN 0 ELSE NextEntry - n

Counted ==
  IF Unnumbered(Entry) \/ (xflag /\ Entry.class \notin {"ext", "stat", "file"})
  THEN 0 ELSE NextEntry - n

NoAux == [class |-> "aux", tagndx |-> 0, endndx |-> 0]

\* makesym, the function's place, and makeaux.
Entered(symbol) ==
  LET merged == IF symbol.scnum = 0 THEN [symbol EXCEPT !.scnum = Entry.scnum] ELSE symbol
      placed == IF Entry.scnum > 0 THEN [merged EXCEPT !.file = f] ELSE merged
      flagged == IF Function(Entry)
                 THEN [placed EXCEPT !.sym_index = local_syms[f], !.local_flag = TRUE] ELSE placed
  IN IF Aux # << >> /\ symbol.numaux = 0
     THEN [flagged EXCEPT !.numaux = 1, !.aux = Aux[1]] ELSE flagged

NewSymbol == [name |-> Entry.name, scnum |-> 0, file |-> 0, numaux |-> 0, aux |-> NoAux,
              local_flag |-> FALSE, sym_index |-> 0]

Known(name) == {k \in DOMAIN table : table[k].name = name}

ProcessEntry ==
  /\ pc = "pass1" /\ n <= Len(files[f])
  /\ local_syms' = [local_syms EXCEPT ![f] = @ + Counted]
  /\ table' = IF Entry.class # "ext" THEN table
              ELSE IF Known(Entry.name) = {} THEN Append(table, Entered(NewSymbol))
              ELSE [k \in DOMAIN table |->
                      IF k \in Known(Entry.name) THEN Entered(table[k]) ELSE table[k]]
  /\ n' = NextEntry
  /\ UNCHANGED <<pc, f, input, update, index, pass2>>

NextFile ==
  /\ pc = "pass1" /\ n > Len(files[f])
  /\ ToNextFile("index")
  /\ UNCHANGED <<input, pass1, update, index, pass2>>

-----------------------------------------------------------------------------
(* update.c                                                                *)

IndexFile ==
  /\ pc = "index"
  /\ symbol_index' = [symbol_index EXCEPT ![f] = index]
  /\ index' = index + local_syms[f]
  /\ ToNextFile("update")
  /\ UNCHANGED <<input, pass1, total_output_symbols, pass2>>

IsLocal(symbol) == symbol.local_flag /\ symbol.scnum > 0

\* MUTANT: a function keeps its place in its own file.
IndexOfNoBase(symbol) == IF IsLocal(symbol) THEN symbol.sym_index ELSE index

IndexOf(symbol) ==
  IF IsLocal(symbol) THEN symbol.sym_index + symbol_index[symbol.file] ELSE index

UpdateSymbol ==
  /\ pc = "update" /\ n \in DOMAIN table
  /\ table' = [table EXCEPT ![n].sym_index = IndexOf(table[n])]
  /\ index' = IF IsLocal(table[n]) THEN index ELSE index + 1 + table[n].numaux
  /\ n' = n + 1
  /\ UNCHANGED <<pc, f, input, local_syms, update, pass2>>

UpdateDone ==
  /\ pc = "update" /\ n \notin DOMAIN table
  /\ total_output_symbols' = index
  /\ pc' = "local" /\ n' = 1 /\ index' = symbol_index[1]
  /\ UNCHANGED <<f, input, pass1, symbol_index, pass2>>

-----------------------------------------------------------------------------
(* output.c                                                                *)

\* What is written: which entry it is, by name if it is global, and the
\* numbers in it.
Of(g, k) == IF files[g][k].class = "ext" THEN <<0, files[g][k].name, "sym">> ELSE <<g, k, "sym">>
Written(of, aux, value) == [of |-> of, tagndx |-> aux.tagndx, endndx |-> aux.endndx, value |-> value]
AuxOf(of) == <<of[1], of[2], "aux">>

Symbol == table[CHOOSE k \in DOMAIN table : table[k].name = Entry.name]
NewSlot(new, err) == [file |-> f, old |-> n, new |-> new, err |-> err]

\* How many entries -x has left out does not matter: it is used without -x only.
NewTag(tagndx) == IF tagndx = 0 \/ xflag THEN 0 ELSE tagndx + symbol_index[f]

NewEnd(endndx, xend) ==
  IF endndx = 0 THEN 0 ELSE IF xflag THEN xend ELSE endndx + symbol_index[f]

Moved(aux, reloc_tag, reloc_end, xend) ==
  [aux EXCEPT !.tagndx = IF reloc_tag THEN NewTag(@) ELSE @,
              !.endndx = IF reloc_end THEN NewEnd(@, xend) ELSE @]

\* MUTANT: what a static symbol is, is not looked at: the length of a section is moved.
RelocTagUntyped(e) == e.class \in {"tag", "var", "field"} \/ (e.class = "stat" /\ e.scnum > 0)

\* For which entries reloc_tag and reloc_end are set.
RelocTag(e) ==
  \/ e.class \in {"tag", "var"}
  \/ e.agg /\ (e.class = "field" \/ (e.class = "stat" /\ e.scnum > 0))

RelocEnd(e) == e.class \in {"tag", "block"} \/ (e.class = "stat" /\ e.scnum > 0 /\ e.fcn)

AtEntry(classes) ==
  /\ pc = "local" /\ n <= Len(files[f])
  /\ Entry.class \in classes

\* C_EXT, a function of this file.
OutputFunction ==
  /\ AtEntry({"ext"}) /\ Symbol.local_flag /\ Entry.scnum > 0
  /\ slots' = slots \cup {NewSlot(Symbol.sym_index, FALSE)}
  /\ out' = out \o << Written(Of(f, n), NoAux, 0) >>
                \o IF Symbol.numaux = 0 THEN << >>
                   ELSE << Written(AuxOf(Of(f, n)), Moved(Symbol.aux, TRUE, TRUE, index + 2), 0) >>
  /\ index' = index + 1 + Entry.numaux
  /\ n' = n + 1 + Entry.numaux
  /\ UNCHANGED <<pc, f, input, pass1, update, lastfile, nextfile, num_output_syms, error_level>>

\* C_EXT, another symbol: a slot, and the tag of its definition.
OutputExternal ==
  /\ AtEntry({"ext"}) /\ ~(Symbol.local_flag /\ Entry.scnum > 0)
  /\ slots' = slots \cup {NewSlot(Symbol.sym_index, Symbol.scnum = 0)}
  /\ error_level' = IF Symbol.scnum = 0 THEN 2 ELSE error_level
  /\ table' = [k \in DOMAIN table |->
                 IF /\ table[k].name = Entry.name /\ Entry.scnum > 0 /\ Aux # << >>
                    /\ table[k].aux.tagndx = Aux[1].tagndx
                 THEN [table[k] EXCEPT !.aux.tagndx = NewTag(@)] ELSE table[k]]
  /\ n' = n + 1 + Entry.numaux
  /\ UNCHANGED <<pc, f, input, local_syms, update, index, lastfile, nextfile, num_output_syms, out>>

\* The other entries but .file: -x leaves out all but static symbols.
OutputLocal ==
  /\ AtEntry({"stat", "tag"} \cup Debug)
  /\ slots' = IF Entry.class = "stat" /\ Entry.scnum > 0
              THEN slots \cup {NewSlot(index, FALSE)} ELSE slots
  /\ IF xflag /\ Entry.class # "stat"
     THEN UNCHANGED <<out, index>>
     ELSE /\ out' = out \o << Written(Of(f, n), NoAux, 0) >>
                        \o IF Aux = << >> THEN << >>
                           ELSE << Written(AuxOf(Of(f, n)),
                                           Moved(Aux[1], RelocTag(Entry), RelocEnd(Entry),
                                                 Aux[1].endndx + index + 2), 0) >>
          /\ index' = index + 1 + Entry.numaux
  /\ n' = n + 1 + Entry.numaux
  /\ UNCHANGED <<pc, f, input, pass1, update, lastfile, nextfile, num_output_syms, error_level>>

\* output_update_file_entry moves back by as many entries as sym_index is away
\* from lastfile, writes, and returns.
UpdateFileEntry(sym_index) ==
  [out EXCEPT ![Len(out) - (sym_index - lastfile) + 1].value = sym_index]

\* MUTANT: it is taken for granted that every file begins with its .file entry.
ChainedFirst == out

\* The entry before gets this number, unless it has it.
Chained == IF lastfile # -1 /\ nextfile # index THEN UpdateFileEntry(index) ELSE out

OutputFileEntry ==
  /\ AtEntry({"file"})
  /\ nextfile' = IF f < Len(files) THEN symbol_index[f + 1] ELSE nextfile
  /\ out' = Chained \o << Written(Of(f, n), NoAux, IF f < Len(files) THEN nextfile' ELSE 0) >>
                    \o [k \in DOMAIN Aux |-> Written(AuxOf(Of(f, n)), NoAux, 0)]
  /\ lastfile' = index
  /\ index' = index + 1 + Entry.numaux
  /\ n' = n + 1 + Entry.numaux
  /\ UNCHANGED <<pc, f, input, pass1, update, num_output_syms, slots, error_level>>

\* Undefined symbols end the link when all files are through.
EndFile ==
  /\ pc = "local" /\ n > Len(files[f])
  /\ num_output_syms' = num_output_syms + index - symbol_index[f]
  /\ ToNextFile(IF error_level > 1 THEN "fatal" ELSE "global")
  /\ index' = IF f + 1 \in File THEN symbol_index[f + 1] ELSE index
  /\ UNCHANGED <<input, pass1, update, lastfile, nextfile, out, slots, error_level>>

OutputGlobal ==
  /\ pc = "global" /\ n \in DOMAIN table
  /\ IF table[n].local_flag THEN UNCHANGED <<out, lastfile, num_output_syms>>
     ELSE LET of == <<0, table[n].name, "sym">>
              aux == IF table[n].numaux = 0 THEN << >>
                     ELSE << Written(AuxOf(of), table[n].aux, 0) >>
          IN /\ out' = (IF lastfile = -1 THEN out ELSE UpdateFileEntry(num_output_syms))
                         \o << Written(of, NoAux, 0) >> \o aux
             /\ lastfile' = -1
             /\ num_output_syms' = num_output_syms + 1 + table[n].numaux
  /\ n' = n + 1
  /\ UNCHANGED <<pc, f, input, pass1, update, index, nextfile, slots, error_level>>

FinishUp ==
  /\ pc = "global" /\ n \notin DOMAIN table
  /\ pc' = "done"
  /\ UNCHANGED <<f, n, input, pass1, update, index, pass2>>

Next == ProcessEntry \/ NextFile \/ IndexFile \/ UpdateSymbol \/ UpdateDone
          \/ OutputFunction \/ OutputExternal \/ OutputLocal \/ OutputFileEntry
          \/ EndFile \/ OutputGlobal \/ FinishUp

Spec == Init /\ [][Next]_vars

-----------------------------------------------------------------------------
Done == pc = "done"
At(i) == out[i + 1]

\* The number that a slot gave to relocation and line entries, some of it
\* computed by update_symbol_information from what pass 1 had counted and used
\* before the symbol was written, is where the symbol then stands.
SlotsName ==
  Done => \A s \in slots : s.new \in 0 .. (Len(out) - 1) /\ At(s.new).of = Of(s.file, s.old)

\* Where the entries of file g from number i on begin in the output.
NewPlace(g, i) ==
  symbol_index[g] + Cardinality({k \in DOMAIN out :
    \E j \in 1 .. i : /\ files[g][j].class # "aux"
                      /\ out[k].of \in {Of(g, j), AuxOf(Of(g, j))}
                      /\ k <= symbol_index[g] + local_syms[g]})

\* Under -x the end of a static function is added to the old one (output.c:666),
\* and what a global one has static under it is not counted (output.c:469).
EndLost(g, j, endndx) ==
  xflag /\ (files[g][j].class = "stat" \/ \E i \in (j + 1) .. endndx : files[g][i].class = "stat")

\* A tag or an end in the auxiliary entry of a symbol names in the output the
\* entry it named in its file; under -x tags are gone.  What stands in their place
\* where there is no tag or no end is what stood there in the file.
TagsFollow ==
  Done =>
    \A g \in File : \A j \in DOMAIN files[g] : \A k \in DOMAIN out :
      (files[g][j].class # "aux" /\ files[g][j].numaux = 1 /\ out[k].of = AuxOf(Of(g, j))) =>
        LET e == files[g][j]  aux == files[g][j + 1] IN
        /\ IF HasTag(e)
           THEN /\ out[k].tagndx = 0 <=> (aux.tagndx = 0 \/ xflag)
                /\ out[k].tagndx # 0 => At(out[k].tagndx).of = Of(g, aux.tagndx + 1)
           ELSE out[k].tagndx = aux.tagndx
        /\ IF HasEnd(e)
           THEN (aux.endndx # 0 /\ ~EndLost(g, j, aux.endndx))
                  => out[k].endndx = NewPlace(g, aux.endndx)
           ELSE out[k].endndx = aux.endndx

\* The values of the .file entries lead from each to the next one in the table,
\* whether or not every input file has one, and from the last to the globals.
FileChain ==
  Done /\ (\E k \in DOMAIN table : ~table[k].local_flag) =>
    LET IsFile(k) == \E g \in File : \E j \in DOMAIN files[g] :
                       files[g][j].class = "file" /\ out[k].of = Of(g, j)
        Globals == symbol_index[Len(files)] + local_syms[Len(files)]
    IN \A k \in DOMAIN out : IsFile(k) =>
         LET next == out[k].value IN
         /\ next >= k
         /\ next = Globals \/ IsFile(next + 1)
         /\ \A l \in (k + 1) .. next : ~IsFile(l)

\* Pass 1 and update counted exactly what pass 2 writes: the string table, which
\* is put behind total_output_symbols entries, begins where they end, and the
\* file header has their number.
CountsAgree == Done => Len(out) = total_output_symbols /\ Len(out) = num_output_syms
=============================================================================
