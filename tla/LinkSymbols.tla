---------------------------- MODULE LinkSymbols ----------------------------
(***************************************************************************)
(* Symbol resolution in pass 1: makesym and findsym of binutils/link/      *)
(* syms.c, process_object_file and load_object_file of read_object.c.      *)
(*                                                                         *)
(* The files of the command line are read in turn.  An object file is      *)
(* loaded once; an archive is searched, each time it is given, for members *)
(* that define what is undefined.  Global symbols are kept in chains, one  *)
(* ring per hash value, of which the symbol found last is the head.  One   *)
(* action is one symbol entry, one entry of an archive directory, or one   *)
(* test of a loop.                                                         *)
(***************************************************************************)
EXTENDS Integers, Sequences, FiniteSets

CONSTANTS
  NName,      \* symbol names are 1 .. NName
  Hash,       \* name -> hash()
  NFile,      \* object files and archive members are 1 .. NFile
  Contents,   \* the files there may be: file -> name -> entry of its symbol table
  Rejectable, \* files whose section may not be in the architecture file
  Args,       \* the command line: [archive : BOOLEAN, members : Seq(File)]
  TableSize, ExtraSize, MaxExtra,  \* SYMBOL_TABLE_SIZE, EXTRA_SYM_SIZE, MAX_EXTRA
  MaxErrors   \* MAX_ERRORS

Name   == 1 .. NName
File   == 1 .. NFile
Bucket == {Hash[n] : n \in Name}
Id     == 1 .. NName     \* symbol ids; there are never more than names
NIL    == 0

\* An entry of a symbol table: no symbol, a reference, a common symbol (n_value
\* is its size), and definitions in a section or absolute.
Kind == {"none", "undef", "common", "section", "abs"}
Defining == {"section", "abs"}          \* n_scnum # 0

ASSUME SymbolAssumption ==
  /\ NName \in Nat \ {0} /\ NFile \in Nat
  /\ DOMAIN Hash = Name
  /\ Contents \subseteq [File -> [Name -> Kind]]
  /\ Rejectable \subseteq File
  /\ Args \in Seq([archive : BOOLEAN, members : Seq(File)])
  /\ \A i \in DOMAIN Args : ~ Args[i].archive => Args[i].members # << >>
  /\ {TableSize, ExtraSize, MaxExtra, MaxErrors} \subseteq Nat \ {0}

VARIABLES
  pc,             \* where control is
  content,        \* file -> its symbol table
  rejected,       \* files whose section is left out
  arg,            \* index of the file of the command line
  file,           \* the object file being loaded
  n,              \* the symbol of it that is next
  dir,            \* i: the entry of the archive directory that is next
  found_one,
  hashtab,        \* hash value -> id of the head of its chain
  chain_id,       \* symbol -> the next symbol of its chain
  name,           \* symbol -> its name
  kind,           \* symbol -> what its n_scnum and n_value say
  input_sect,     \* symbol -> the file of the section it is defined in
  total_symbols, extra_sym_cnt,
  unresolved,     \* "number of unresolved symbols"
  input_file_list,
  user_errors, linker_errors

inputs == <<content, rejected>>
table  == <<hashtab, chain_id, name, kind, input_sect, total_symbols,
            extra_sym_cnt, unresolved>>
errors == <<user_errors, linker_errors>>
vars   == <<pc, inputs, arg, file, n, dir, found_one, table, input_file_list, errors>>

Init ==
  /\ pc = "file" /\ arg = 1
  /\ content \in Contents
  /\ rejected \in SUBSET Rejectable
  /\ file = NIL /\ n = 1 /\ dir = 1 /\ found_one = FALSE
  /\ hashtab = [h \in Bucket |-> NIL]
  /\ chain_id = [s \in Id |-> NIL]
  /\ name = [s \in Id |-> NIL]
  /\ kind = [s \in Id |-> "none"]
  /\ input_sect = [s \in Id |-> NIL]
  /\ total_symbols = 0 /\ extra_sym_cnt = 0 /\ unresolved = 0
  /\ input_file_list = <<>>
  /\ user_errors = 0 /\ linker_errors = 0

-----------------------------------------------------------------------------
(* findsym.                                                                *)

\* The symbols that findsym looks at for name x: from the head of the chain along
\* chain_id, up to one of that name or round to the head.
Visited(x) ==
  {s \in Id : \A S \in SUBSET Id :
     /\ hashtab[Hash[x]] \in S
     /\ \A t \in S : name[t] # x => chain_id[t] \in S
     => s \in S}

\* The one that has the name: there is one at most, since the walk ends there.
Found(x) ==
  LET Hits == {s \in Visited(x) : name[s] = x}
  IN  IF hashtab[Hash[x]] = NIL \/ Hits = {} THEN NIL ELSE CHOOSE s \in Hits : TRUE

-----------------------------------------------------------------------------
(* makesym, and what process_symbol_table does with its result.            *)

\* The section a symbol of the file is defined in, if it was not left out.
SectionOf == IF file \in rejected THEN NIL ELSE file

UndefinedKind(k) == k = "undef"

\* MUTANT: the table grows one symbol too late.
GrowTableLate ==
  extra_sym_cnt' = IF total_symbols > TableSize + extra_sym_cnt * ExtraSize
                     THEN extra_sym_cnt + 1 ELSE extra_sym_cnt

GrowTable ==
  extra_sym_cnt' = IF total_symbols >= TableSize + extra_sym_cnt * ExtraSize
                     THEN extra_sym_cnt + 1 ELSE extra_sym_cnt

\* "Symbol table overflow", after which the linker goes on.
Overflows ==
  total_symbols >= TableSize + extra_sym_cnt * ExtraSize /\ extra_sym_cnt >= MaxExtra

\* MUTANT: the new symbol is not linked into the ring.
LinkIntoChainAlone(s, h) == chain_id' = [chain_id EXCEPT ![s] = s]

\* The new symbol goes behind the head, and becomes the head.
LinkIntoChain(s, h) ==
  LET p2 == hashtab[h]
  IN  chain_id' = IF p2 # NIL
                    THEN [chain_id EXCEPT ![s] = chain_id[p2], ![p2] = s]
                    ELSE [chain_id EXCEPT ![s] = s]

\* Case 1 of makesym.
NewSymbol(x, k) ==
  LET s == total_symbols + 1 IN
  /\ GrowTable
  /\ total_symbols' = s
  /\ name' = [name EXCEPT ![s] = x]
  /\ kind' = [kind EXCEPT ![s] = k]
  /\ unresolved' = IF UndefinedKind(k) THEN unresolved + 1 ELSE unresolved
  /\ LinkIntoChain(s, Hash[x])
  /\ hashtab' = [hashtab EXCEPT ![Hash[x]] = s]
  /\ input_sect' = IF k = "section" THEN [input_sect EXCEPT ![s] = SectionOf]
                                    ELSE input_sect

\* MUTANT: unresolved is not counted down.
MergeSymbolNoCount(s, x, k) ==
  /\ hashtab' = [hashtab EXCEPT ![Hash[x]] = s]
  /\ IF k \in Defining /\ kind[s] \notin Defining
       THEN kind' = [kind EXCEPT ![s] = k] ELSE UNCHANGED kind
  /\ input_sect' = IF k = "section" THEN [input_sect EXCEPT ![s] = SectionOf]
                                    ELSE input_sect
  /\ UNCHANGED <<chain_id, name, total_symbols, extra_sym_cnt, unresolved>>

\* MUTANT: a definition that is there already is overwritten.
MergeSymbolAlways(s, x, k) ==
  /\ hashtab' = [hashtab EXCEPT ![Hash[x]] = s]
  /\ IF k \in Defining
       THEN /\ unresolved' = IF kind[s] \in Defining THEN unresolved ELSE unresolved - 1
            /\ kind' = [kind EXCEPT ![s] = k]
       ELSE UNCHANGED <<unresolved, kind>>
  /\ input_sect' = IF k = "section" THEN [input_sect EXCEPT ![s] = SectionOf]
                                    ELSE input_sect
  /\ UNCHANGED <<chain_id, name, total_symbols, extra_sym_cnt>>

\* Case 2: a definition is merged into an entry that has none.  input_sect is
\* set for every entry with a section, merged or not.
MergeSymbol(s, x, k) ==
  /\ hashtab' = [hashtab EXCEPT ![Hash[x]] = s]
  /\ IF k \in Defining /\ kind[s] \notin Defining
       THEN unresolved' = unresolved - 1 /\ kind' = [kind EXCEPT ![s] = k]
       ELSE UNCHANGED <<unresolved, kind>>
  /\ input_sect' = IF k = "section" THEN [input_sect EXCEPT ![s] = SectionOf]
                                    ELSE input_sect
  /\ UNCHANGED <<chain_id, name, total_symbols, extra_sym_cnt>>

\* MUTANT: only the same kind of definition is reported.
DuplicateSame(s, k) == s # NIL /\ k = "section" /\ kind[s] = "abs"

\* "multiply defined"; a definition of an absolute symbol is let pass.
Duplicate(s, k) == s # NIL /\ k \in Defining /\ kind[s] = "section"

\* USER_ERROR, and LINKER_ERROR, which gives up after a user error.
UserError ==
  /\ user_errors' = user_errors + 1
  /\ pc' = IF user_errors' >= MaxErrors THEN "exit" ELSE "symbols"
  /\ UNCHANGED linker_errors
LinkerError ==
  IF user_errors > 0
    THEN pc' = "exit" /\ UNCHANGED errors
    ELSE linker_errors' = linker_errors + 1 /\ UNCHANGED <<pc, user_errors>>

NoError == UNCHANGED <<pc, errors>>

SkipEntry ==
  /\ pc = "symbols" /\ n \in Name /\ content[file][n] = "none"
  /\ n' = n + 1
  /\ UNCHANGED <<pc, inputs, arg, file, dir, found_one, table, input_file_list, errors>>

\* A name that is not in the table.
EnterSymbol ==
  /\ pc = "symbols" /\ n \in Name /\ content[file][n] # "none"
  /\ Found(n) = NIL
  /\ NewSymbol(n, content[file][n])
  /\ IF Overflows THEN LinkerError ELSE NoError
  /\ n' = n + 1
  /\ UNCHANGED <<inputs, arg, file, dir, found_one, input_file_list>>

\* A name that is.  The report of a duplicate names the file of the section the
\* symbol was first defined in; there is none if that section was left out.
MergeEntry ==
  LET k == content[file][n]
      s == Found(n)
  IN
  /\ pc = "symbols" /\ n \in Name /\ k # "none" /\ s # NIL
  /\ IF Duplicate(s, k)
       THEN IF input_sect[s] = NIL THEN pc' = "crash" /\ UNCHANGED errors
                                   ELSE UserError
       ELSE NoError
  /\ MergeSymbol(s, n, k)
  /\ n' = n + 1
  /\ UNCHANGED <<inputs, arg, file, dir, found_one, input_file_list>>

-----------------------------------------------------------------------------
(* load_object_file and process_object_file.                               *)

IsArchive == Args[arg].archive
Members   == Args[arg].members

\* MUTANT: a section that is not in the architecture file is left out silently.
StartLoadSilent(f) ==
  file' = f /\ n' = 1 /\ pc' = "symbols" /\ UNCHANGED errors

\* A section that is not in the architecture file is a LINKER_ERROR.
StartLoad(f) ==
  /\ file' = f /\ n' = 1
  /\ IF f \in rejected
       THEN IF user_errors > 0
              THEN pc' = "exit" /\ UNCHANGED errors
              ELSE pc' = "symbols" /\ linker_errors' = linker_errors + 1
                   /\ UNCHANGED user_errors
       ELSE pc' = "symbols" /\ UNCHANGED errors

Loaded == {input_file_list[i] : i \in 1 .. Len(input_file_list)}

\* MUTANT: an object file is loaded each time it is given.
ObjectFileAgain ==
  /\ pc = "file" /\ arg \in DOMAIN Args /\ ~ IsArchive
  /\ StartLoad(Members[1])
  /\ UNCHANGED <<inputs, arg, dir, found_one, table, input_file_list>>

\* "Process a NON-ARCHIVE file exactly ONCE".
ObjectFile ==
  /\ pc = "file" /\ arg \in DOMAIN Args /\ ~ IsArchive
  /\ IF Members[1] \in Loaded
       THEN arg' = arg + 1 /\ UNCHANGED <<pc, file, n, errors>>
       ELSE StartLoad(Members[1]) /\ UNCHANGED arg
  /\ UNCHANGED <<inputs, dir, found_one, table, input_file_list>>

\* MUTANT: a member that was loaded does not ask for another pass.
EndLoadNotFound ==
  /\ pc = "symbols" /\ n > NName
  /\ input_file_list' = Append(input_file_list, file)
  /\ IF IsArchive
       THEN dir' = dir + 1 /\ pc' = "directory" /\ UNCHANGED arg
       ELSE arg' = arg + 1 /\ pc' = "file" /\ UNCHANGED dir
  /\ UNCHANGED <<inputs, file, n, found_one, table, errors>>

\* The file is entered in input_file_list after its symbols.
EndLoad ==
  /\ pc = "symbols" /\ n > NName
  /\ input_file_list' = Append(input_file_list, file)
  /\ IF IsArchive
       THEN found_one' = TRUE /\ dir' = dir + 1 /\ pc' = "directory" /\ UNCHANGED arg
       ELSE arg' = arg + 1 /\ pc' = "file" /\ UNCHANGED <<found_one, dir>>
  /\ UNCHANGED <<inputs, file, n, table, errors>>

\* "process an ARCHIVE file each time it is given".
ArchiveFile ==
  /\ pc = "file" /\ arg \in DOMAIN Args /\ IsArchive
  /\ found_one' = TRUE
  /\ pc' = "archive"
  /\ UNCHANGED <<inputs, arg, file, n, dir, table, input_file_list, errors>>

\* The directory of an archive: its members in order, each with the names it
\* defines.
Entry(d) == [member |-> Members[((d - 1) \div NName) + 1], name |-> ((d - 1) % NName) + 1]
DirLength == Len(Members) * NName
Listed(d) == content[Entry(d).member][Entry(d).name] \in Defining

\* MUTANT: found_one is not reset before a pass.
SearchArchiveNoReset ==
  /\ pc = "archive" /\ found_one /\ unresolved # 0
  /\ dir' = 1
  /\ pc' = "directory"
  /\ UNCHANGED <<inputs, arg, file, n, found_one, table, input_file_list, errors>>

\* while( found_one && unresolved )
SearchArchive ==
  /\ pc = "archive" /\ found_one /\ unresolved # 0
  /\ found_one' = FALSE
  /\ dir' = 1
  /\ pc' = "directory"
  /\ UNCHANGED <<inputs, arg, file, n, table, input_file_list, errors>>

EndArchive ==
  /\ pc = "archive" /\ ~ (found_one /\ unresolved # 0)
  /\ arg' = arg + 1
  /\ pc' = "file"
  /\ UNCHANGED <<inputs, file, n, dir, found_one, table, input_file_list, errors>>

Wanted(d) == /\ Listed(d)
             /\ LET s == Found(Entry(d).name) IN s # NIL /\ UndefinedKind(kind[s])

\* findsym makes a symbol it finds the head of its chain, wanted or not.
TouchHead(d) ==
  LET x == Entry(d).name
      s == Found(x)
  IN  hashtab' = IF Listed(d) /\ s # NIL THEN [hashtab EXCEPT ![Hash[x]] = s] ELSE hashtab

DirectoryEntry ==
  /\ pc = "directory" /\ dir \in 1 .. DirLength
  /\ TouchHead(dir)
  /\ IF Wanted(dir)
       THEN StartLoad(Entry(dir).member) /\ UNCHANGED dir
       ELSE dir' = dir + 1 /\ UNCHANGED <<pc, file, n, errors>>
  /\ UNCHANGED <<inputs, arg, found_one, chain_id, name, kind, input_sect,
                 total_symbols, extra_sym_cnt, unresolved, input_file_list>>

EndDirectory ==
  /\ pc = "directory" /\ dir > DirLength
  /\ pc' = "archive"
  /\ UNCHANGED <<inputs, arg, file, n, dir, found_one, table, input_file_list, errors>>

\* pass1 goes on to pass2 if there was no error.
EndPass1 ==
  /\ pc = "file" /\ arg > Len(Args)
  /\ pc' = IF user_errors > 0 \/ linker_errors > 0 THEN "exit" ELSE "pass2"
  /\ UNCHANGED <<inputs, arg, file, n, dir, found_one, table, input_file_list, errors>>

Next ==
  \/ SkipEntry \/ EnterSymbol \/ MergeEntry
  \/ ObjectFile \/ EndLoad \/ ArchiveFile
  \/ SearchArchive \/ EndArchive \/ DirectoryEntry \/ EndDirectory \/ EndPass1

Spec     == Init /\ [][Next]_vars
FairSpec == Spec /\ WF_vars(Next)

-----------------------------------------------------------------------------
Symbol == 1 .. total_symbols

\* The symbols of a hash value form one ring -- following chain_id from any of them
\* comes to all of them, and to no other -- that is entered at hashtab, and no name
\* is in the table twice: findsym finds a name exactly if it is there.
ChainsSound ==
  /\ \A h \in Bucket :
       LET there == {s \in Symbol : Hash[name[s]] = h}
       IN  IF there = {} THEN hashtab[h] = NIL
           ELSE /\ hashtab[h] \in there
                /\ \A S \in (SUBSET there) \ {{}} :
                     (\A s \in S : chain_id[s] \in S) <=> S = there
  /\ \A s, t \in Symbol : name[s] = name[t] => s = t

\* "number of unresolved symbols": the loop over an archive stops on it, so it has
\* to be the number of symbols that an archive member may define.
UnresolvedCounts ==
  unresolved = Cardinality({s \in Symbol : UndefinedKind(kind[s])})

\* The first definition of a symbol is the one that counts, and no reference or
\* later definition takes it away.
FirstDefinitionStays ==
  [][\A s \in Symbol : /\ name'[s] = name[s]
                       /\ kind[s] \in Defining => kind'[s] = kind[s]]_vars

\* "until one complete pass is made with no additional loads": when the search of
\* an archive ends, no member of it defines a symbol that is still undefined.
ArchiveExhausted ==
  pc = "archive" /\ (~ found_one \/ unresolved = 0) =>
    \A d \in 1 .. DirLength : ~ Wanted(d)

\* No object file or archive member is bound twice, however often it is given.
LoadedOnce ==
  /\ \A i, j \in DOMAIN input_file_list :
       input_file_list[i] = input_file_list[j] => i = j
  /\ pc = "symbols" => file \notin Loaded

\* Two definitions of a symbol keep pass2 from being reached -- unless the first
\* of them is absolute, which is not reported.
DuplicatesStopLink ==
  pc = "pass2" =>
    \A i, j \in DOMAIN input_file_list, x \in Name :
      /\ i < j
      /\ content[input_file_list[i]][x] = "section"
      /\ content[input_file_list[j]][x] \in Defining
      => \E k \in 1 .. (i - 1) : content[input_file_list[k]][x] = "abs"

\* pass2 takes the address of a symbol from its input section: there is one, and
\* it is of a file that defines the symbol there.  A report of a duplicate that
\* has no first file to name is only made after a LINKER_ERROR was.
DefinedHasSection ==
  /\ pc = "pass2" =>
       \A s \in Symbol : kind[s] = "section" =>
         /\ input_sect[s] \in Loaded \ rejected
         /\ content[input_sect[s]][name[s]] = "section"
  /\ pc = "crash" => linker_errors > 0

\* The blocks of the symbol table have an entry for every symbol, and there are
\* not more of them than MAX_EXTRA unless the overflow was reported.
EntriesAllocated ==
  /\ total_symbols <= TableSize + extra_sym_cnt * ExtraSize
  /\ extra_sym_cnt > MaxExtra => linker_errors > 0 \/ pc = "exit"

\* Pass 1 ends: no archive is searched for ever.
Terminates == <>(pc \in {"pass2", "exit", "crash"})
=============================================================================
