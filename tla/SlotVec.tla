------------------------------ MODULE SlotVec ------------------------------
(***************************************************************************)
(* The slot vector: binutils/link/slotvec.c, as output_local_symbols,      *)
(* relocate_section and output_line_numbers use it.                        *)
(*                                                                         *)
(* For each input file in turn the vector is begun anew and gets a slot    *)
(* for each relocatable symbol, in the order of the symbol table; then the *)
(* relocation entries and line entries of the file look symbols up in it.  *)
(* One action is one symbol, or one round of the search.                   *)
(***************************************************************************)
EXTENDS Integers

CONSTANTS
  MaxSyms,      \* bound: entries in the symbol table of a file
  MaxFiles,     \* bound: input files
  SlotRange,    \* sv_high_slot is an unsigned short: it counts modulo 2^16
  UIntRange     \* low and high are unsigned: modulo 2^32

ASSUME SlotAssumption ==
  /\ MaxSyms \in Nat /\ MaxFiles \in Nat
  /\ SlotRange \in Nat \ {0} /\ UIntRange \in Nat
  /\ UIntRange > SlotRange

Slot     == 0 .. (SlotRange - 1)
SymIndex == 0 .. (MaxSyms - 1)
UInt     == 0 .. (UIntRange - 1)
NULL     == -1

VARIABLES
  at,             \* where control is
  begun,          \* input files begun
  count,          \* the entry of the symbol table that is next
  slot,           \* slot -> what slotvec_create put in it: sv_symindex, and the
                  \* file and symbol that the rest of it is about
  sv_high_slot,   \* index of next available slot
  sv_high_index,  \* index of the symbol that was given the slot made last
  made,           \* slots made for this file
  relocatable,    \* symbols of this file that were given a slot
  sym_index,      \* the symbol that is looked up
  low, high,      \* the bounds of the search
  result          \* the slot that slotvec_read returned, or NULL

vector == <<slot, sv_high_slot, sv_high_index, made, relocatable>>
query  == <<sym_index, low, high, result>>
vectorVars == <<at, begun, count, vector, query>>

InitVector ==
  /\ at = "file" /\ begun = 0 /\ count = 0
  /\ slot = [s \in Slot |-> [sv_symindex |-> 0, file |-> 0]]
  /\ sv_high_slot = 0 /\ sv_high_index = 0
  /\ made = 0 /\ relocatable = {}
  /\ sym_index = 0 /\ low = 0 /\ high = 0 /\ result = NULL

\* getslot takes the number as an unsigned short.
GetSlot(n) == n % SlotRange

-----------------------------------------------------------------------------
(* output_local_symbols.                                                   *)

\* sv_high_index is not reset with sv_high_slot.
BeginVector ==
  /\ at = "file" /\ begun < MaxFiles
  /\ begun' = begun + 1 /\ count' = 0
  /\ sv_high_slot' = 0 /\ made' = 0 /\ relocatable' = {}
  /\ at' = "symbols"
  /\ UNCHANGED <<slot, sv_high_index, query>>

SlotvecCreate ==
  /\ slot' = [slot EXCEPT ![sv_high_slot] = [sv_symindex |-> count, file |-> begun]]
  /\ sv_high_slot' = (sv_high_slot + 1) % SlotRange
  /\ sv_high_index' = count

\* A global symbol, or a static one that is defined in a section.
RelocatableSymbol ==
  /\ at = "symbols" /\ count < MaxSyms
  /\ SlotvecCreate
  /\ made' = made + 1 /\ relocatable' = relocatable \cup {count}
  /\ count' = count + 1
  /\ UNCHANGED <<at, begun, query>>

\* An entry that gets no slot: another class of symbol, or an auxiliary entry.
OtherEntry ==
  /\ at = "symbols" /\ count < MaxSyms
  /\ count' = count + 1
  /\ UNCHANGED <<at, begun, vector, query>>

EndSymbols ==
  /\ at = "symbols"
  /\ at' = "entries"
  /\ UNCHANGED <<begun, count, vector, query>>

-----------------------------------------------------------------------------
(* slotvec_read, for an entry that names symbol i.                         *)

\* The symbol of the last slot is answered without a search, which does not
\* look at that slot.
SlotvecRead ==
  /\ at = "entries"
  /\ \E i \in SymIndex :
       /\ sym_index' = i
       /\ IF i = sv_high_index
            THEN /\ result' = GetSlot(sv_high_slot - 1)
                 /\ at' = "answer"
                 /\ UNCHANGED <<low, high>>
            ELSE /\ high' = (sv_high_slot - 1) % UIntRange
                 /\ low' = 0
                 /\ at' = "search"
                 /\ UNCHANGED result
  /\ UNCHANGED <<begun, count, vector>>

Guess   == low + (high - low) \div 2
GuessOf == slot[GetSlot(Guess)].sv_symindex

Answer(r) == result' = r /\ at' = "answer" /\ UNCHANGED <<low, high>>

Exhausted ==
  /\ at = "search" /\ high = low
  /\ Answer(NULL)
  /\ UNCHANGED <<begun, count, vector, sym_index>>

Hit ==
  /\ at = "search" /\ high # low /\ GuessOf = sym_index
  /\ Answer(GetSlot(Guess))
  /\ UNCHANGED <<begun, count, vector, sym_index>>

\* MUTANT: the upper bound is taken for one that belongs to the range.
BelowGuessInclusive ==
  /\ at = "search" /\ high # low /\ GuessOf > sym_index
  /\ IF high = Guess THEN Answer(NULL)
     ELSE /\ high' = IF Guess > low THEN Guess - 1 ELSE low
          /\ UNCHANGED <<at, low, result>>
  /\ UNCHANGED <<begun, count, vector, sym_index>>

BelowGuess ==
  /\ at = "search" /\ high # low /\ GuessOf > sym_index
  /\ IF high = Guess THEN Answer(NULL)
                     ELSE high' = Guess /\ UNCHANGED <<at, low, result>>
  /\ UNCHANGED <<begun, count, vector, sym_index>>

\* MUTANT: the search does not end when the lower bound stays.
AboveGuessNoBreak ==
  /\ at = "search" /\ high # low /\ GuessOf < sym_index
  /\ low' = Guess
  /\ UNCHANGED <<at, begun, count, vector, sym_index, high, result>>

AboveGuess ==
  /\ at = "search" /\ high # low /\ GuessOf < sym_index
  /\ IF low = Guess THEN Answer(NULL)
                    ELSE low' = Guess /\ UNCHANGED <<at, high, result>>
  /\ UNCHANGED <<begun, count, vector, sym_index>>

Search == Exhausted \/ Hit \/ BelowGuess \/ AboveGuess

\* An entry for a symbol without a slot ends the link; the variables of the look-up
\* are gone.
UseAnswer ==
  /\ at = "answer"
  /\ at' = IF result = NULL THEN "exit" ELSE "entries"
  /\ sym_index' = 0 /\ low' = 0 /\ high' = 0 /\ result' = NULL
  /\ UNCHANGED <<begun, count, vector>>

EndEntries ==
  /\ at = "entries"
  /\ at' = "file"
  /\ UNCHANGED <<begun, count, vector, query>>

NextVector ==
  \/ BeginVector \/ RelocatableSymbol \/ OtherEntry \/ EndSymbols
  \/ SlotvecRead \/ Search \/ UseAnswer \/ EndEntries

VectorSpec == InitVector /\ [][NextVector]_vectorVars
FairSpec   == VectorSpec /\ WF_vectorVars(Search)

-----------------------------------------------------------------------------
\* Every variable has its type.
TypeOK ==
  /\ at \in {"file", "symbols", "entries", "search", "answer", "exit"}
  /\ begun \in 0 .. MaxFiles /\ count \in 0 .. MaxSyms
  /\ slot \in [Slot -> [sv_symindex : Nat, file : 0 .. MaxFiles]]
  /\ sv_high_slot \in Slot /\ sv_high_index \in Nat
  /\ made \in Nat /\ relocatable \subseteq SymIndex
  /\ sym_index \in Nat /\ low \in UInt /\ high \in UInt
  /\ result \in Slot \cup {NULL}

\* The vector can be searched: the file has relocatable symbols, and not so many
\* that their number does not fit an unsigned short.
Searchable == made \in 1 .. (SlotRange - 1)

\* "Return the pointer to the slot belonging to the symbol whose old symbol table
\* index is given": slotvec_read finds the slot of a relocatable symbol, made for
\* this file, and NULL for any other -- whatever earlier files left in the vector
\* and in sv_high_index.
LookupExact ==
  at = "answer" /\ Searchable =>
    IF sym_index \in relocatable
      THEN result # NULL /\ slot[result] = [sv_symindex |-> sym_index, file |-> begun]
      ELSE result = NULL

\* Every search ends, also one in a vector that is not fit for it.
SearchEnds == at = "search" ~> at = "answer"

-----------------------------------------------------------------------------
(* The inductive invariant.                                                *)

\* The slots of this file come in the order of its symbols, one for each.
SlotsAscend ==
  made < SlotRange =>
    /\ sv_high_slot = made
    /\ \A s \in 0 .. (made - 1) :
         slot[s].file = begun /\ slot[s].sv_symindex \in relocatable
    /\ \A s, t \in 0 .. (made - 1) :
         s < t => slot[s].sv_symindex < slot[t].sv_symindex
    /\ \A i \in relocatable :
         i < count /\ \E s \in 0 .. (made - 1) : slot[s].sv_symindex = i

LastSlotKnown ==
  Searchable => slot[made - 1].sv_symindex = sv_high_index

\* If the symbol has a slot, it is one of low .. high - 1.
SearchBracket ==
  at = "search" =>
    /\ low <= high
    /\ Searchable =>
         /\ high < made
         /\ \A s \in 0 .. (made - 1) :
              slot[s].sv_symindex = sym_index => low <= s /\ s < high

VectorInv == TypeOK /\ SlotsAscend /\ LastSlotKnown /\ SearchBracket /\ LookupExact
=============================================================================
