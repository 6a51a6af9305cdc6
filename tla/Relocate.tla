------------------------------ MODULE Relocate ------------------------------
(***************************************************************************)
(* Relocation of an input section: relocate_section of                     *)
(* binutils/link/relocate.c, and output_section of output.c, which copies  *)
(* a section that has no relocation entries.                               *)
(*                                                                         *)
(* The section goes through a buffer that may be smaller than it, a chunk  *)
(* at a time, and the addresses in it are changed in the buffer.  One      *)
(* action is one entry or one chunk.  A byte is known by its position in   *)
(* the input section and by how many times it was relocated.               *)
(***************************************************************************)
EXTENDS Integers

CONSTANTS
  MaxWords,     \* bound: words in the section
  BufferSizes   \* buffer_size: BUFSIZ (MSDOS), or the size of the largest section

PM_WORD_SIZE == 6
DM_WORD_SIZE == 5
\* R_PCRLONG is where R_ADDR24 is.
RelocType == {"R_ABS", "R_ADDR24", "R_ADDR32", "R_ADDR_VAR"}

\* The longest address fits the buffer twice.
ASSUME BufferAssumption ==
  /\ MaxWords \in Nat
  /\ BufferSizes \subseteq Nat /\ \A b \in BufferSizes : b >= 8

VARIABLES
  pc,               \* where control is
  pm,               \* the section is one of program memory
  size,             \* s_size
  relocs,           \* the relocation entries: word of the section and type
  nreloc,           \* s_nreloc
  buffer_size, buffer,
  chunk_size,       \* bytes in the buffer
  bytes_processed,  \* bytes in front of those in the buffer
  section_size,     \* bytes that have not been read
  num_read,         \* the relocation entry that is next, or is worked on
  out, out_pos      \* what is written to the object file, and how many bytes

section == <<pm, size, relocs, nreloc, buffer_size>>
window  == <<buffer, chunk_size, bytes_processed, section_size>>
output  == <<out, out_pos>>
vars    == <<pc, section, window, num_read, output>>

Min2(a, b) == IF a < b THEN a ELSE b
WordSize   == IF pm THEN PM_WORD_SIZE ELSE DM_WORD_SIZE

\* What the buffer holds of earlier sections, and the file of this one.
Nothing == [pos |-> -1, times |-> 0]

\* An instruction or variable holds one address: the assembler makes entries in
\* the order of the words, and only variables have addresses in data memory.
Relocations(words, isPM) ==
  [word : 0 .. (words - 1), type : IF isPM THEN RelocType ELSE {"R_ABS", "R_ADDR_VAR"}]

Init ==
  /\ pm \in BOOLEAN
  /\ \E words \in 1 .. MaxWords :
       /\ size = words * WordSize
       /\ nreloc \in 0 .. words
       /\ relocs \in [1 .. nreloc -> Relocations(words, pm)]
  /\ \A i, j \in 1 .. nreloc : i < j => relocs[i].word < relocs[j].word
  /\ buffer_size \in BufferSizes
  /\ buffer = [i \in 0 .. (buffer_size - 1) |-> Nothing]
  /\ chunk_size = 0 /\ bytes_processed = 0 /\ num_read = 1
  /\ section_size = size
  /\ out = [p \in 0 .. (size - 1) |-> Nothing] /\ out_pos = 0
  /\ pc = IF nreloc = 0 THEN "copy" ELSE "start"

-----------------------------------------------------------------------------
\* fread of n bytes from position p of the section, to offset `at' of the buffer
\* that held b.
Read(b, n, p, at) ==
  [i \in DOMAIN b |-> IF at <= i /\ i < at + n THEN [pos |-> p + i - at, times |-> 0]
                                               ELSE b[i]]

\* fwrite of the first n bytes of buffer b.
Write(b, n) ==
  /\ out' = [p \in DOMAIN out |->
               IF out_pos <= p /\ p < out_pos + n THEN b[p - out_pos] ELSE out[p]]
  /\ out_pos' = out_pos + n

\* The loop of output_section.
CopyChunk ==
  LET n == Min2(buffer_size, section_size) IN
  /\ pc = "copy" /\ section_size > 0
  /\ buffer' = Read(buffer, n, size - section_size, 0)
  /\ Write(buffer', n)
  /\ section_size' = section_size - n
  /\ UNCHANGED <<pc, section, chunk_size, bytes_processed, num_read>>

EndCopy ==
  /\ pc = "copy" /\ section_size = 0
  /\ pc' = "done"
  /\ UNCHANGED <<section, window, num_read, output>>

\* The next chunk of the section becomes what is in the buffer.
ReadChunk(p) ==
  /\ chunk_size' = Min2(section_size, buffer_size)
  /\ buffer' = Read(buffer, chunk_size', p, 0)
  /\ section_size' = section_size - chunk_size'
  /\ bytes_processed' = p

Start ==
  /\ pc = "start"
  /\ ReadChunk(0)
  /\ pc' = "entry"
  /\ UNCHANGED <<section, num_read, output>>

Reloc == relocs[num_read]

ByteOffset(r) ==
  r.word * WordSize +
    CASE pm /\ r.type = "R_ADDR24" -> 3
      [] pm /\ r.type = "R_ADDR32" -> 2
      [] OTHER                     -> 0

AddressSize(r) == IF r.type = "R_ADDR24" THEN 3 ELSE 4

\* MUTANT: the next entry is not gone to.
SkipAbsoluteStuck ==
  /\ pc = "entry" /\ num_read <= nreloc /\ Reloc.type = "R_ABS"
  /\ UNCHANGED vars

SkipAbsolute ==
  /\ pc = "entry" /\ num_read <= nreloc /\ Reloc.type = "R_ABS"
  /\ num_read' = num_read + 1
  /\ UNCHANGED <<pc, section, window, output>>

Relocatable ==
  /\ pc = "entry" /\ num_read <= nreloc /\ Reloc.type # "R_ABS"
  /\ pc' = "seek"
  /\ UNCHANGED <<section, window, num_read, output>>

ChunkEnd == bytes_processed + chunk_size

\* "If we haven't yet read in the portion of the instruction that contains the
\* address we want to relocate, keep reading until we get it."
NextChunk ==
  /\ pc = "seek" /\ ByteOffset(Reloc) > ChunkEnd
  /\ Write(buffer, chunk_size)
  /\ ReadChunk(ChunkEnd)
  /\ UNCHANGED <<pc, section, num_read>>

\* MUTANT: only where the address begins is looked at.
PartialStart ==
  ByteOffset(Reloc) >= ChunkEnd /\ section_size > 0

\* "We may have only read in part of the address."
Partial ==
  ByteOffset(Reloc) + AddressSize(Reloc) > ChunkEnd /\ section_size > 0

\* MUTANT: the bytes that were kept are not counted.
ReadRestUncounted ==
  LET a == AddressSize(Reloc)
      n == Min2(section_size, buffer_size - a)
      kept == [i \in DOMAIN buffer |-> IF i < a THEN buffer[chunk_size - (a - i)] ELSE buffer[i]]
  IN /\ bytes_processed' = ChunkEnd - a
     /\ buffer' = Read(kept, n, ChunkEnd, a)
     /\ section_size' = section_size - n
     /\ chunk_size' = n

\* As many bytes as the address has are kept, from the end of the buffer.
ReadRest ==
  LET a == AddressSize(Reloc)
      n == Min2(section_size, buffer_size - a)
      kept == [i \in DOMAIN buffer |-> IF i < a THEN buffer[chunk_size - (a - i)] ELSE buffer[i]]
  IN /\ bytes_processed' = ChunkEnd - a
     /\ buffer' = Read(kept, n, ChunkEnd, a)
     /\ section_size' = section_size - n
     /\ chunk_size' = n + a

PartialAddress ==
  /\ pc = "seek" /\ ByteOffset(Reloc) <= ChunkEnd /\ Partial
  /\ Write(buffer, chunk_size - AddressSize(Reloc))
  /\ ReadRest
  /\ pc' = "address"
  /\ UNCHANGED <<section, num_read>>

WholeAddress ==
  /\ pc = "seek" /\ ByteOffset(Reloc) <= ChunkEnd /\ ~ Partial
  /\ pc' = "address"
  /\ UNCHANGED <<section, window, num_read, output>>

Index == ByteOffset(Reloc) - bytes_processed

RelocateAddress ==
  /\ pc = "address"
  /\ buffer' = [i \in DOMAIN buffer |->
                  IF Index <= i /\ i < Index + AddressSize(Reloc)
                    THEN [buffer[i] EXCEPT !.times = @ + 1] ELSE buffer[i]]
  /\ num_read' = num_read + 1
  /\ pc' = "entry"
  /\ UNCHANGED <<section, chunk_size, bytes_processed, section_size, output>>

EndEntries ==
  /\ pc = "entry" /\ num_read > nreloc
  /\ pc' = "rest"
  /\ UNCHANGED <<section, window, num_read, output>>

RestOfSection ==
  /\ pc = "rest" /\ section_size > 0
  /\ Write(buffer, chunk_size)
  /\ ReadChunk(ChunkEnd)
  /\ UNCHANGED <<pc, section, num_read>>

LastChunk ==
  /\ pc = "rest" /\ section_size = 0
  /\ Write(buffer, chunk_size)
  /\ pc' = "done"
  /\ UNCHANGED <<section, window, num_read>>

Next ==
  \/ CopyChunk \/ EndCopy
  \/ Start \/ SkipAbsolute \/ Relocatable \/ NextChunk \/ PartialAddress
  \/ WholeAddress \/ RelocateAddress \/ EndEntries \/ RestOfSection \/ LastChunk

Spec     == Init /\ [][Next]_vars
FairSpec == Spec /\ WF_vars(Next)

-----------------------------------------------------------------------------
Cell == [pos : Int, times : Nat]

\* Every variable has its type.
TypeOK ==
  /\ pc \in {"copy", "start", "entry", "seek", "address", "rest", "done"}
  /\ pm \in BOOLEAN /\ size \in Nat /\ nreloc \in Nat
  /\ relocs \in [1 .. nreloc -> [word : Nat, type : RelocType]]
  /\ buffer_size \in BufferSizes
  /\ buffer \in [0 .. (buffer_size - 1) -> Cell]
  /\ chunk_size \in 0 .. buffer_size
  /\ bytes_processed \in 0 .. size /\ section_size \in 0 .. size
  /\ num_read \in 1 .. (nreloc + 1)
  /\ out \in [0 .. (size - 1) -> Cell] /\ out_pos \in 0 .. size

\* The bytes of the address that entry k relocates.
IsAddressByte(p, k) ==
  /\ relocs[k].type # "R_ABS"
  /\ ByteOffset(relocs[k]) <= p /\ p < ByteOffset(relocs[k]) + AddressSize(relocs[k])

\* Position p as it is once the entries below k have been processed.
Relocated(p, k) ==
  [pos |-> p, times |-> IF \E j \in 1 .. (k - 1) : IsAddressByte(p, j) THEN 1 ELSE 0]

\* The object file gets every byte of the section once, in its place, and exactly
\* the bytes of the addresses are relocated, once each -- whatever the size of the
\* buffer and wherever its end cuts an address.
SectionRelocated ==
  pc = "done" => out_pos = size /\ \A p \in 0 .. (size - 1) : out[p] = Relocated(p, nreloc + 1)

\* The address that is relocated is all in the buffer.
AddressInBuffer ==
  pc = "address" => Index >= 0 /\ Index + AddressSize(Reloc) <= chunk_size

\* relocate_section returns.
Terminates == <>(pc = "done")

-----------------------------------------------------------------------------
(* The inductive invariant.                                                *)

\* Addresses lie in the section and do not overlap.
AddressesApart ==
  /\ \A k \in 1 .. nreloc : ByteOffset(relocs[k]) + AddressSize(relocs[k]) <= size
  /\ \A j, k \in 1 .. nreloc :
       j < k => ByteOffset(relocs[j]) + AddressSize(relocs[j]) <= ByteOffset(relocs[k])

\* What was written is final.
Written == \A p \in 0 .. (out_pos - 1) : out[p] = Relocated(p, nreloc + 1)

InWindow == pc \in {"entry", "seek", "address", "rest"}

\* The buffer is a window on the section, between what was written and what was
\* not read, in which the entries below num_read have been processed.
Window ==
  InWindow =>
    /\ out_pos = bytes_processed
    /\ ChunkEnd + section_size = size
    /\ section_size > 0 => chunk_size = buffer_size
    /\ \A i \in 0 .. (chunk_size - 1) : buffer[i] = Relocated(bytes_processed + i, num_read)

\* The addresses still to be relocated are not in front of the window.
Ahead ==
  InWindow => \A k \in num_read .. nreloc : bytes_processed <= ByteOffset(relocs[k])

\* Those that were relocated do not go beyond it.
Behind ==
  InWindow => \A j \in 1 .. (num_read - 1) : relocs[j].type # "R_ABS" =>
    ByteOffset(relocs[j]) + AddressSize(relocs[j]) <= ChunkEnd

Control ==
  /\ pc = "start" => out_pos = 0 /\ section_size = size /\ num_read = 1
  /\ pc = "copy" => nreloc = 0 /\ out_pos + section_size = size
  /\ pc \in {"seek", "address"} => num_read <= nreloc /\ Reloc.type # "R_ABS"
  /\ pc = "rest" => num_read = nreloc + 1
  /\ pc = "done" => out_pos = size

IInv ==
  /\ TypeOK /\ AddressesApart /\ Written /\ Window /\ Ahead /\ Behind /\ Control
  /\ AddressInBuffer
=============================================================================
