--------------------------- MODULE Relocate_proofs --------------------------
(***************************************************************************)
(* Proofs about Relocate.                                                  *)
(***************************************************************************)
EXTENDS Relocate, TLAPS

\* An address lies in the word of its entry.
LEMMA AddressInWord ==
  ASSUME NEW r \in [word : Nat, type : RelocType], pm \in BOOLEAN
  PROVE  /\ ByteOffset(r) \in Nat /\ AddressSize(r) \in {3, 4}
         /\ r.word * WordSize <= ByteOffset(r)
         /\ pm => ByteOffset(r) + AddressSize(r) <= (r.word + 1) * WordSize
         /\ ~ pm => ByteOffset(r) + 4 <= (r.word + 1) * WordSize
BY DEF ByteOffset, AddressSize, WordSize, PM_WORD_SIZE, DM_WORD_SIZE, RelocType

\* The smaller of two numbers.
LEMMA Min2Def ==
  ASSUME NEW a \in Int, NEW b \in Int
  PROVE  /\ Min2(a, b) \in {a, b} /\ Min2(a, b) <= a /\ Min2(a, b) <= b
         /\ a <= b => Min2(a, b) = a
         /\ b <= a => Min2(a, b) = b
BY DEF Min2

\* What fread leaves in the buffer.
LEMMA ReadType ==
  ASSUME NEW b \in [0 .. (buffer_size - 1) -> Cell], NEW n \in Int, NEW p \in Int, NEW a \in Int
  PROVE  /\ Read(b, n, p, a) \in [0 .. (buffer_size - 1) -> Cell]
         /\ \A i \in 0 .. (buffer_size - 1) :
              Read(b, n, p, a)[i] = IF a <= i /\ i < a + n THEN [pos |-> p + i - a, times |-> 0]
                                                           ELSE b[i]
BY DEF Read, Cell

\* What fwrite leaves in the file.
LEMMA WriteOut ==
  ASSUME NEW b \in [0 .. (buffer_size - 1) -> Cell], NEW n \in 0 .. buffer_size,
         out \in [0 .. (size - 1) -> Cell], out_pos \in Nat, buffer_size \in Nat, size \in Nat,
         out_pos + n <= size, size' = size, Write(b, n)
  PROVE  /\ out' \in [0 .. (size' - 1) -> Cell] /\ out_pos' \in 0 .. size'
         /\ out_pos' = out_pos + n
         /\ \A p \in 0 .. (size - 1) :
              out'[p] = IF out_pos <= p /\ p < out_pos + n THEN b[p - out_pos] ELSE out[p]
BY DEF Write, Cell

-----------------------------------------------------------------------------
\* The section does not change.
LEMMA SectionKept ==
  ASSUME UNCHANGED section
  PROVE  /\ pm' = pm /\ size' = size /\ relocs' = relocs /\ nreloc' = nreloc
         /\ buffer_size' = buffer_size
         /\ \A r : ByteOffset(r)' = ByteOffset(r)
         /\ \A p, k : IsAddressByte(p, k)' = IsAddressByte(p, k)
         /\ \A p, k : Relocated(p, k)' = Relocated(p, k)
         /\ AddressesApart' = AddressesApart
BY DEF section, ByteOffset, WordSize, IsAddressByte, Relocated, AddressesApart

\* The invariant holds before the section is read.
LEMMA InitIInv == Init => IInv
<1> SUFFICES ASSUME Init PROVE IInv
  OBVIOUS
<1> USE BufferAssumption DEF Init
<1>1. PICK words \in 1 .. MaxWords :
        /\ size = words * WordSize
        /\ nreloc \in 0 .. words
        /\ relocs \in [1 .. nreloc -> Relocations(words, pm)]
  OBVIOUS
<1>2. WordSize \in {5, 6} /\ size \in Nat
  BY <1>1 DEF WordSize, PM_WORD_SIZE, DM_WORD_SIZE
<1>3. \A k \in 1 .. nreloc : /\ relocs[k] \in [word : Nat, type : RelocType]
                             /\ relocs[k].word < words
                             /\ ~ pm => AddressSize(relocs[k]) = 4
  BY <1>1, SMTT(30) DEF Relocations, RelocType, AddressSize
<1>4. relocs \in [1 .. nreloc -> [word : Nat, type : RelocType]]
  BY <1>1, <1>3
<1>5. TypeOK
  BY <1>1, <1>2, <1>4 DEF TypeOK, Cell, Nothing
<1>6. \A k \in 1 .. nreloc :
        /\ ByteOffset(relocs[k]) \in Nat /\ AddressSize(relocs[k]) \in {3, 4}
        /\ relocs[k].word * WordSize <= ByteOffset(relocs[k])
        /\ ByteOffset(relocs[k]) + AddressSize(relocs[k]) <= (relocs[k].word + 1) * WordSize
  BY <1>3, AddressInWord
<1>7. AddressesApart
  <2>1. ASSUME NEW k \in 1 .. nreloc
        PROVE  ByteOffset(relocs[k]) + AddressSize(relocs[k]) <= size
    <3>1. (relocs[k].word + 1) * WordSize <= words * WordSize
      BY <1>2, <1>3
    <3>2. (relocs[k].word + 1) * WordSize \in Int /\ words * WordSize \in Int
      BY <1>2, <1>3
    <3> HIDE DEF Init
    <3> QED BY <3>1, <3>2, <1>1, <1>6, SMTT(30)
  <2>2. ASSUME NEW j \in 1 .. nreloc, NEW k \in 1 .. nreloc, j < k
        PROVE  ByteOffset(relocs[j]) + AddressSize(relocs[j]) <= ByteOffset(relocs[k])
    <3>1. relocs[j].word + 1 <= relocs[k].word
      BY <2>2, <1>3
    <3>2. (relocs[j].word + 1) * WordSize <= relocs[k].word * WordSize
      BY <3>1, <1>2, <1>3, SMTT(30)
    <3>3. (relocs[j].word + 1) * WordSize \in Int /\ relocs[k].word * WordSize \in Int
      BY <1>2, <1>3, SMTT(30)
    <3> HIDE DEF Init
    <3> QED BY <3>2, <3>3, <1>6
  <2> QED BY <2>1, <2>2 DEF AddressesApart
<1>8. Written /\ Window /\ Ahead /\ Behind /\ Control /\ AddressInBuffer
  BY <1>1, <1>2 DEF Written, Window, Ahead, Behind, Control, AddressInBuffer, InWindow
<1> QED BY <1>5, <1>7, <1>8 DEF IInv

-----------------------------------------------------------------------------
\* The addresses of the entries.
LEMMA EntryAddress ==
  ASSUME TypeOK, NEW k \in 1 .. nreloc
  PROVE  ByteOffset(relocs[k]) \in Nat /\ AddressSize(relocs[k]) \in {3, 4}
BY AddressInWord DEF TypeOK

\* Whether position p has been relocated.
LEMMA RelocatedIs ==
  ASSUME NEW p, NEW k
  PROVE  /\ (\E j \in 1 .. (k - 1) : IsAddressByte(p, j)) =>
                Relocated(p, k) = [pos |-> p, times |-> 1]
         /\ (~ \E j \in 1 .. (k - 1) : IsAddressByte(p, j)) =>
                Relocated(p, k) = [pos |-> p, times |-> 0]
BY Zenon DEF Relocated

\* A byte in front of all addresses still to be relocated is final.
LEMMA Final ==
  ASSUME TypeOK, NEW n \in 1 .. (nreloc + 1), NEW p \in Int,
         \A k \in n .. nreloc : p < ByteOffset(relocs[k])
  PROVE  Relocated(p, n) = Relocated(p, nreloc + 1)
<1>1. \A k \in n .. nreloc : ~ IsAddressByte(p, k)
  BY EntryAddress DEF IsAddressByte, TypeOK
<1>2. (1 .. nreloc) = (1 .. (n - 1)) \cup (n .. nreloc)
  BY DEF TypeOK
<1>3. (\E j \in 1 .. (n - 1) : IsAddressByte(p, j)) <=> (\E j \in 1 .. nreloc : IsAddressByte(p, j))
  BY <1>1, <1>2
<1> DEFINE m == nreloc + 1
<1>4. m - 1 = nreloc
  BY DEF TypeOK
<1> HIDE DEF m
<1>5. (\E j \in 1 .. (n - 1) : IsAddressByte(p, j)) <=> (\E j \in 1 .. (m - 1) : IsAddressByte(p, j))
  BY <1>3, <1>4
<1>6. Relocated(p, n) = Relocated(p, m)
  BY <1>5, RelocatedIs, Zenon
<1> QED BY <1>6 DEF m

\* A byte behind all addresses that were relocated is as it was read.
LEMMA Fresh ==
  ASSUME TypeOK, NEW n \in 1 .. (nreloc + 1), NEW p \in Int, NEW e \in Int, e <= p,
         \A j \in 1 .. (n - 1) : relocs[j].type # "R_ABS" =>
           ByteOffset(relocs[j]) + AddressSize(relocs[j]) <= e
  PROVE  Relocated(p, n) = [pos |-> p, times |-> 0]
<1>1. ASSUME NEW j \in 1 .. (n - 1) PROVE ~ IsAddressByte(p, j)
  <2>1. j \in 1 .. nreloc
    BY DEF TypeOK
  <2>2. ByteOffset(relocs[j]) \in Nat /\ AddressSize(relocs[j]) \in {3, 4}
    BY <2>1, EntryAddress
  <2>3. CASE relocs[j].type # "R_ABS"
    <3>1. ByteOffset(relocs[j]) + AddressSize(relocs[j]) <= p
      BY <2>2, <2>3
    <3> QED BY <2>2, <3>1 DEF IsAddressByte
  <2>4. CASE relocs[j].type = "R_ABS"
    BY <2>4 DEF IsAddressByte
  <2> QED BY <2>3, <2>4
<1> QED BY <1>1 DEF Relocated

\* What is written from the front of the window is final.
LEMMA WindowWritten ==
  ASSUME IInv, InWindow, UNCHANGED section, NEW n \in 0 .. chunk_size, Write(buffer, n),
         \A k \in num_read .. nreloc : bytes_processed + n <= ByteOffset(relocs[k])
  PROVE  /\ out' \in [0 .. (size' - 1) -> Cell] /\ out_pos' \in 0 .. size'
         /\ out_pos' = bytes_processed + n
         /\ Written'
<1> USE DEF IInv
<1>1. /\ out_pos = bytes_processed /\ ChunkEnd + section_size = size
      /\ \A i \in 0 .. (chunk_size - 1) : buffer[i] = Relocated(bytes_processed + i, num_read)
  BY DEF Window
<1>2. /\ chunk_size \in Nat /\ bytes_processed \in Nat /\ section_size \in Nat
      /\ buffer_size \in Nat /\ n \in 0 .. buffer_size /\ size \in Nat
      /\ nreloc \in Nat /\ num_read \in 1 .. (nreloc + 1)
  BY BufferAssumption DEF TypeOK
<1>3. out_pos + n <= size
  BY <1>1, <1>2 DEF ChunkEnd
<1>4. size' = size /\ nreloc' = nreloc /\ \A p, k : Relocated(p, k)' = Relocated(p, k)
  BY SectionKept
<1>5. /\ out' \in [0 .. (size' - 1) -> Cell] /\ out_pos' \in 0 .. size'
      /\ out_pos' = out_pos + n
      /\ \A p \in 0 .. (size - 1) :
           out'[p] = IF out_pos <= p /\ p < out_pos + n THEN buffer[p - out_pos] ELSE out[p]
  BY <1>1, <1>2, <1>3, <1>4, WriteOut DEF TypeOK
<1>6. ASSUME NEW p \in 0 .. (out_pos' - 1)
      PROVE  out'[p] = Relocated(p, nreloc + 1)
  <2>1. p \in 0 .. (size - 1) /\ p \in Int
    BY <1>2, <1>3, <1>5
  <2>2. CASE p < out_pos
    BY <2>1, <2>2, <1>1, <1>2, <1>5 DEF Written
  <2>3. CASE p >= out_pos
    <3>1. p - out_pos \in 0 .. (chunk_size - 1) /\ bytes_processed + (p - out_pos) = p
      BY <2>1, <2>3, <1>1, <1>2, <1>5
    <3>2. out'[p] = Relocated(p, num_read)
      BY <2>1, <2>3, <3>1, <1>1, <1>2, <1>5
    <3>3. \A k \in num_read .. nreloc : p < ByteOffset(relocs[k])
      BY <2>1, <1>1, <1>2, <1>5, EntryAddress
    <3> QED BY <3>2, <3>3, <2>1, <1>2, Final
  <2> QED BY <2>1, <2>2, <2>3, <1>1, <1>2
<1>7. Written'
  BY <1>4, <1>6 DEF Written
<1> QED BY <1>1, <1>5, <1>7

\* The window moves on by a chunk.
LEMMA AdvanceIInv ==
  ASSUME IInv, pc \in {"seek", "rest"}, UNCHANGED <<pc, section, num_read>>,
         section_size > 0, Write(buffer, chunk_size), ReadChunk(ChunkEnd),
         \A k \in num_read .. nreloc : ChunkEnd <= ByteOffset(relocs[k])
  PROVE  IInv'
<1> USE DEF IInv
<1>1. InWindow /\ InWindow' /\ UNCHANGED section
  BY DEF InWindow
<1>2. /\ chunk_size \in Nat /\ bytes_processed \in Nat /\ section_size \in Nat
      /\ buffer_size \in Nat /\ buffer_size >= 8 /\ size \in Nat
      /\ nreloc \in Nat /\ num_read \in 1 .. (nreloc + 1)
      /\ ChunkEnd = bytes_processed + chunk_size /\ ChunkEnd + section_size = size
  BY <1>1, BufferAssumption DEF TypeOK, Window, ChunkEnd
<1>3. /\ pm' = pm /\ size' = size /\ relocs' = relocs /\ nreloc' = nreloc
      /\ buffer_size' = buffer_size /\ AddressesApart'
      /\ \A r : ByteOffset(r)' = ByteOffset(r)
      /\ \A p, k : Relocated(p, k)' = Relocated(p, k)
  BY SectionKept
<1>4. /\ out' \in [0 .. (size' - 1) -> Cell] /\ out_pos' \in 0 .. size'
      /\ out_pos' = ChunkEnd /\ Written'
  BY <1>1, <1>2, WindowWritten
<1>5. PICK n \in 1 .. buffer_size :
        /\ chunk_size' = n /\ n <= section_size
        /\ section_size' = section_size - n /\ bytes_processed' = ChunkEnd
        /\ section_size - n > 0 => n = buffer_size
  BY <1>2, Min2Def DEF ReadChunk
<1>6. /\ buffer' \in [0 .. (buffer_size - 1) -> Cell]
      /\ \A i \in 0 .. (n - 1) : buffer'[i] = [pos |-> ChunkEnd + i, times |-> 0]
  <2>1. buffer \in [0 .. (buffer_size - 1) -> Cell] /\ buffer' = Read(buffer, n, ChunkEnd, 0)
    BY <1>5 DEF TypeOK, ReadChunk
  <2> DEFINE read == Read(buffer, n, ChunkEnd, 0)
  <2>2. n \in Int /\ ChunkEnd \in Int
    BY <1>2, <1>5
  <2>3. /\ read \in [0 .. (buffer_size - 1) -> Cell]
        /\ \A i \in 0 .. (buffer_size - 1) :
             read[i] = IF 0 <= i /\ i < 0 + n THEN [pos |-> ChunkEnd + i - 0, times |-> 0]
                                              ELSE buffer[i]
    <3> HIDE DEF IInv
    <3>1. buffer \in [0 .. (buffer_size - 1) -> Cell] /\ n \in Int /\ ChunkEnd \in Int /\ 0 \in Int
      BY <2>1, <2>2
    <3> QED BY <3>1, ReadType, ZenonT(60)
  <2> HIDE DEF read
  <2>4. ASSUME NEW i \in 0 .. (n - 1)
        PROVE  read[i] = [pos |-> ChunkEnd + i, times |-> 0]
    <3>1. i \in 0 .. (buffer_size - 1) /\ 0 <= i /\ i < 0 + n /\ ChunkEnd + i - 0 = ChunkEnd + i
      BY <1>2, <1>5
    <3> QED BY <2>3, <3>1
  <2> QED BY <2>1, <2>3, <2>4 DEF read
<1>7. TypeOK'
  <2>1. n \in 0 .. buffer_size /\ ChunkEnd \in 0 .. size /\ section_size - n \in 0 .. size
    BY <1>2, <1>5
  <2>2. /\ chunk_size' \in 0 .. buffer_size' /\ bytes_processed' \in 0 .. size'
        /\ section_size' \in 0 .. size'
    BY <1>3, <1>5, <2>1
  <2>3. buffer' \in [0 .. (buffer_size' - 1) -> Cell]
    BY <1>3, <1>6
  <2> QED BY <1>3, <1>4, <2>2, <2>3 DEF TypeOK
<1>8. ChunkEnd' = ChunkEnd + n
  BY <1>5 DEF ChunkEnd
<1>9. Window'
  <2>1. ASSUME NEW i \in 0 .. (n - 1)
        PROVE  buffer'[i] = Relocated(ChunkEnd + i, num_read)
    <3>1. ChunkEnd + i \in Int /\ ChunkEnd \in Int /\ ChunkEnd <= ChunkEnd + i
      BY <1>2, <1>5
    <3>2. Relocated(ChunkEnd + i, num_read) = [pos |-> ChunkEnd + i, times |-> 0]
      BY <1>1, <1>2, <3>1, Fresh DEF Behind
    <3> QED BY <1>6, <3>2
  <2>2. ChunkEnd + n + (section_size - n) = size
    BY <1>2, <1>5
  <2>3. out_pos' = bytes_processed' /\ ChunkEnd' + section_size' = size'
    BY <1>3, <1>4, <1>5, <1>8, <2>2
  <2>4. section_size' > 0 => chunk_size' = buffer_size'
    BY <1>3, <1>5
  <2>5. \A i \in 0 .. (chunk_size' - 1) : buffer'[i] = Relocated(bytes_processed + i, num_read)'
    BY <1>3, <1>5, <2>1
  <2> QED BY <2>3, <2>4, <2>5 DEF Window
<1>10. Ahead'
  BY <1>3, <1>5 DEF Ahead
<1>11. Behind'
  <2>1. ASSUME NEW j \in 1 .. (num_read - 1), relocs[j].type # "R_ABS"
        PROVE  ByteOffset(relocs[j]) + AddressSize(relocs[j]) <= ChunkEnd + n
    <3>1. j \in 1 .. nreloc
      BY <1>2
    <3>2. ByteOffset(relocs[j]) + AddressSize(relocs[j]) <= ChunkEnd
      BY <1>1, <2>1 DEF Behind
    <3> QED BY <3>1, <3>2, <1>2, <1>5, EntryAddress
  <2> QED BY <1>3, <1>8, <2>1 DEF Behind, AddressSize
<1>12. Control' /\ AddressInBuffer'
  BY <1>3 DEF Control, AddressInBuffer, Reloc
<1> QED BY <1>3, <1>4, <1>7, <1>9, <1>10, <1>11, <1>12
-----------------------------------------------------------------------------
\* A byte that is not of the next address is as it was before that is relocated.
LEMMA RelocatedNext ==
  ASSUME NEW n \in Nat \ {0}, NEW p, ~ IsAddressByte(p, n)
  PROVE  Relocated(p, n + 1) = Relocated(p, n)
<1>1. (1 .. (n + 1 - 1)) = (1 .. (n - 1)) \cup {n}
  OBVIOUS
<1> DEFINE m == n + 1
<1>2. (1 .. (m - 1)) = (1 .. (n - 1)) \cup {n}
  BY <1>1
<1> HIDE DEF m
<1>3. (\E j \in 1 .. (m - 1) : IsAddressByte(p, j)) <=> (\E j \in 1 .. (n - 1) : IsAddressByte(p, j))
  BY <1>2
<1>4. Relocated(p, m) = Relocated(p, n)
  BY <1>3, RelocatedIs, Zenon
<1> QED BY <1>4 DEF m

\* A byte of the next address is relocated for the first time.
LEMMA RelocatedFirst ==
  ASSUME TypeOK, AddressesApart, NEW n \in 1 .. nreloc, NEW p \in Int, IsAddressByte(p, n)
  PROVE  /\ Relocated(p, n) = [pos |-> p, times |-> 0]
         /\ Relocated(p, n + 1) = [pos |-> p, times |-> 1]
<1>1. nreloc \in Nat /\ n \in 1 .. (nreloc + 1)
  BY DEF TypeOK
<1>2. \A j \in 1 .. (n - 1) : ByteOffset(relocs[j]) + AddressSize(relocs[j]) <= ByteOffset(relocs[n])
  BY <1>1 DEF AddressesApart
<1>3. ByteOffset(relocs[n]) \in Int /\ ByteOffset(relocs[n]) <= p
  BY EntryAddress DEF IsAddressByte
<1>4. Relocated(p, n) = [pos |-> p, times |-> 0]
  BY <1>1, <1>2, <1>3, Fresh
<1> DEFINE m == n + 1
<1>5. n \in 1 .. (m - 1)
  BY <1>1
<1> HIDE DEF m
<1>6. Relocated(p, m) = [pos |-> p, times |-> 1]
  BY <1>5, RelocatedIs, Zenon
<1> QED BY <1>4, <1>6 DEF m

\* What the invariant says of the numbers.
LEMMA Numbers ==
  ASSUME IInv
  PROVE  /\ chunk_size \in 0 .. buffer_size /\ bytes_processed \in Nat /\ section_size \in Nat
         /\ buffer_size \in Nat /\ buffer_size >= 8 /\ size \in Nat
         /\ nreloc \in Nat /\ num_read \in 1 .. (nreloc + 1)
         /\ ChunkEnd = bytes_processed + chunk_size
         /\ out_pos \in Nat
BY BufferAssumption DEF IInv, TypeOK, ChunkEnd

\* The first chunk is all fresh.
LEMMA StartIInv ==
  ASSUME IInv, Start
  PROVE  IInv'
<1> USE DEF IInv
<1>1. UNCHANGED section /\ pc = "start" /\ pc' = "entry" /\ UNCHANGED <<num_read, output>>
  BY DEF Start
<1>2. /\ pm' = pm /\ size' = size /\ relocs' = relocs /\ nreloc' = nreloc
      /\ buffer_size' = buffer_size /\ AddressesApart'
      /\ \A r : ByteOffset(r)' = ByteOffset(r)
      /\ \A p, k : Relocated(p, k)' = Relocated(p, k)
  BY <1>1, SectionKept
<1>3. out_pos = 0 /\ section_size = size /\ num_read = 1
  BY <1>1 DEF Control
<1>4. PICK n \in 0 .. buffer_size :
        /\ chunk_size' = n /\ n <= size
        /\ section_size' = size - n /\ bytes_processed' = 0
        /\ size - n > 0 => n = buffer_size
        /\ buffer' = Read(buffer, n, 0, 0)
  BY <1>3, Numbers, Min2Def DEF Start, ReadChunk
<1>5. /\ buffer' \in [0 .. (buffer_size - 1) -> Cell]
      /\ \A i \in 0 .. (n - 1) : buffer'[i] = [pos |-> i, times |-> 0]
  <2> DEFINE read == Read(buffer, n, 0, 0)
  <2>1. buffer \in [0 .. (buffer_size - 1) -> Cell] /\ n \in Int /\ 0 \in Int
    BY Numbers DEF TypeOK
  <2>2. /\ read \in [0 .. (buffer_size - 1) -> Cell]
        /\ \A i \in 0 .. (buffer_size - 1) :
             read[i] = IF 0 <= i /\ i < 0 + n THEN [pos |-> 0 + i - 0, times |-> 0] ELSE buffer[i]
    <3> HIDE DEF IInv
    <3> QED BY <2>1, ReadType, Zenon
  <2> HIDE DEF read
  <2>3. ASSUME NEW i \in 0 .. (n - 1) PROVE read[i] = [pos |-> i, times |-> 0]
    <3>1. i \in 0 .. (buffer_size - 1) /\ 0 <= i /\ i < 0 + n /\ 0 + i - 0 = i
      BY Numbers
    <3> QED BY <2>2, <3>1
  <2> QED BY <1>4, <2>2, <2>3 DEF read
<1>6. TypeOK'
  <2>1. /\ chunk_size' \in 0 .. buffer_size' /\ bytes_processed' \in 0 .. size'
        /\ section_size' \in 0 .. size'
    BY <1>2, <1>4, Numbers
  <2> QED BY <1>1, <1>2, <1>5, <2>1 DEF TypeOK, output
<1>7. Window'
  <2>1. ASSUME NEW i \in 0 .. (n - 1) PROVE buffer'[i] = Relocated(0 + i, 1)
    <3>1. i \in Int /\ 0 <= i /\ 0 + i = i /\ 1 \in 1 .. (nreloc + 1) /\ 1 .. (1 - 1) = {}
      BY Numbers
    <3>2. Relocated(i, 1) = [pos |-> i, times |-> 0]
      BY <3>1, RelocatedIs
    <3> QED BY <1>5, <3>1, <3>2
  <2>2. 0 + n + (size - n) = size
    BY <1>4, Numbers
  <2>3. out_pos' = bytes_processed' /\ ChunkEnd' + section_size' = size'
    BY <1>1, <1>2, <1>3, <1>4, <2>2 DEF ChunkEnd, output
  <2>4. section_size' > 0 => chunk_size' = buffer_size'
    BY <1>2, <1>4
  <2>5. \A i \in 0 .. (chunk_size' - 1) : buffer'[i] = Relocated(bytes_processed + i, num_read)'
    BY <1>1, <1>2, <1>3, <1>4, <2>1
  <2> QED BY <2>3, <2>4, <2>5 DEF Window
<1>8. Ahead'
  <2>1. \A k \in 1 .. nreloc : 0 <= ByteOffset(relocs[k])
    BY EntryAddress
  <2> QED BY <1>1, <1>2, <1>3, <1>4, <2>1 DEF Ahead
<1>9. Behind'
  <2>1. 1 .. (num_read - 1) = {}
    BY <1>3
  <2> QED BY <1>1, <2>1 DEF Behind
<1>10. Written'
  BY <1>1, <1>2 DEF Written, output
<1>11. Control' /\ AddressInBuffer'
  BY <1>1 DEF Control, AddressInBuffer
<1> QED BY <1>2, <1>6, <1>7, <1>8, <1>9, <1>10, <1>11
-----------------------------------------------------------------------------
\* The end of the buffer is kept and the rest of an address read behind it.
LEMMA PartialAddressIInv ==
  ASSUME IInv, PartialAddress
  PROVE  IInv'
<1> USE DEF IInv
<1> DEFINE a == AddressSize(Reloc)
           b == ByteOffset(Reloc)
<1>1. /\ UNCHANGED section /\ pc = "seek" /\ pc' = "address" /\ num_read' = num_read
      /\ InWindow /\ InWindow' /\ b <= ChunkEnd /\ b + a > ChunkEnd /\ section_size > 0
  BY DEF PartialAddress, Partial, InWindow
<1>2. /\ pm' = pm /\ size' = size /\ relocs' = relocs /\ nreloc' = nreloc
      /\ buffer_size' = buffer_size /\ AddressesApart'
      /\ \A r : ByteOffset(r)' = ByteOffset(r)
      /\ \A p, k : Relocated(p, k)' = Relocated(p, k)
  BY <1>1, SectionKept
<1>3. num_read \in 1 .. nreloc /\ Reloc = relocs[num_read] /\ relocs[num_read].type # "R_ABS"
  BY <1>1, Numbers DEF Control, Reloc
<1>4. /\ a \in {3, 4} /\ b \in Nat /\ b + a <= size
      /\ \A k \in num_read .. nreloc : b <= ByteOffset(relocs[k])
  <2>1. a \in {3, 4} /\ b \in Nat
    BY <1>3, EntryAddress
  <2>2. b + a <= size
    BY <1>3 DEF AddressesApart
  <2>3. ASSUME NEW k \in num_read .. nreloc PROVE b <= ByteOffset(relocs[k])
    <3>1. k \in 1 .. nreloc /\ ByteOffset(relocs[k]) \in Nat
      BY <1>3, Numbers, EntryAddress
    <3>2. CASE k = num_read
      BY <3>2, <2>1, <1>3
    <3>3. CASE num_read < k
      <4>1. b + a <= ByteOffset(relocs[k])
        BY <3>1, <3>3, <1>3 DEF AddressesApart
      <4> QED BY <4>1, <3>1, <2>1
    <3> QED BY <3>2, <3>3, <1>3, Numbers
  <2> QED BY <2>1, <2>2, <2>3
<1>5. /\ chunk_size = buffer_size /\ ChunkEnd + section_size = size
      /\ \A i \in 0 .. (chunk_size - 1) : buffer[i] = Relocated(bytes_processed + i, num_read)
  BY <1>1 DEF Window
<1> HIDE DEF a, b
<1>6. /\ out' \in [0 .. (size' - 1) -> Cell] /\ out_pos' \in 0 .. size'
      /\ out_pos' = ChunkEnd - a /\ Written'
  <2>1. chunk_size - a \in 0 .. chunk_size /\ bytes_processed + (chunk_size - a) = ChunkEnd - a
    BY <1>4, <1>5, Numbers
  <2>2. \A k \in num_read .. nreloc : bytes_processed + (chunk_size - a) <= ByteOffset(relocs[k])
    <3>1. \A k \in num_read .. nreloc : ByteOffset(relocs[k]) \in Nat
      BY <1>3, Numbers, EntryAddress
    <3> QED BY <2>1, <3>1, <1>1, <1>4, Numbers
  <2>3. Write(buffer, chunk_size - a)
    BY DEF PartialAddress, a
  <2> QED BY <1>1, <2>1, <2>2, <2>3, WindowWritten
<1>7. PICK n \in 1 .. (buffer_size - a) :
        /\ n <= section_size /\ n = Min2(section_size, buffer_size - a)
        /\ section_size - n > 0 => n = buffer_size - a
  <2>1. section_size \in Int /\ buffer_size - a \in Int
    BY <1>4, Numbers
  <2> QED BY <2>1, <1>1, <1>4, Numbers, Min2Def
<1> DEFINE kept == [i \in DOMAIN buffer |-> IF i < a THEN buffer[chunk_size - (a - i)] ELSE buffer[i]]
           read == Read(kept, n, ChunkEnd, a)
<1>8. /\ bytes_processed' = ChunkEnd - a /\ buffer' = read
      /\ section_size' = section_size - n /\ chunk_size' = n + a
  BY <1>7 DEF PartialAddress, ReadRest, a
<1>9. buffer \in [0 .. (buffer_size - 1) -> Cell]
  BY DEF TypeOK
<1>10. /\ kept \in [0 .. (buffer_size - 1) -> Cell]
       /\ \A i \in 0 .. (buffer_size - 1) :
            kept[i] = IF i < a THEN buffer[chunk_size - (a - i)] ELSE buffer[i]
  <2>1. \A i \in 0 .. (buffer_size - 1) : i < a => chunk_size - (a - i) \in 0 .. (buffer_size - 1)
    BY <1>4, <1>5, Numbers
  <2> QED BY <1>9, <2>1
<1> HIDE DEF kept
<1>11. /\ read \in [0 .. (buffer_size - 1) -> Cell]
       /\ \A i \in 0 .. (buffer_size - 1) :
            read[i] = IF a <= i /\ i < a + n THEN [pos |-> ChunkEnd + i - a, times |-> 0] ELSE kept[i]
  <2>1. a \in Int /\ n \in Int /\ ChunkEnd \in Int
    BY <1>4, <1>7, Numbers
  <2> HIDE DEF IInv
  <2> QED BY <1>10, <2>1, ReadType, ZenonT(60)
<1> HIDE DEF read
<1>12. ASSUME NEW i \in 0 .. ((n + a) - 1)
       PROVE  read[i] = Relocated(ChunkEnd - a + i, num_read)
  <2>1. i \in 0 .. (buffer_size - 1) /\ i \in Int
    BY <1>4, <1>7, Numbers
  <2>2. CASE i < a
    <3>1. /\ read[i] = buffer[chunk_size - (a - i)]
          /\ chunk_size - (a - i) \in 0 .. (chunk_size - 1)
          /\ bytes_processed + (chunk_size - (a - i)) = ChunkEnd - a + i
      <4>1. /\ ~ (a <= i) /\ chunk_size - (a - i) \in 0 .. (chunk_size - 1)
            /\ bytes_processed + (chunk_size - (a - i)) = ChunkEnd - a + i
        BY <2>1, <2>2, <1>4, <1>5, Numbers
      <4>2. read[i] = kept[i] /\ kept[i] = buffer[chunk_size - (a - i)]
        BY <2>1, <2>2, <4>1, <1>10, <1>11
      <4> QED BY <4>1, <4>2
    <3> QED BY <3>1, <1>5
  <2>3. CASE a <= i
    <3>1. i < a + n /\ ChunkEnd + i - a = ChunkEnd - a + i
      BY <2>1, <1>4, <1>7, Numbers
    <3>2. read[i] = [pos |-> ChunkEnd - a + i, times |-> 0]
      BY <2>1, <2>3, <3>1, <1>11
    <3>3. /\ ChunkEnd - a + i \in Int /\ ChunkEnd \in Int /\ ChunkEnd <= ChunkEnd - a + i
          /\ num_read \in 1 .. (nreloc + 1)
      BY <2>1, <2>3, <1>4, Numbers
    <3>4. Relocated(ChunkEnd - a + i, num_read) = [pos |-> ChunkEnd - a + i, times |-> 0]
      BY <3>3, <1>1, Fresh DEF Behind
    <3> QED BY <3>2, <3>4
  <2> QED BY <2>1, <2>2, <2>3, <1>4
<1>13. TypeOK'
  <2>1. n + a \in 0 .. buffer_size /\ ChunkEnd - a \in 0 .. size /\ section_size - n \in 0 .. size
    BY <1>4, <1>5, <1>7, Numbers
  <2>2. /\ chunk_size' \in 0 .. buffer_size' /\ bytes_processed' \in 0 .. size'
        /\ section_size' \in 0 .. size'
    BY <1>2, <1>8, <2>1
  <2>3. buffer' \in [0 .. (buffer_size' - 1) -> Cell]
    BY <1>2, <1>8, <1>11
  <2> QED BY <1>1, <1>2, <1>6, <2>2, <2>3 DEF TypeOK
<1>14. ChunkEnd' = ChunkEnd + n
  <2>1. ChunkEnd - a + (n + a) = ChunkEnd + n
    BY <1>4, <1>7, Numbers
  <2> QED BY <2>1, <1>8 DEF ChunkEnd
<1>15. Window'
  <2>1. ChunkEnd + n + (section_size - n) = size /\ (section_size - n > 0 => n + a = buffer_size)
    BY <1>4, <1>5, <1>7, Numbers
  <2>2. out_pos' = bytes_processed' /\ ChunkEnd' + section_size' = size'
    BY <1>2, <1>6, <1>8, <1>14, <2>1
  <2>3. section_size' > 0 => chunk_size' = buffer_size'
    BY <1>2, <1>8, <2>1
  <2>4. \A i \in 0 .. (chunk_size' - 1) : buffer'[i] = Relocated(bytes_processed + i, num_read)'
    <3> DEFINE base == ChunkEnd - a
               last == n + a
    <3>1. bytes_processed' = base /\ chunk_size' = last
      BY <1>8
    <3>2. \A i \in 0 .. (last - 1) : read[i] = Relocated(base + i, num_read)
      BY <1>12
    <3> HIDE DEF base, last
    <3> QED BY <1>1, <1>2, <1>8, <3>1, <3>2
  <2> QED BY <2>2, <2>3, <2>4 DEF Window
<1>16. Ahead'
  <2>1. \A k \in num_read .. nreloc : ChunkEnd - a <= ByteOffset(relocs[k])
    <3>1. \A k \in num_read .. nreloc : ByteOffset(relocs[k]) \in Nat
      BY <1>3, Numbers, EntryAddress
    <3> QED BY <3>1, <1>1, <1>4, Numbers
  <2> QED BY <1>1, <1>2, <1>8, <2>1 DEF Ahead
<1>17. Behind'
  <2>1. ASSUME NEW j \in 1 .. (num_read - 1), relocs[j].type # "R_ABS"
        PROVE  ByteOffset(relocs[j]) + AddressSize(relocs[j]) <= ChunkEnd + n
    <3>1. j \in 1 .. nreloc
      BY Numbers
    <3>2. ByteOffset(relocs[j]) + AddressSize(relocs[j]) <= ChunkEnd
      BY <1>1, <2>1 DEF Behind
    <3> QED BY <3>1, <3>2, <1>7, Numbers, EntryAddress
  <2> QED BY <1>1, <1>2, <1>14, <2>1 DEF Behind, AddressSize
<1>18. Control'
  BY <1>1, <1>2, <1>3 DEF Control, Reloc
<1>19. AddressInBuffer'
  <2>1. b - (ChunkEnd - a) >= 0 /\ b - (ChunkEnd - a) + a <= n + a
    <3>1. n >= a \/ n = section_size
      BY <1>4, <1>7, Numbers
    <3> QED BY <3>1, <1>1, <1>4, <1>5, <1>7, Numbers
  <2>2. Index' = b - (ChunkEnd - a) /\ AddressSize(Reloc)' = a
    BY <1>1, <1>2, <1>8 DEF Index, Reloc, AddressSize, a, b
  <2> QED BY <2>1, <2>2, <1>8 DEF AddressInBuffer
<1> QED BY <1>2, <1>6, <1>13, <1>15, <1>16, <1>17, <1>18, <1>19
-----------------------------------------------------------------------------
\* An entry's address and the entries in front of it and behind it.
LEMMA NextEntry ==
  ASSUME IInv, num_read <= nreloc
  PROVE  /\ num_read \in 1 .. nreloc /\ Reloc = relocs[num_read]
         /\ ByteOffset(Reloc) \in Nat /\ AddressSize(Reloc) \in {3, 4}
         /\ ByteOffset(Reloc) + AddressSize(Reloc) <= size
         /\ \A k \in num_read .. nreloc : ByteOffset(Reloc) <= ByteOffset(relocs[k])
         /\ \A k \in (num_read + 1) .. nreloc :
              ByteOffset(Reloc) + AddressSize(Reloc) <= ByteOffset(relocs[k])
<1> USE DEF IInv
<1>1. num_read \in 1 .. nreloc /\ Reloc = relocs[num_read]
  BY Numbers DEF Reloc
<1>2. ByteOffset(Reloc) \in Nat /\ AddressSize(Reloc) \in {3, 4}
  BY <1>1, EntryAddress
<1>3. ByteOffset(Reloc) + AddressSize(Reloc) <= size
  BY <1>1 DEF AddressesApart
<1>4. ASSUME NEW k \in (num_read + 1) .. nreloc
      PROVE  ByteOffset(Reloc) + AddressSize(Reloc) <= ByteOffset(relocs[k])
  <2>1. k \in 1 .. nreloc /\ num_read < k
    BY <1>1, Numbers
  <2> QED BY <1>1, <2>1 DEF AddressesApart
<1>5. ASSUME NEW k \in num_read .. nreloc
      PROVE  ByteOffset(Reloc) <= ByteOffset(relocs[k])
  <2>1. k \in 1 .. nreloc /\ ByteOffset(relocs[k]) \in Nat
    BY <1>1, Numbers, EntryAddress
  <2>2. CASE k = num_read
    BY <2>2, <1>1, <1>2
  <2>3. CASE k # num_read
    <3>1. k \in (num_read + 1) .. nreloc
      BY <2>3, <1>1, Numbers
    <3> QED BY <3>1, <2>1, <1>2, <1>4
  <2> QED BY <2>2, <2>3
<1> QED BY <1>1, <1>2, <1>3, <1>4, <1>5

\* The next entry has been processed, and the buffer is as it should be then.
LEMMA EntryDone ==
  ASSUME IInv, InWindow, num_read <= nreloc,
         UNCHANGED <<section, chunk_size, bytes_processed, section_size, output>>,
         pc' = "entry", num_read' = num_read + 1,
         Reloc.type # "R_ABS" => ByteOffset(Reloc) + AddressSize(Reloc) <= ChunkEnd,
         buffer' \in [0 .. (buffer_size - 1) -> Cell],
         \A i \in 0 .. (chunk_size - 1) : buffer'[i] = Relocated(bytes_processed + i, num_read + 1)
  PROVE  IInv'
<1> USE DEF IInv
<1>1. /\ pm' = pm /\ size' = size /\ relocs' = relocs /\ nreloc' = nreloc
      /\ buffer_size' = buffer_size /\ AddressesApart'
      /\ \A r : ByteOffset(r)' = ByteOffset(r)
      /\ \A p, k : Relocated(p, k)' = Relocated(p, k)
  BY SectionKept
<1>2. num_read \in 1 .. nreloc /\ num_read + 1 \in 1 .. (nreloc + 1)
  BY NextEntry, Numbers, SMTT(30)
<1>3. out' = out /\ out_pos' = out_pos /\ InWindow' /\ ChunkEnd' = ChunkEnd
  BY DEF output, InWindow, ChunkEnd
<1>4. TypeOK'
  BY <1>1, <1>2, <1>3 DEF TypeOK
<1>5. Written'
  BY <1>1, <1>3 DEF Written
<1>6. Window'
  <2>1. \A i \in 0 .. (chunk_size' - 1) : buffer'[i] = Relocated(bytes_processed + i, num_read)'
    BY <1>1
  <2> QED BY <1>1, <1>3, <2>1 DEF Window
<1>7. Ahead'
  <2>1. \A k \in (num_read + 1) .. nreloc : bytes_processed <= ByteOffset(relocs[k])
    <3>1. ((num_read + 1) .. nreloc) \subseteq (num_read .. nreloc)
      BY <1>2, Numbers
    <3> QED BY <3>1 DEF Ahead
  <2> QED BY <1>1, <2>1 DEF Ahead
<1>8. Behind'
  <2>1. ASSUME NEW j \in 1 .. ((num_read + 1) - 1), relocs[j].type # "R_ABS"
        PROVE  ByteOffset(relocs[j]) + AddressSize(relocs[j]) <= ChunkEnd
    <3>1. j \in 1 .. (num_read - 1) \/ j = num_read
      BY <1>2, Numbers
    <3> QED BY <3>1, <2>1 DEF Behind, Reloc
  <2> QED BY <1>1, <1>3, <2>1 DEF Behind, AddressSize
<1>9. Control' /\ AddressInBuffer'
  BY DEF Control, AddressInBuffer
<1> QED BY <1>1, <1>4, <1>5, <1>6, <1>7, <1>8, <1>9

\* An entry that is not relocated is passed (relocate_section).
LEMMA SkipAbsoluteIInv ==
  ASSUME IInv, SkipAbsolute
  PROVE  IInv'
<1>1. /\ InWindow /\ num_read <= nreloc /\ Reloc.type = "R_ABS"
      /\ UNCHANGED <<section, chunk_size, bytes_processed, section_size, output>>
      /\ pc' = "entry" /\ num_read' = num_read + 1 /\ buffer' = buffer
  BY DEF SkipAbsolute, InWindow, window
<1>2. num_read \in 1 .. nreloc /\ num_read \in Nat \ {0} /\ relocs[num_read].type = "R_ABS"
  BY <1>1, NextEntry DEF Reloc
<1>3. ASSUME NEW i \in 0 .. (chunk_size - 1)
      PROVE  buffer'[i] = Relocated(bytes_processed + i, num_read + 1)
  <2>1. ~ IsAddressByte(bytes_processed + i, num_read)
    BY <1>2 DEF IsAddressByte
  <2>2. Relocated(bytes_processed + i, num_read + 1) = Relocated(bytes_processed + i, num_read)
    BY <1>2, <2>1, RelocatedNext
  <2> QED BY <1>1, <2>2 DEF IInv, Window
<1>4. buffer' \in [0 .. (buffer_size - 1) -> Cell]
  BY <1>1 DEF IInv, TypeOK
<1> QED BY <1>1, <1>3, <1>4, EntryDone

\* An address that is whole in the buffer is relocated there.
LEMMA RelocateAddressIInv ==
  ASSUME IInv, RelocateAddress
  PROVE  IInv'
<1>1. /\ InWindow /\ pc = "address"
      /\ UNCHANGED <<section, chunk_size, bytes_processed, section_size, output>>
      /\ pc' = "entry" /\ num_read' = num_read + 1
  BY DEF RelocateAddress, InWindow
<1>2. num_read <= nreloc /\ Reloc.type # "R_ABS"
  BY <1>1 DEF IInv, Control
<1>3. /\ num_read \in 1 .. nreloc /\ num_read \in Nat \ {0} /\ Reloc = relocs[num_read]
      /\ ByteOffset(Reloc) \in Nat /\ AddressSize(Reloc) \in {3, 4}
  BY <1>2, NextEntry, Numbers
<1>4. Index >= 0 /\ Index + AddressSize(Reloc) <= chunk_size /\ Index = ByteOffset(Reloc) - bytes_processed
  BY <1>1 DEF IInv, AddressInBuffer, Index
<1>5. ByteOffset(Reloc) + AddressSize(Reloc) <= ChunkEnd
  BY <1>3, <1>4, Numbers
<1>6. /\ buffer' \in [0 .. (buffer_size - 1) -> Cell]
      /\ \A i \in 0 .. (buffer_size - 1) :
           buffer'[i] = IF Index <= i /\ i < Index + AddressSize(Reloc)
                          THEN [pos |-> buffer[i].pos, times |-> buffer[i].times + 1] ELSE buffer[i]
  <2>1. buffer \in [0 .. (buffer_size - 1) -> Cell]
    BY DEF IInv, TypeOK
  <2>2. \A i \in 0 .. (buffer_size - 1) :
          /\ buffer[i] \in Cell
          /\ [buffer[i] EXCEPT !.times = @ + 1] = [pos |-> buffer[i].pos, times |-> buffer[i].times + 1]
          /\ [buffer[i] EXCEPT !.times = @ + 1] \in Cell
    BY <2>1 DEF Cell
  <2>3. buffer' = [i \in 0 .. (buffer_size - 1) |->
                     IF Index <= i /\ i < Index + AddressSize(Reloc)
                       THEN [buffer[i] EXCEPT !.times = @ + 1] ELSE buffer[i]]
    BY <2>1 DEF RelocateAddress
  <2> QED BY <2>2, <2>3
<1>7. ASSUME NEW i \in 0 .. (chunk_size - 1)
      PROVE  buffer'[i] = Relocated(bytes_processed + i, num_read + 1)
  <2> DEFINE p == bytes_processed + i
  <2>1. i \in 0 .. (buffer_size - 1) /\ p \in Int
    BY Numbers
  <2>2. buffer[i] = Relocated(p, num_read)
    BY <1>1 DEF IInv, Window
  <2>3. IsAddressByte(p, num_read) <=> (Index <= i /\ i < Index + AddressSize(Reloc))
    BY <2>1, <1>2, <1>3, <1>4, Numbers DEF IsAddressByte
  <2> HIDE DEF p
  <2>4. CASE IsAddressByte(p, num_read)
    <3>1. /\ Relocated(p, num_read) = [pos |-> p, times |-> 0]
          /\ Relocated(p, num_read + 1) = [pos |-> p, times |-> 1]
      BY <2>1, <2>4, <1>3, RelocatedFirst DEF IInv
    <3>2. buffer'[i] = [pos |-> buffer[i].pos, times |-> buffer[i].times + 1]
      BY <2>1, <2>3, <2>4, <1>6
    <3> QED BY <2>2, <3>1, <3>2 DEF p
  <2>5. CASE ~ IsAddressByte(p, num_read)
    <3>1. Relocated(p, num_read + 1) = Relocated(p, num_read)
      BY <2>5, <1>3, RelocatedNext
    <3>2. buffer'[i] = buffer[i]
      BY <2>1, <2>3, <2>5, <1>6
    <3> QED BY <2>2, <3>1, <3>2 DEF p
  <2> QED BY <2>4, <2>5
<1> QED BY <1>1, <1>2, <1>5, <1>6, <1>7, EntryDone
-----------------------------------------------------------------------------
\* Steps that only move control.
LEMMA ControlIInv ==
  ASSUME IInv, Relocatable \/ WholeAddress \/ EndEntries \/ EndCopy
  PROVE  IInv'
<1> USE DEF IInv
<1>1. UNCHANGED <<section, window, num_read, output>>
  BY DEF Relocatable, WholeAddress, EndEntries, EndCopy
<1>2. /\ pm' = pm /\ size' = size /\ relocs' = relocs /\ nreloc' = nreloc
      /\ buffer_size' = buffer_size /\ AddressesApart'
      /\ \A r : ByteOffset(r)' = ByteOffset(r)
      /\ \A p, k : Relocated(p, k)' = Relocated(p, k)
  BY <1>1, SectionKept
<1>3. /\ buffer' = buffer /\ chunk_size' = chunk_size /\ bytes_processed' = bytes_processed
      /\ section_size' = section_size /\ num_read' = num_read /\ out' = out /\ out_pos' = out_pos
      /\ ChunkEnd' = ChunkEnd /\ Index' = Index /\ Reloc' = Reloc
      /\ \A r : AddressSize(r)' = AddressSize(r)
  BY <1>1, <1>2 DEF window, output, ChunkEnd, Index, Reloc, AddressSize
<1>4. /\ InWindow' => InWindow
      /\ pc' \in {"seek", "address", "rest", "done"}
  BY DEF InWindow, Relocatable, WholeAddress, EndEntries, EndCopy
<1>5. TypeOK'
  BY <1>2, <1>3, <1>4 DEF TypeOK
<1>6. Written'
  BY <1>2, <1>3 DEF Written
<1>7. Window'
  <2>1. \A i \in 0 .. (chunk_size - 1) : Relocated(bytes_processed + i, num_read)' = Relocated(bytes_processed + i, num_read)
    BY <1>2, <1>3
  <2>2. InWindow' => \A i \in 0 .. (chunk_size' - 1) : buffer'[i] = Relocated(bytes_processed + i, num_read)'
    BY <1>3, <1>4, <2>1 DEF Window
  <2> QED BY <1>2, <1>3, <1>4, <2>2 DEF Window
<1>8. Ahead'
  BY <1>2, <1>3, <1>4 DEF Ahead
<1>9. Behind'
  BY <1>2, <1>3, <1>4 DEF Behind
<1>10. Control'
  <2>1. Relocatable => num_read <= nreloc /\ Reloc.type # "R_ABS" /\ pc' = "seek"
    BY DEF Relocatable
  <2>2. WholeAddress => num_read <= nreloc /\ Reloc.type # "R_ABS" /\ pc' = "address"
    BY DEF WholeAddress, Control
  <2>3. EndEntries => num_read = nreloc + 1 /\ pc' = "rest"
    BY Numbers DEF EndEntries
  <2>4. EndCopy => out_pos = size /\ pc' = "done"
    BY Numbers DEF EndCopy, Control, TypeOK
  <2> QED BY <1>2, <1>3, <1>4, <2>1, <2>2, <2>3, <2>4 DEF Control
<1>11. AddressInBuffer'
  <2>1. CASE WholeAddress
    <3>1. /\ pc = "seek" /\ InWindow /\ num_read <= nreloc /\ ByteOffset(Reloc) <= ChunkEnd
          /\ ~ (ByteOffset(Reloc) + AddressSize(Reloc) > ChunkEnd /\ section_size > 0)
      BY <2>1 DEF WholeAddress, Partial, InWindow, Control
    <3>2. /\ bytes_processed <= ByteOffset(Reloc) /\ ChunkEnd + section_size = size
      BY <3>1, NextEntry, Numbers DEF Ahead, Window
    <3>3. ByteOffset(Reloc) + AddressSize(Reloc) <= ChunkEnd
      BY <3>1, <3>2, NextEntry, Numbers
    <3>4. Index >= 0 /\ Index + AddressSize(Reloc) <= chunk_size
      BY <3>1, <3>2, <3>3, NextEntry, Numbers DEF Index
    <3> QED BY <1>3, <3>4 DEF AddressInBuffer
  <2>2. CASE Relocatable \/ EndEntries \/ EndCopy
    BY <2>2 DEF AddressInBuffer, Relocatable, EndEntries, EndCopy
  <2> QED BY <2>1, <2>2
<1> QED BY <1>2, <1>5, <1>6, <1>7, <1>8, <1>9, <1>10, <1>11

\* A buffer in front of the next address is written, and the next chunk read.
LEMMA NextChunkIInv ==
  ASSUME IInv, NextChunk
  PROVE  IInv'
<1>1. /\ pc = "seek" /\ UNCHANGED <<pc, section, num_read>> /\ InWindow
      /\ Write(buffer, chunk_size) /\ ReadChunk(ChunkEnd) /\ ByteOffset(Reloc) > ChunkEnd
      /\ num_read <= nreloc
  BY DEF NextChunk, InWindow, IInv, Control
<1>2. section_size > 0
  BY <1>1, NextEntry, Numbers DEF IInv, Window
<1>3. ASSUME NEW k \in num_read .. nreloc PROVE ChunkEnd <= ByteOffset(relocs[k])
  <2>1. k \in 1 .. nreloc
    BY Numbers
  <2>2. ByteOffset(relocs[k]) \in Nat
    BY <2>1, EntryAddress DEF IInv
  <2> QED BY <2>2, <1>1, NextEntry, Numbers
<1> QED BY <1>1, <1>2, <1>3, AdvanceIInv

\* Behind the last entry the rest is copied by chunks.
LEMMA RestOfSectionIInv ==
  ASSUME IInv, RestOfSection
  PROVE  IInv'
<1>1. /\ pc = "rest" /\ UNCHANGED <<pc, section, num_read>> /\ section_size > 0
      /\ Write(buffer, chunk_size) /\ ReadChunk(ChunkEnd) /\ num_read = nreloc + 1
  BY DEF RestOfSection, IInv, Control
<1>2. \A k \in num_read .. nreloc : FALSE
  BY <1>1, Numbers
<1> QED BY <1>1, <1>2, AdvanceIInv

\* The last chunk is written when nothing of the section is left to read.
LEMMA LastChunkIInv ==
  ASSUME IInv, LastChunk
  PROVE  IInv'
<1> USE DEF IInv
<1>1. /\ pc = "rest" /\ pc' = "done" /\ UNCHANGED section /\ UNCHANGED <<window, num_read>>
      /\ section_size = 0 /\ Write(buffer, chunk_size) /\ num_read = nreloc + 1 /\ InWindow
  BY DEF LastChunk, Control, InWindow
<1>2. /\ pm' = pm /\ size' = size /\ relocs' = relocs /\ nreloc' = nreloc
      /\ buffer_size' = buffer_size /\ AddressesApart'
  BY <1>1, SectionKept
<1>3. \A k \in num_read .. nreloc : FALSE
  BY <1>1, Numbers
<1>4. chunk_size \in 0 .. chunk_size /\ bytes_processed + chunk_size = size
  BY <1>1, Numbers DEF Window
<1>5. /\ out' \in [0 .. (size' - 1) -> Cell] /\ out_pos' \in 0 .. size'
      /\ out_pos' = size /\ Written'
  BY <1>1, <1>3, <1>4, WindowWritten
<1>6. TypeOK'
  BY <1>1, <1>2, <1>5 DEF TypeOK, window
<1>7. Window' /\ Ahead' /\ Behind' /\ Control' /\ AddressInBuffer'
  BY <1>1, <1>2, <1>5 DEF Window, Ahead, Behind, Control, AddressInBuffer, InWindow
<1> QED BY <1>2, <1>5, <1>6, <1>7

\* A section without entries is copied.
LEMMA CopyChunkIInv ==
  ASSUME IInv, CopyChunk
  PROVE  IInv'
<1> USE DEF IInv
<1>1. /\ pc = "copy" /\ pc' = "copy" /\ UNCHANGED section /\ section_size > 0
      /\ UNCHANGED <<chunk_size, bytes_processed, num_read>>
  BY DEF CopyChunk
<1>2. /\ pm' = pm /\ size' = size /\ relocs' = relocs /\ nreloc' = nreloc
      /\ buffer_size' = buffer_size /\ AddressesApart'
      /\ \A p, k : Relocated(p, k)' = Relocated(p, k)
  BY <1>1, SectionKept
<1>3. nreloc = 0 /\ out_pos + section_size = size
  BY <1>1 DEF Control
<1>4. PICK n \in 1 .. buffer_size :
        /\ n <= section_size /\ section_size' = section_size - n
        /\ buffer' = Read(buffer, n, size - section_size, 0) /\ Write(buffer', n)
  BY <1>1, Numbers, Min2Def DEF CopyChunk
<1> DEFINE read == Read(buffer, n, size - section_size, 0)
<1>5. /\ read \in [0 .. (buffer_size - 1) -> Cell]
      /\ \A i \in 0 .. (buffer_size - 1) :
           read[i] = IF 0 <= i /\ i < 0 + n
                       THEN [pos |-> size - section_size + i - 0, times |-> 0] ELSE buffer[i]
  <2>1. /\ buffer \in [0 .. (buffer_size - 1) -> Cell]
        /\ n \in Int /\ size - section_size \in Int /\ 0 \in Int
    BY Numbers DEF TypeOK
  <2> HIDE DEF IInv
  <2> QED BY <2>1, ReadType, ZenonT(60)
<1>6. buffer' = read /\ Write(read, n)
  BY <1>4
<1> HIDE DEF read
<1>7. /\ out' \in [0 .. (size' - 1) -> Cell] /\ out_pos' \in 0 .. size'
      /\ out_pos' = out_pos + n
      /\ \A p \in 0 .. (size - 1) :
           out'[p] = IF out_pos <= p /\ p < out_pos + n THEN read[p - out_pos] ELSE out[p]
  <2>1. /\ n \in 0 .. buffer_size /\ out_pos + n <= size
        /\ out_pos \in Nat /\ buffer_size \in Nat /\ size \in Nat
    BY <1>3, <1>4, Numbers
  <2> QED BY <2>1, <1>2, <1>5, <1>6, WriteOut DEF TypeOK
<1>8. ASSUME NEW p \in 0 .. ((out_pos + n) - 1)
      PROVE  out'[p] = Relocated(p, nreloc + 1)
  <2>1. p \in 0 .. (size - 1)
    BY <1>3, <1>4, Numbers
  <2>2. CASE p < out_pos
    <3>1. p \in 0 .. (out_pos - 1) /\ ~ (out_pos <= p)
      BY <2>1, <2>2, Numbers
    <3>2. out'[p] = out[p]
      BY <2>1, <3>1, <1>7
    <3> QED BY <3>1, <3>2 DEF Written
  <2>3. CASE p >= out_pos
    <3>1. /\ p - out_pos \in 0 .. (buffer_size - 1) /\ 0 <= p - out_pos /\ p - out_pos < 0 + n
          /\ size - section_size + (p - out_pos) - 0 = p
      BY <2>1, <2>3, <1>3, <1>4, Numbers
    <3>2. out'[p] = [pos |-> p, times |-> 0]
      <4>1. out_pos <= p /\ p < out_pos + n
        BY <2>1, <2>3, Numbers
      <4>2. out'[p] = read[p - out_pos]
        BY <2>1, <4>1, <1>7
      <4> QED BY <3>1, <4>2, <1>5
    <3> DEFINE m == nreloc + 1
    <3>3. 1 .. (m - 1) = {}
      BY <1>3
    <3> HIDE DEF m
    <3>4. Relocated(p, m) = [pos |-> p, times |-> 0]
      BY <3>3, RelocatedIs
    <3> QED BY <3>2, <3>4 DEF m
  <2> QED BY <2>2, <2>3, Numbers
<1>9. Written'
  BY <1>2, <1>7, <1>8 DEF Written
<1>10. TypeOK'
  <2>1. section_size - n \in 0 .. size /\ buffer' \in [0 .. (buffer_size' - 1) -> Cell]
    BY <1>2, <1>3, <1>4, <1>5, <1>6, Numbers
  <2> QED BY <1>1, <1>2, <1>4, <1>7, <2>1 DEF TypeOK
<1>11. Control'
  <2>1. (out_pos + n) + (section_size - n) = size
    BY <1>3, Numbers
  <2> QED BY <1>1, <1>2, <1>3, <1>4, <1>7, <2>1 DEF Control
<1>12. Window' /\ Ahead' /\ Behind' /\ AddressInBuffer'
  BY <1>1 DEF Window, Ahead, Behind, AddressInBuffer, InWindow
<1> QED BY <1>2, <1>9, <1>10, <1>11, <1>12

-----------------------------------------------------------------------------
\* Every step keeps the window.
LEMMA NextIInv == IInv /\ [Next]_vars => IInv'
<1> SUFFICES ASSUME IInv, [Next]_vars PROVE IInv'
  OBVIOUS
<1>1. CASE Next
  BY <1>1, ControlIInv, NextChunkIInv, RestOfSectionIInv, LastChunkIInv, CopyChunkIInv, StartIInv,
     PartialAddressIInv, SkipAbsoluteIInv, RelocateAddressIInv DEF Next
<1>2. CASE UNCHANGED vars
  <2>1. /\ UNCHANGED section /\ UNCHANGED <<window, output>> /\ pc' = pc /\ num_read' = num_read
    BY <1>2 DEF vars
  <2>2. /\ pm' = pm /\ size' = size /\ relocs' = relocs /\ nreloc' = nreloc
        /\ buffer_size' = buffer_size /\ (AddressesApart' <=> AddressesApart)
        /\ \A r : ByteOffset(r)' = ByteOffset(r)
        /\ \A p, k : Relocated(p, k)' = Relocated(p, k)
    BY <2>1, SectionKept
  <2>3. /\ buffer' = buffer /\ chunk_size' = chunk_size /\ bytes_processed' = bytes_processed
        /\ section_size' = section_size /\ out' = out /\ out_pos' = out_pos
        /\ ChunkEnd' = ChunkEnd /\ Index' = Index /\ Reloc' = Reloc
        /\ \A r : AddressSize(r)' = AddressSize(r)
        /\ InWindow' <=> InWindow
    BY <2>1, <2>2 DEF window, output, ChunkEnd, Index, Reloc, AddressSize, InWindow
  <2>4. TypeOK' /\ Written' /\ Control' /\ AddressInBuffer'
    BY <2>1, <2>2, <2>3 DEF IInv, TypeOK, Written, Control, AddressInBuffer
  <2>5. Window' /\ Ahead' /\ Behind'
    BY <2>1, <2>2, <2>3 DEF IInv, Window, Ahead, Behind
  <2> QED BY <2>2, <2>4, <2>5 DEF IInv
<1> QED BY <1>1, <1>2

\* The invariant: the buffer is a window on the section, between the bytes that were
\* written and those that were not read, in which the entries so far are done.
THEOREM SpecIInv == Spec => []IInv
BY InitIInv, NextIInv, PTL DEF Spec

\* relocate_section writes every byte of the section once, in its place, and
\* relocates exactly the bytes of the addresses, once each, for sections, buffers and
\* relocation entries of any size.
THEOREM RelocationCorrect == Spec => []SectionRelocated
<1>1. IInv => SectionRelocated
  BY DEF IInv, Control, Written, SectionRelocated
<1> QED BY <1>1, SpecIInv, PTL

\* The bytes of an address that is relocated are all in sect_buffer.
THEOREM AddressStaysInBuffer == Spec => []AddressInBuffer
<1>1. IInv => AddressInBuffer
  BY DEF IInv
<1> QED BY <1>1, SpecIInv, PTL
=============================================================================
