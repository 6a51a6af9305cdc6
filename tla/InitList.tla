------------------------------ MODULE InitList ------------------------------
(***************************************************************************)
(* How mem21k turns the contents of RAM into a table: creat_list.c makes   *)
(* runs of equal words, clean_list.c takes the runs of zeros out and       *)
(* writes both as words of program memory.                                 *)
(*                                                                         *)
(* A run is a struct init_info: data from start up to, not including, end. *)
(* A word of program memory is a long and an unsigned short, hi and lo; a  *)
(* data word (px2_data, px1_data) is told apart by its hi here, 0 for zero.*)
(***************************************************************************)
EXTENDS Integers, Sequences

CONSTANTS
  CountRange,  \* an unsigned short counts modulo 2^16
  MaxZeros,    \* 65535: the longest run of zeros in the table
  CloseAt,     \* 65530: a block with more words is closed
  PM, DM       \* PM_WORD_SIZE, DM_WORD_SIZE

ASSUME InitListAssumption ==
  /\ CountRange \in Nat \ {0} /\ CloseAt \in Nat
  /\ MaxZeros \in 1 .. (CountRange - 1)
  /\ PM \in Nat \ {0} /\ DM \in Nat \ {0}

Run(start, end, data) == [start |-> start, end |-> end, data |-> data]
Length(run) == run.end - run.start
Cell(hi, lo) == [hi |-> hi, lo |-> lo % CountRange]

-----------------------------------------------------------------------------
(* creat_list.c                                                            *)

\* The words of a section at address paddr, appended to a list: a word makes the
\* last run longer if it is the one before it again, and begins another if not.
CreateInitList(runs, paddr, words) ==
  LET list[n \in 0 .. Len(words)] ==
        IF n = 0 THEN runs
        ELSE LET before == list[n - 1]
             IN IF n > 1 /\ words[n] = words[n - 1]
                THEN [before EXCEPT ![Len(before)].end = @ + 1]
                ELSE Append(before, Run(paddr + n - 1, paddr + n, words[n]))
  IN list[Len(words)]

-----------------------------------------------------------------------------
(* clean_list.c                                                            *)

IsZeros(run) == run.data = 0 /\ Length(run) > 2

\* The loop that cuts a run of zeros into pieces whose length is a short.
Pieces(run) ==
  LET n == (Length(run) + MaxZeros - 1) \div MaxZeros
      At(k) == run.start + k * MaxZeros
  IN [k \in 1 .. n |-> Run(At(k - 1), IF k = n THEN run.end ELSE At(k), run.data)]

\* remove_bss: the runs that stay on the list, and those that are only cleared.
Kept(runs) ==
  LET kept[k \in 0 .. Len(runs)] ==
        IF k = 0 THEN <<>>
        ELSE IF IsZeros(runs[k]) THEN kept[k - 1] ELSE Append(kept[k - 1], runs[k])
  IN kept[Len(runs)]
Zeros(runs) ==
  LET zeros[k \in 0 .. Len(runs)] ==
        IF k = 0 THEN <<>>
        ELSE zeros[k - 1] \o IF IsZeros(runs[k]) THEN Pieces(runs[k]) ELSE <<>>
  IN zeros[Len(runs)]

\* MUTANT: a block goes on to the next run wherever that begins.
ClosesLate(count, run, next) == count > CloseAt

\* A block ends behind a run if the next one is elsewhere, or if it is long.
Closes(count, run, next) == run.end # next.start \/ count > CloseAt

\* The words of a block under its header: the address of the first and their
\* number, which is kept in an unsigned short.
Block(address, words) == << Cell(address, Len(words)) >> \o words

RunWords(run) == [n \in 1 .. Length(run) |-> Cell(run.data, 0)]

\* What create_string has written when it is done with the first k runs: the blocks
\* it has begun and those that are closed, and address and words of the last.  All
\* runs but the last may close the block they are in.
Written(runs) ==
  LET after[k \in 0 .. Len(runs)] ==
        IF k = 0
        THEN [blocks |-> 1, closed |-> <<>>, address |-> runs[1].start, words |-> <<>>]
        ELSE LET before == after[k - 1]
                 words  == before.words \o RunWords(runs[k])
             IN IF k < Len(runs) /\ Closes(Len(words) % CountRange, runs[k], runs[k + 1])
                THEN [blocks |-> before.blocks + 1,
                      closed |-> before.closed \o Block(before.address, words),
                      address |-> runs[k + 1].start, words |-> <<>>]
                ELSE [before EXCEPT !.words = words]
  IN after

CreateString(runs) ==
  IF runs = <<>> THEN << Cell(0, 0) >>
  ELSE LET last == Written(runs)[Len(runs)]
       IN << Cell(last.blocks, 0) >> \o last.closed \o Block(last.address, last.words)

\* output_zero_data: the number of pieces, and address and length of each.
ZeroTable(zeros) ==
  << Cell(Len(zeros), 0) >>
    \o [k \in DOMAIN zeros |-> Cell(zeros[k].start, Length(zeros[k]))]

-----------------------------------------------------------------------------
(* The start-up code that reads the table is not in the repository: this   *)
(* is the reading its layout asks for.  A memory is a set of               *)
(* <<address, word>>, and the first table of each pair is that for DM.     *)

At(table, p) == IF p \in DOMAIN table THEN table[p] ELSE Cell(0, 0)

BehindZeros(table, p) == p + 1 + At(table, p).hi

\* Where block k + 1 of the blocks at p begins.
BlockAt(table, p) ==
  LET at[k \in 0 .. At(table, p).hi] ==
        IF k = 0 THEN p + 1 ELSE at[k - 1] + 1 + At(table, at[k - 1]).lo
  IN at

BehindBlocks(table, p) == BlockAt(table, p)[At(table, p).hi]

ReadZeros(table, p) ==
  UNION {{<<At(table, q).hi + n, 0>> : n \in 0 .. (At(table, q).lo - 1)} :
           q \in (p + 1) .. (p + At(table, p).hi)}

ReadBlocks(table, p) ==
  UNION {LET q == BlockAt(table, p)[k]
         IN {<<At(table, q).hi + n, At(table, q + 1 + n).hi>> : n \in 0 .. (At(table, q).lo - 1)} :
           k \in 0 .. (At(table, p).hi - 1)}

\* What the start-up code puts in the two memories.
Loaded(table) ==
  LET pmZeros == BehindZeros(table, 1)
      dmWords == BehindZeros(table, pmZeros)
      pmWords == BehindBlocks(table, dmWords)
  IN [dm |-> ReadZeros(table, 1) \cup ReadBlocks(table, dmWords),
      pm |-> ReadZeros(table, pmZeros) \cup ReadBlocks(table, pmWords)]
=============================================================================
