------------------------- MODULE Standalone_proofs -------------------------
(***************************************************************************)
(* Proofs about Standalone: whatever the executable and wherever a run     *)
(* ends, the file it makes is handled as ToolRun promises, and what is     *)
(* written to it can be found by its pointers.                             *)
(***************************************************************************)
EXTENDS Standalone, FiniteSetTheorems, SequenceTheorems, WellFoundedInduction, TLAPS

-----------------------------------------------------------------------------
(* Whatever happens to the file, a run is one of ToolRun.                  *)

Making == {"scan", "headers", "data", "symbols", "close"}

\* Which of the two files has which contents, by where control is.
FileInv ==
  /\ inplace \in BOOLEAN
  /\ pc \in Making \cup {"reopen", "copy", "exit", "stopped"}
  /\ pc # "stopped" => exit = "running"
  /\ pc = "stopped" => exit # "running"
  /\ pc \in {"reopen", "copy"} => inplace
  /\ pc \in Making => Result = IF inplace THEN "old" ELSE "part"
  /\ pc = "reopen" => Result = "none"
  /\ pc = "copy" => Result = "part"
  /\ pc = "exit" => Result = "new"

\* The input is whole, and there is no other file, before mem21k begins.
LEMMA InitFileInv == Init => FileInv /\ TR!Init
BY DEF Init, FileInv, Making, Result, TR!Init

\* The steps of make_standalone touch neither file.
LEMMA MakeStandaloneStep ==
  ASSUME FileInv, MakeStandalone
  PROVE  FileInv' /\ UNCHANGED TR!vars
<1>1. /\ UNCHANGED <<inplace, input, output, exit>>
      /\ pc \in {"scan", "headers", "data", "symbols"} /\ pc' \in Making
  <2>1. CASE Scan \/ CleanList \/ SectionHeader \/ HeadersDone
    BY <2>1 DEF Scan, CleanList, SectionHeader, HeadersDone, files, Making
  <2>2. CASE SectionData \/ LineNumbers \/ CopySymbol \/ PatchInits
    BY <2>2 DEF SectionData, LineNumbers, CopySymbol, PatchInits, files, Making
  <2> QED BY <2>1, <2>2 DEF MakeStandalone
<1> QED
  BY <1>1 DEF FileInv, Making, Result, TR!vars

\* The steps of main and mem_exit are steps of ToolRun.
LEMMA MainStep ==
  ASSUME FileInv,
         CloseOutput \/ UnlinkInput \/ ReopenInput \/ CopyBack \/ Exit \/ Fatal \/ Interrupt
  PROVE  FileInv' /\ TR!Next
<1>1. UNCHANGED inplace
  BY DEF CloseOutput, UnlinkInput, ReopenInput, CopyBack, Exit, Fatal, Interrupt, Rest
<1>2. CASE CloseOutput \/ CopyBack
  <2>1. FileInv' /\ TR!Complete
    BY <1>1, <1>2 DEF CloseOutput, CopyBack, Rest, FileInv, Making, Result, TR!Complete
  <2> QED BY <2>1 DEF TR!Next
<1>3. CASE UnlinkInput
  <2>1. FileInv' /\ TR!Remove
    BY <1>1, <1>3 DEF UnlinkInput, Rest, FileInv, Making, Result, TR!Remove
  <2> QED BY <2>1 DEF TR!Next
<1>4. CASE ReopenInput
  <2>1. FileInv' /\ TR!Begin
    BY <1>1, <1>4 DEF ReopenInput, Rest, FileInv, Making, Result, TR!Begin
  <2> QED BY <2>1 DEF TR!Next
<1>5. CASE Exit
  <2>1. FileInv' /\ TR!Pass
    BY <1>1, <1>5 DEF Exit, Rest, FileInv, Making, Result, TR!Pass
  <2> QED BY <2>1 DEF TR!Next
<1>6. CASE Fatal
  <2>1. FileInv' /\ TR!Fail
    BY <1>1, <1>6 DEF Fatal, Rest, FileInv, Making, Result, TR!Fail
  <2> QED BY <2>1 DEF TR!Next
<1>7. CASE Interrupt
  <2>1. FileInv' /\ TR!Stop
    BY <1>1, <1>7 DEF Interrupt, Rest, FileInv, Making, Result, TR!Stop
  <2> QED BY <2>1 DEF TR!Next
<1> QED
  BY <1>2, <1>3, <1>4, <1>5, <1>6, <1>7

\* Every step keeps what is in the two files, and is one of ToolRun or a stutter.
LEMMA NextFileInv == FileInv /\ [Next]_vars => FileInv' /\ [TR!Next]_(TR!vars)
<1> SUFFICES ASSUME FileInv, [Next]_vars PROVE FileInv' /\ [TR!Next]_(TR!vars)
  OBVIOUS
<1>1. CASE MakeStandalone
  BY <1>1, MakeStandaloneStep
<1>2. CASE UNCHANGED vars
  BY <1>2 DEF vars, files, FileInv, Result, TR!vars
<1> QED
  BY <1>1, <1>2, MainStep DEF Next

\* mem21k implements a run of a tool: success is reported of a complete result
\* only, an error leaves no half of one, and a file to be replaced is taken away
\* at most once before its successor is complete.
THEOREM RunImplemented == Spec => ImplementsToolRun
<1>1. Spec => []FileInv
  BY InitFileInv, NextFileInv, PTL DEF Spec
<1> QED
  BY <1>1, InitFileInv, NextFileInv, PTL DEF Spec, ImplementsToolRun, TR!Spec

-----------------------------------------------------------------------------
(* Functions that are defined by recursion on a range of numbers.          *)

\* A set of numbers has a least one.
LEMMA LeastNumber ==
  ASSUME NEW T \in SUBSET Nat, T # {} PROVE \E x \in T : \A y \in T : x <= y
<1> DEFINE R == {ss \in Nat \X Nat : ss[1] < ss[2]}
<1>1. IsWellFoundedOn(R, Nat)
  BY NatLessThanWellFounded, Zenon DEF OpToRel
<1> HIDE DEF R
<1>2. PICK x \in T : \A y \in T : ~ (<<y, x>> \in R)
  BY <1>1, WFMin, Zenon
<1>3. ASSUME NEW y \in T PROVE x <= y
  <2>1. ~ (y < x)
    BY <1>2, <1>3 DEF R
  <2> QED
    BY <2>1
<1> QED
  BY <1>3

\* A set that has 0, and with a number the next, has all up to n.
LEMMA Induction ==
  ASSUME NEW n \in Nat, NEW S, 0 \in S, \A k \in 1 .. n : k - 1 \in S => k \in S
  PROVE  \A k \in 0 .. n : k \in S
<1> DEFINE T == {k \in 0 .. n : k \notin S}
<1>1. SUFFICES ASSUME T # {} PROVE FALSE
  OBVIOUS
<1>2. PICK x \in T : \A y \in T : x <= y
  <2>1. T \in SUBSET Nat
    OBVIOUS
  <2> QED
    BY <1>1, <2>1, LeastNumber
<1>3. x \in 1 .. n
  OBVIOUS
<1>4. x - 1 \notin T
  BY <1>2, <1>3
<1> QED
  BY <1>3, <1>4

\* f begins with b and goes on, up to n, as `step' says, with values in V.
Iterates(f, n, V, b, step) ==
  f \in [0 .. n -> V] /\ f[0] = b /\ \A k \in 1 .. n : f[k] = step[<<k, f[k - 1]>>]

\* There is such a function.
LEMMA Recursion ==
  ASSUME NEW n \in Nat, NEW V, NEW b \in V, NEW step,
         \A k \in 1 .. n, v \in V : step[<<k, v>>] \in V
  PROVE  \E f : Iterates(f, n, V, b, step)
<1> DEFINE Upto(f, m) == Iterates(f, m, V, b, step)
           S == {m \in 0 .. n : \E f : Upto(f, m)}
<1>1. 0 \in S
  <2> DEFINE g == [k \in 0 .. 0 |-> b]
  <2>1. g \in [0 .. 0 -> V] /\ g[0] = b
    OBVIOUS
  <2>2. Upto(g, 0) /\ 0 \in 0 .. n
    BY <2>1 DEF Iterates
  <2> HIDE DEF g, Upto
  <2> QED
    BY <2>2, Zenon
<1>2. ASSUME NEW m \in 1 .. n, m - 1 \in S PROVE m \in S
  <2>1. PICK f : Upto(f, m - 1)
    BY <1>2
  <2> DEFINE g == [k \in 0 .. m |-> IF k = m THEN step[<<m, f[m - 1]>>] ELSE f[k]]
  <2>2. /\ m \in Nat \ {0} /\ m \in 0 .. n /\ m - 1 \in 0 .. (m - 1)
        /\ \A k \in 0 .. (m - 1) : k \in 0 .. m /\ k # m
    OBVIOUS
  <2>3. f[m - 1] \in V
    BY <2>1, <2>2 DEF Iterates
  <2>4. step[<<m, f[m - 1]>>] \in V
    BY <2>3, Zenon
  <2>5. g \in [0 .. m -> V]
    <3>1. ASSUME NEW k \in 0 .. m, k # m PROVE f[k] \in V
      <4>1. k \in 0 .. (m - 1)
        BY <3>1
      <4> QED
        BY <2>1, <4>1 DEF Iterates
    <3> QED
      BY <2>4, <3>1
  <2>6. \A k \in 0 .. (m - 1) : g[k] = f[k]
    BY <2>2
  <2>7. g[0] = b
    <3>1. 0 \in 0 .. (m - 1)
      BY <2>2
    <3> QED
      BY <2>1, <2>6, <3>1 DEF Iterates
  <2>8. ASSUME NEW k \in 1 .. m PROVE g[k] = step[<<k, g[k - 1]>>]
    <3>1. g[k - 1] = f[k - 1]
      BY <2>6
    <3>2. CASE k = m
      BY <3>1, <3>2, <2>2
    <3>3. CASE k # m
      <4>1. k \in 1 .. (m - 1) /\ k \in 0 .. (m - 1)
        BY <3>3
      <4> QED
        BY <2>1, <2>6, <3>1, <4>1 DEF Iterates
    <3> QED
      BY <3>2, <3>3
  <2> HIDE DEF g
  <2>9. Upto(g, m)
    BY <2>5, <2>7, <2>8 DEF Iterates
  <2> HIDE DEF Upto
  <2> QED
    BY <2>2, <2>9, Zenon
<1> HIDE DEF S
<1>3. \A m \in 0 .. n : m \in S
  BY <1>1, <1>2, Induction
<1>4. n \in S
  BY <1>3
<1> HIDE DEF Upto
<1>5. \E f : Upto(f, n)
  BY <1>4 DEF S
<1> QED
  BY <1>5 DEF Upto

\* The sums of sizes are what their definition says.
LEMMA SumsStep ==
  ASSUME NEW size \in Seq(Nat)
  PROVE  /\ Sums(size) \in [0 .. Len(size) -> Nat]
         /\ Sums(size)[0] = 0
         /\ \A k \in 1 .. Len(size) : Sums(size)[k] = Sums(size)[k - 1] + size[k]
<1> DEFINE n == Len(size)
           Next0(f) == [k \in 0 .. n |-> IF k = 0 THEN 0 ELSE f[k - 1] + size[k]]
           g == Sums(size)
           step == [x \in (1 .. n) \X Nat |-> x[2] + size[x[1]]]
<1>1. n \in Nat /\ \A k \in 1 .. n : size[k] \in Nat /\ k - 1 \in 0 .. n
  OBVIOUS
<1>2. g = CHOOSE f : f = Next0(f)
  BY DEF Sums
<1>3. \A k \in 1 .. n, v \in Nat : step[<<k, v>>] = v + size[k]
  OBVIOUS
<1>4. 0 \in Nat /\ \A k \in 1 .. n, v \in Nat : step[<<k, v>>] \in Nat
  BY <1>1, <1>3
<1> HIDE DEF n, g, step
<1>5. PICK f : Iterates(f, n, Nat, 0, step)
  BY <1>1, <1>4, Recursion
<1>6. f = Next0(f)
  <2>1. \A k \in 1 .. n : step[<<k, f[k - 1]>>] = f[k - 1] + size[k]
    BY <1>1, <1>3, <1>5 DEF Iterates
  <2>2. \A k \in 0 .. n : f[k] = IF k = 0 THEN 0 ELSE f[k - 1] + size[k]
    <3>1. ASSUME NEW k \in 0 .. n, k # 0 PROVE f[k] = f[k - 1] + size[k]
      <4>1. k \in 1 .. n
        BY <1>1, <3>1
      <4> QED
        BY <1>5, <2>1, <4>1 DEF Iterates
    <3>2. f[0] = 0
      BY <1>5 DEF Iterates
    <3> QED
      BY <3>1, <3>2
  <2>3. f = [k \in 0 .. n |-> f[k]]
    BY <1>5 DEF Iterates
  <2> QED
    BY <2>2, <2>3, Zenon
<1>7. g = Next0(g)
  <2> HIDE DEF Next0
  <2> QED
    BY <1>2, <1>6
<1>8. g[0] = 0 /\ \A k \in 1 .. n : g[k] = g[k - 1] + size[k]
  BY <1>1, <1>7
<1>9. \A k \in 0 .. n : g[k] \in Nat
  <2> DEFINE S == {j \in 0 .. n : g[j] \in Nat}
  <2>1. 0 \in S
    BY <1>1, <1>8
  <2>2. ASSUME NEW k \in 1 .. n, k - 1 \in S PROVE k \in S
    <3>1. g[k - 1] \in Nat /\ size[k] \in Nat /\ k \in 0 .. n
      BY <1>1, <2>2
    <3>2. g[k] \in Nat
      BY <1>8, <3>1
    <3> QED
      BY <3>1, <3>2
  <2> HIDE DEF S
  <2>3. \A k \in 0 .. n : k \in S
    BY <1>1, <2>1, <2>2, Induction
  <2> QED
    BY <2>3 DEF S
<1>10. g \in [0 .. n -> Nat]
  BY <1>7, <1>9
<1> QED
  BY <1>8, <1>10 DEF g, n

\* They grow with every size, and stay where the sizes are 0.
LEMMA SumsMonotone ==
  ASSUME NEW size \in Seq(Nat), NEW a \in 0 .. Len(size)
  PROVE  \A b \in 0 .. Len(size) : a <= b =>
           /\ Sums(size)[a] <= Sums(size)[b]
           /\ (\A k \in (a + 1) .. b : size[k] = 0) => Sums(size)[a] = Sums(size)[b]
<1> DEFINE n == Len(size)
           g == Sums(size)
           P(b) == a <= b => /\ g[a] <= g[b]
                             /\ (\A k \in (a + 1) .. b : size[k] = 0) => g[a] = g[b]
           S == {b \in 0 .. n : P(b)}
<1>1. n \in Nat /\ a \in 0 .. n /\ \A k \in 1 .. n : size[k] \in Nat
  OBVIOUS
<1>2. g \in [0 .. n -> Nat] /\ \A k \in 1 .. n : g[k] = g[k - 1] + size[k]
  BY SumsStep
<1> HIDE DEF n, g
<1>3. 0 \in S
  BY <1>1, <1>2
<1>4. ASSUME NEW k \in 1 .. n, k - 1 \in S PROVE k \in S
  <2>1. g[k] = g[k - 1] + size[k] /\ size[k] \in Nat /\ g[k - 1] \in Nat /\ g[a] \in Nat /\ g[k] \in Nat
    BY <1>1, <1>2
  <2>2. CASE a = k
    BY <1>1, <2>1, <2>2
  <2>3. CASE a # k
    <3>1. SUFFICES ASSUME a <= k PROVE P(k)
      BY <1>1
    <3>2. a <= k - 1
      BY <1>1, <2>3, <3>1
    <3>3. P(k - 1)
      BY <1>4
    <3>4. ASSUME \A j \in (a + 1) .. k : size[j] = 0 PROVE g[a] = g[k]
      <4>1. k \in (a + 1) .. k /\ \A j \in (a + 1) .. (k - 1) : j \in (a + 1) .. k
        BY <1>1, <3>2
      <4> QED
        BY <2>1, <3>2, <3>3, <3>4, <4>1
    <3> QED
      BY <2>1, <3>2, <3>3, <3>4
  <2> QED
    BY <2>2, <2>3
<1> HIDE DEF S
<1>5. \A k \in 0 .. n : k \in S
  BY <1>1, <1>3, <1>4, Induction
<1> QED
  BY <1>5 DEF S, g, n

-----------------------------------------------------------------------------
(* The lists of runs.                                                      *)

\* Runs are not empty.
RunSet == {r \in [start : Nat, end : Nat, data : Nat] : r.start < r.end}

\* The words of memory that a run gives a value, and those that a list does.
Held(run)   == {<<a, run.data>> : a \in run.start .. (run.end - 1)}
Cover(runs) == UNION {Held(runs[k]) : k \in DOMAIN runs}

\* The run of equal words that a record is made for.
LEMMA RunIn ==
  ASSUME NEW start \in Nat, NEW end \in Nat, NEW data \in Nat, start < end
  PROVE  /\ Run(start, end, data) \in RunSet
         /\ Run(start, end, data).start = start
         /\ Run(start, end, data).end = end
         /\ Run(start, end, data).data = data
BY DEF Run, RunSet

\* The parts of a run, which is never empty.
LEMMA RunParts ==
  ASSUME NEW run \in RunSet
  PROVE  /\ run.start \in Nat /\ run.end \in Nat /\ run.data \in Nat
         /\ run.start < run.end /\ Length(run) \in Nat \ {0}
         /\ run.end = run.start + Length(run)
BY DEF RunSet, Length

\* A number of bytes is whole words and what is left of one.
LEMMA DivParts ==
  ASSUME NEW a \in Nat, NEW w \in Nat \ {0}
  PROVE  a \div w \in Nat /\ a = w * (a \div w) + (a % w) /\ a % w \in 0 .. (w - 1)
OBVIOUS

\* The pieces of a run hold its words, and none is too long.
LEMMA PiecesOf ==
  ASSUME NEW run \in RunSet
  PROVE  /\ Pieces(run) \in Seq(RunSet) /\ Pieces(run) # <<>>
         /\ \A k \in DOMAIN Pieces(run) :
              Pieces(run)[k].data = run.data /\ Length(Pieces(run)[k]) <= MaxZeros
         /\ Cover(Pieces(run)) = Held(run)
<1> DEFINE L == Length(run)
           M == MaxZeros
           n == (L + M - 1) \div M
           Begin(k) == run.start + k * M
           End(k) == IF k = n THEN run.end ELSE Begin(k)
           q == Pieces(run)
<1>1. /\ L \in Nat \ {0} /\ M \in Nat \ {0} /\ run.start \in Nat /\ run.data \in Nat
      /\ run.end = run.start + L
  BY RunParts, InitListAssumption
<1>2. q = [k \in 1 .. n |-> Run(Begin(k - 1), End(k), run.data)]
  BY DEF Pieces
<1> HIDE DEF L, M, q
<1>3. n \in Nat \ {0} /\ (n - 1) * M < L /\ L <= n * M
  <2> DEFINE a == L + M - 1
             r == a % M
  <2>1. a \in Nat /\ n \in Nat /\ r \in 0 .. (M - 1) /\ a = M * n + r
    BY <1>1
  <2> HIDE DEF a, r, n
  <2>2. (n - 1) * M = M * n - M /\ n * M = M * n
    BY <1>1, <2>1
  <2>3. a = L + M - 1
    BY DEF a
  <2>4. n # 0
    BY <1>1, <2>1, <2>2, <2>3
  <2> QED
    BY <1>1, <2>1, <2>2, <2>3, <2>4
<1> HIDE DEF n
<1>4. ASSUME NEW k \in 1 .. n
      PROVE  /\ Begin(k - 1) \in Nat /\ End(k) \in Nat /\ Begin(k - 1) < End(k)
             /\ End(k) <= Begin(k - 1) + M /\ run.start <= Begin(k - 1) /\ End(k) <= run.end
  <2>1. (k - 1) * M \in Nat /\ k * M = (k - 1) * M + M /\ k * M \in Nat
    BY <1>1, <1>3
  <2>2. k # n => k * M <= (n - 1) * M
    BY <1>1, <1>3
  <2> QED
    BY <1>1, <1>3, <2>1, <2>2
<1> HIDE DEF Begin, End
<1>5. ASSUME NEW k \in 1 .. n
      PROVE  /\ q[k] \in RunSet /\ q[k].start = Begin(k - 1) /\ q[k].end = End(k)
             /\ q[k].data = run.data /\ Length(q[k]) <= M
  <2>1. q[k] = Run(Begin(k - 1), End(k), run.data)
    BY <1>2
  <2> QED
    BY <1>1, <1>4, <2>1, RunIn DEF Length
<1>6. DOMAIN q = 1 .. n /\ q \in Seq(RunSet) /\ q # <<>>
  <2>1. DOMAIN q = 1 .. n
    BY <1>2
  <2>2. q \in [1 .. n -> RunSet]
    BY <1>2, <1>5, <2>1
  <2> QED
    BY <1>3, <2>1, <2>2
<1>7. Cover(q) = Held(run)
  <2>1. ASSUME NEW k \in 1 .. n PROVE Held(q[k]) \subseteq Held(run)
    BY <1>1, <1>4, <1>5 DEF Held
  <2>2. ASSUME NEW a \in run.start .. (run.end - 1)
        PROVE  \E k \in 1 .. n : a \in Begin(k - 1) .. (End(k) - 1)
    <3> DEFINE d == a - run.start
               e == d \div M
               r == d % M
               k == e + 1
    <3>1. d \in 0 .. (L - 1) /\ d \in Nat
      BY <1>1
    <3> HIDE DEF d
    <3>2. e \in Nat /\ r \in 0 .. (M - 1) /\ d = M * e + r
      BY <1>1, <3>1, DivParts
    <3> HIDE DEF e, r
    <3>3. k \in Nat \ {0} /\ (k - 1) * M = M * e /\ k * M = M * e + M /\ k - 1 = e
      BY <1>1, <3>2
    <3>4. k <= n
      <4>1. SUFFICES ASSUME n <= k - 1 PROVE FALSE
        BY <1>3, <3>3
      <4>2. PICK x \in Nat : e = n + x
        BY <1>3, <3>2, <3>3, <4>1
      <4>3. M * e = M * n + M * x /\ M * x \in Nat /\ n * M = M * n
        BY <1>1, <1>3, <4>2
      <4>4. L <= d
        BY <1>1, <1>3, <3>2, <4>3
      <4> QED
        BY <1>1, <3>1, <4>4
    <3>5. k \in 1 .. n
      BY <1>3, <3>3, <3>4
    <3>6. Begin(k - 1) <= a /\ a < End(k)
      BY <1>1, <3>1, <3>2, <3>3 DEF Begin, End, d
    <3>7. a \in Begin(k - 1) .. (End(k) - 1)
      BY <1>1, <1>4, <3>5, <3>6
    <3> QED
      BY <3>5, <3>7
  <2>3. ASSUME NEW a \in run.start .. (run.end - 1) PROVE <<a, run.data>> \in Cover(q)
    <3>1. PICK k \in 1 .. n : a \in Begin(k - 1) .. (End(k) - 1)
      BY <2>2
    <3>2. <<a, run.data>> \in Held(q[k])
      BY <1>5, <3>1 DEF Held
    <3> QED
      BY <1>6, <3>2 DEF Cover
  <2> QED
    BY <1>6, <2>1, <2>3 DEF Cover, Held
<1> QED
  BY <1>5, <1>6, <1>7 DEF q, M

\* One run more covers its own words.
LEMMA CoverAppend ==
  ASSUME NEW q \in Seq(RunSet), NEW r \in RunSet
  PROVE  /\ Append(q, r) \in Seq(RunSet)
         /\ Cover(Append(q, r)) = Cover(q) \cup Held(r)
<1> DEFINE p == Append(q, r)
<1>1. /\ p \in Seq(RunSet) /\ Len(q) \in Nat /\ DOMAIN q = 1 .. Len(q)
      /\ DOMAIN p = 1 .. (Len(q) + 1) /\ p[Len(q) + 1] = r
      /\ \A k \in 1 .. Len(q) : p[k] = q[k]
  OBVIOUS
<1> HIDE DEF p
<1>2. DOMAIN p = DOMAIN q \cup {Len(q) + 1}
  BY <1>1
<1>3. Cover(p) = Cover(q) \cup Held(r)
  BY <1>1, <1>2, Zenon DEF Cover
<1> QED
  BY <1>1, <1>3 DEF p

\* Two lists cover what each of them covers.
LEMMA CoverConcat ==
  ASSUME NEW q \in Seq(RunSet), NEW p \in Seq(RunSet)
  PROVE  /\ q \o p \in Seq(RunSet)
         /\ Cover(q \o p) = Cover(q) \cup Cover(p)
<1> DEFINE s == q \o p
<1>1. /\ s \in Seq(RunSet) /\ Len(q) \in Nat /\ Len(p) \in Nat
      /\ DOMAIN q = 1 .. Len(q) /\ DOMAIN p = 1 .. Len(p) /\ DOMAIN s = 1 .. (Len(q) + Len(p))
      /\ \A k \in 1 .. Len(q) : s[k] = q[k]
      /\ \A k \in 1 .. Len(p) : s[Len(q) + k] = p[k]
  OBVIOUS
<1> HIDE DEF s
<1>2. ASSUME NEW k \in DOMAIN s
      PROVE  (k \in DOMAIN q /\ s[k] = q[k]) \/ (k - Len(q) \in DOMAIN p /\ s[k] = p[k - Len(q)])
  BY <1>1
<1>3. ASSUME NEW k \in DOMAIN q PROVE k \in DOMAIN s /\ s[k] = q[k]
  BY <1>1
<1>4. ASSUME NEW k \in DOMAIN p PROVE Len(q) + k \in DOMAIN s /\ s[Len(q) + k] = p[k]
  BY <1>1
<1>5. Cover(s) \subseteq Cover(q) \cup Cover(p)
  BY <1>2, Zenon DEF Cover
<1>6. Cover(q) \subseteq Cover(s)
  BY <1>3, Zenon DEF Cover
<1>7. Cover(p) \subseteq Cover(s)
  BY <1>4, Zenon DEF Cover
<1> QED
  BY <1>1, <1>5, <1>6, <1>7 DEF s

\* A list whose last run becomes one word longer.
LEMMA CoverLonger ==
  ASSUME NEW q \in Seq(RunSet), q # <<>>,
         NEW p, p = [q EXCEPT ![Len(q)].end = @ + 1]
  PROVE  /\ p \in Seq(RunSet) /\ Len(p) = Len(q)
         /\ p[Len(p)].end = q[Len(q)].end + 1 /\ p[Len(p)].data = q[Len(q)].data
         /\ Cover(p) = Cover(q) \cup {<<q[Len(q)].end, q[Len(q)].data>>}
<1> DEFINE n == Len(q)
           last == q[n]
           longer == [last EXCEPT !.end = @ + 1]
<1>1. n \in Nat \ {0} /\ DOMAIN q = 1 .. n /\ last \in RunSet /\ n \in 1 .. n
  OBVIOUS
<1>2. /\ last.start \in Nat /\ last.end \in Nat /\ last.data \in Nat /\ last.start < last.end
      /\ last \in [start : Nat, end : Nat, data : Nat]
  BY <1>1 DEF RunSet
<1>3. /\ longer.start = last.start /\ longer.end = last.end + 1 /\ longer.data = last.data
      /\ longer \in [start : Nat, end : Nat, data : Nat]
  BY <1>2
<1>4. longer \in RunSet
  BY <1>2, <1>3 DEF RunSet
<1>5. p = [q EXCEPT ![n] = longer]
  BY <1>1
<1> HIDE DEF longer
<1>6. p \in [1 .. n -> RunSet] /\ p[n] = longer /\ \A k \in 1 .. n : k # n => p[k] = q[k]
  BY <1>1, <1>4, <1>5
<1>7. p \in Seq(RunSet) /\ Len(p) = n /\ DOMAIN p = 1 .. n
  BY <1>1, <1>6
<1>8. Held(longer) = Held(last) \cup {<<last.end, last.data>>}
  BY <1>2, <1>3 DEF Held
<1> HIDE DEF n, last
<1>9. Cover(p) = Cover(q) \cup {<<last.end, last.data>>}
  <2>0. q[n] = last /\ n \in DOMAIN q /\ DOMAIN p = DOMAIN q
    BY <1>1, <1>7 DEF last
  <2>1. Cover(p) \subseteq Cover(q) \cup {<<last.end, last.data>>}
    <3>1. ASSUME NEW k \in DOMAIN p
          PROVE  Held(p[k]) \subseteq Held(q[k]) \cup {<<last.end, last.data>>}
      BY <1>6, <1>7, <1>8, <2>0
    <3> QED
      BY <2>0, <3>1 DEF Cover
  <2>2. Cover(q) \subseteq Cover(p)
    <3>1. ASSUME NEW k \in DOMAIN q PROVE Held(q[k]) \subseteq Held(p[k])
      BY <1>1, <1>6, <1>7, <1>8, <2>0
    <3> QED
      BY <2>0, <3>1 DEF Cover
  <2>3. <<last.end, last.data>> \in Cover(p)
    <3>1. n \in DOMAIN p /\ <<last.end, last.data>> \in Held(p[n])
      BY <1>1, <1>6, <1>7, <1>8, <2>0
    <3> QED
      BY <3>1 DEF Cover
  <2> QED
    BY <2>1, <2>2, <2>3
<1> QED
  BY <1>3, <1>6, <1>7, <1>9 DEF n, last

\* What is appended is the last element.
LEMMA LastAppended ==
  ASSUME NEW V, NEW q \in Seq(V), NEW r \in V
  PROVE  Append(q, r) # <<>> /\ Append(q, r)[Len(Append(q, r))] = r
OBVIOUS

\* The list of a section's words gives each of them its value, and keeps what was
\* on the list before.
LEMMA Created ==
  ASSUME NEW runs \in Seq(RunSet), NEW paddr \in Nat, NEW words \in Seq(Nat)
  PROVE  /\ CreateInitList(runs, paddr, words) \in Seq(RunSet)
         /\ Cover(CreateInitList(runs, paddr, words)) =
              Cover(runs) \cup {<<paddr + n - 1, words[n]>> : n \in 1 .. Len(words)}
<1> DEFINE N == Len(words)
           V == Seq(RunSet)
           Same(k) == k > 1 /\ words[k] = words[k - 1]
           Step(k, q) == IF Same(k) THEN [q EXCEPT ![Len(q)].end = @ + 1]
                         ELSE Append(q, Run(paddr + k - 1, paddr + k, words[k]))
           NextOf(f) == [k \in 0 .. N |-> IF k = 0 THEN runs ELSE Step(k, f[k - 1])]
           g == CHOOSE f : f = NextOf(f)
           step == [x \in (1 .. N) \X V |-> Step(x[1], x[2])]
<1>1. N \in Nat /\ \A k \in 1 .. N : words[k] \in Nat /\ k - 1 \in 0 .. N
  OBVIOUS
<1>2. CreateInitList(runs, paddr, words) = g[N]
  BY DEF CreateInitList
<1>3. \A k \in 1 .. N, q \in V : step[<<k, q>>] = Step(k, q)
  OBVIOUS
<1>4. ASSUME NEW k \in 1 .. N
      PROVE  LET r == Run(paddr + k - 1, paddr + k, words[k])
             IN  r \in RunSet /\ r.end = paddr + k /\ r.data = words[k]
                   /\ Held(r) = {<<paddr + k - 1, words[k]>>}
  <2> DEFINE r == Run(paddr + k - 1, paddr + k, words[k])
  <2>1. r \in RunSet /\ r.start = paddr + k - 1 /\ r.end = paddr + k /\ r.data = words[k]
    BY <1>1, RunIn
  <2> HIDE DEF r
  <2>2. Held(r) = {<<paddr + k - 1, words[k]>>}
    BY <1>1, <2>1 DEF Held
  <2> QED
    BY <2>1, <2>2 DEF r
<1> HIDE DEF N, g, step
<1>5. ASSUME NEW k \in 1 .. N, NEW q \in V PROVE Step(k, q) \in V
  <2>1. CASE Same(k) /\ q = <<>>
    <3>1. [q EXCEPT ![Len(q)].end = @ + 1] = q
      BY <2>1
    <3> QED
      BY <2>1, <3>1
  <2>2. CASE Same(k) /\ q # <<>>
    BY <2>2, CoverLonger
  <2>3. CASE ~ Same(k)
    BY <1>4, <2>3, CoverAppend
  <2> QED
    BY <2>1, <2>2, <2>3
<1>6. PICK f : Iterates(f, N, V, runs, step)
  <2>1. \A k \in 1 .. N, q \in V : step[<<k, q>>] \in V
    BY <1>3, <1>5
  <2> HIDE DEF V
  <2> QED
    BY <1>1, <2>1, Recursion DEF V
<1>7. f = NextOf(f)
  <2>1. \A k \in 1 .. N : step[<<k, f[k - 1]>>] = Step(k, f[k - 1])
    BY <1>1, <1>3, <1>6 DEF Iterates
  <2> HIDE DEF Step
  <2> DEFINE h == NextOf(f)
  <2>2. ASSUME NEW k \in 0 .. N PROVE f[k] = h[k]
    <3>1. CASE k = 0
      BY <1>6, <3>1 DEF Iterates
    <3>2. CASE k # 0
      <4>1. k \in 1 .. N
        BY <1>1, <3>2
      <4>2. h[k] = Step(k, f[k - 1])
        BY <3>2
      <4> QED
        BY <1>6, <2>1, <4>1, <4>2 DEF Iterates
    <3> QED
      BY <3>1, <3>2
  <2>3. DOMAIN h = 0 .. N /\ h = [k \in DOMAIN h |-> h[k]]
    OBVIOUS
  <2>4. DOMAIN f = 0 .. N /\ f = [k \in DOMAIN f |-> f[k]]
    BY <1>6 DEF Iterates
  <2> HIDE DEF h
  <2>5. f = h
    BY <2>2, <2>3, <2>4
  <2> QED
    BY <2>5 DEF h
<1>8. g = NextOf(g)
  <2> HIDE DEF NextOf
  <2> QED
    BY <1>7 DEF g
<1>9. g[0] = runs /\ \A k \in 1 .. N : g[k] = Step(k, g[k - 1])
  <2> HIDE DEF Step
  <2> QED
    BY <1>1, <1>8
<1> DEFINE Front(k) == {<<paddr + n - 1, words[n]>> : n \in 1 .. k}
           P(k) == /\ g[k] \in V /\ Cover(g[k]) = Cover(runs) \cup Front(k)
                   /\ k > 0 => /\ g[k] # <<>> /\ g[k][Len(g[k])].end = paddr + k
                               /\ g[k][Len(g[k])].data = words[k]
           S == {k \in 0 .. N : P(k)}
<1>10. 0 \in S
  BY <1>1, <1>9
<1>11. ASSUME NEW k \in 1 .. N, k - 1 \in S PROVE k \in S
  <2> DEFINE q == g[k - 1]
  <2>1. P(k - 1)
    BY <1>11
  <2>2. Front(k) = Front(k - 1) \cup {<<paddr + k - 1, words[k]>>}
    <3>1. 1 .. k = (1 .. (k - 1)) \cup {k}
      BY <1>1
    <3> QED
      BY <3>1, Zenon
  <2>3. CASE Same(k)
    <3>1. g[k] = [q EXCEPT ![Len(q)].end = @ + 1]
      BY <1>9, <2>3
    <3>2. q \in Seq(RunSet) /\ q # <<>> /\ q[Len(q)].end = paddr + k - 1 /\ q[Len(q)].data = words[k]
      BY <1>1, <2>1, <2>3
    <3> HIDE DEF q
    <3>3. /\ g[k] \in Seq(RunSet) /\ Len(g[k]) = Len(q)
          /\ g[k][Len(g[k])].end = q[Len(q)].end + 1 /\ g[k][Len(g[k])].data = q[Len(q)].data
          /\ Cover(g[k]) = Cover(q) \cup {<<q[Len(q)].end, q[Len(q)].data>>}
      BY <3>1, <3>2, CoverLonger
    <3>4. g[k] # <<>> /\ paddr + k - 1 + 1 = paddr + k
      BY <3>2, <3>3, <1>1
    <3>5. Cover(g[k]) = Cover(runs) \cup Front(k)
      <4>1. Cover(q) = Cover(runs) \cup Front(k - 1)
        BY <2>1 DEF q
      <4> HIDE DEF Front
      <4> QED
        BY <2>2, <3>2, <3>3, <4>1
    <3> QED
      BY <1>1, <3>2, <3>3, <3>4, <3>5
  <2>4. CASE ~ Same(k)
    <3> DEFINE r == Run(paddr + k - 1, paddr + k, words[k])
    <3>1. g[k] = Append(q, r)
      BY <1>9, <2>4
    <3>2. r \in RunSet /\ r.end = paddr + k /\ r.data = words[k] /\ Held(r) = {<<paddr + k - 1, words[k]>>}
      BY <1>4
    <3>3. q \in Seq(RunSet) /\ Cover(q) = Cover(runs) \cup Front(k - 1)
      BY <2>1
    <3> HIDE DEF q, r
    <3>4. g[k] \in Seq(RunSet) /\ Cover(g[k]) = Cover(q) \cup Held(r)
      BY <3>1, <3>2, <3>3, CoverAppend
    <3>5. g[k] # <<>> /\ g[k][Len(g[k])] = r
      <4>1. Append(q, r) # <<>> /\ Append(q, r)[Len(Append(q, r))] = r
        BY <3>2, <3>3, LastAppended
      <4> QED
        BY <3>1, <4>1
    <3>6. Cover(g[k]) = Cover(runs) \cup Front(k)
      <4> HIDE DEF Front
      <4> QED
        BY <2>2, <3>2, <3>3, <3>4
    <3> QED
      BY <1>1, <3>2, <3>4, <3>5, <3>6
  <2> QED
    BY <2>3, <2>4
<1> HIDE DEF S
<1>12. \A k \in 0 .. N : k \in S
  BY <1>1, <1>10, <1>11, Induction
<1>13. P(N)
  BY <1>1, <1>12 DEF S
<1> QED
  BY <1>2, <1>13 DEF N

\* What Kept and Zeros have found among the first k runs.
LEMMA KeptUnfold ==
  ASSUME NEW runs \in Seq(RunSet)
  PROVE  LET Step(k, q) == IF IsZeros(runs[k]) THEN q ELSE Append(q, runs[k])
         IN  \E g \in [0 .. Len(runs) -> Seq(RunSet)] :
               /\ Kept(runs) = g[Len(runs)]
               /\ g[0] = <<>>
               /\ \A k \in 1 .. Len(runs) : g[k] = Step(k, g[k - 1])
<1> DEFINE N == Len(runs)
           V == Seq(RunSet)
           b == <<>>
           Step(k, q) == IF IsZeros(runs[k]) THEN q ELSE Append(q, runs[k])
           NextOf(f) == [k \in 0 .. N |-> IF k = 0 THEN b ELSE Step(k, f[k - 1])]
           g == CHOOSE f : f = NextOf(f)
           step == [x \in (1 .. N) \X V |-> Step(x[1], x[2])]
<1>1. N \in Nat /\ \A k \in 1 .. N : k - 1 \in 0 .. N
  OBVIOUS
<1>2. Kept(runs) = g[N]
  BY DEF Kept
<1>3. \A k \in 1 .. N, q \in V : step[<<k, q>>] = Step(k, q)
  OBVIOUS
<1>4. b \in V
  OBVIOUS
<1>5. ASSUME NEW k \in 1 .. N, NEW q \in V PROVE Step(k, q) \in V
  BY CoverAppend
<1> HIDE DEF N, V, b, g, step, Step
<1>6. PICK f : Iterates(f, N, V, b, step)
  <2>1. \A k \in 1 .. N, q \in V : step[<<k, q>>] \in V
    BY <1>3, <1>5
  <2> QED
    BY <1>1, <1>4, <2>1, Recursion
<1>7. f = NextOf(f)
  <2>1. \A k \in 1 .. N : step[<<k, f[k - 1]>>] = Step(k, f[k - 1])
    BY <1>1, <1>3, <1>6 DEF Iterates
  <2> DEFINE h == NextOf(f)
  <2>2. ASSUME NEW k \in 0 .. N PROVE f[k] = h[k]
    <3>1. CASE k = 0
      BY <1>6, <3>1 DEF Iterates
    <3>2. CASE k # 0
      <4>1. k \in 1 .. N
        BY <1>1, <3>2
      <4>2. h[k] = Step(k, f[k - 1])
        BY <3>2
      <4> QED
        BY <1>6, <2>1, <4>1, <4>2 DEF Iterates
    <3> QED
      BY <3>1, <3>2
  <2>3. DOMAIN h = 0 .. N /\ h = [k \in DOMAIN h |-> h[k]]
    OBVIOUS
  <2>4. DOMAIN f = 0 .. N /\ f = [k \in DOMAIN f |-> f[k]]
    BY <1>6 DEF Iterates
  <2> HIDE DEF h
  <2>5. f = h
    BY <2>2, <2>3, <2>4
  <2> QED
    BY <2>5 DEF h
<1>8. g = NextOf(g)
  <2> HIDE DEF NextOf
  <2> QED
    BY <1>7 DEF g
<1>9. g[0] = b /\ \A k \in 1 .. N : g[k] = Step(k, g[k - 1])
  BY <1>1, <1>8
<1> DEFINE S == {k \in 0 .. N : g[k] \in V}
<1>10. 0 \in S
  BY <1>1, <1>4, <1>9
<1>11. \A k \in 1 .. N : k - 1 \in S => k \in S
  BY <1>1, <1>5, <1>9
<1>12. DOMAIN g = 0 .. N /\ g = [k \in 0 .. N |-> g[k]]
  BY <1>8
<1> HIDE DEF S
<1>13. \A k \in 0 .. N : k \in S
  BY <1>1, <1>10, <1>11, Induction
<1>14. g \in [0 .. N -> V]
  <2>1. \A k \in 0 .. N : g[k] \in V
    BY <1>13 DEF S
  <2> QED
    BY <1>12, <2>1
<1> QED
  BY <1>2, <1>9, <1>14 DEF N, V, b, Step

\* The pieces are zeros, each not too long.
ZeroSet == {r \in RunSet : r.data = 0 /\ Length(r) <= MaxZeros}

\* A run of zeros is cut into pieces that a count can hold.
LEMMA ZeroPieces ==
  ASSUME NEW run \in RunSet, run.data = 0
  PROVE  Pieces(run) \in Seq(ZeroSet)
<1>1. /\ Pieces(run) \in Seq(RunSet)
      /\ \A k \in DOMAIN Pieces(run) : Length(Pieces(run)[k]) <= MaxZeros
      /\ \A k \in DOMAIN Pieces(run) : Pieces(run)[k].data = 0
  BY PiecesOf
<1> QED
  BY <1>1 DEF ZeroSet

\* The list of zeros is made run by run (clean_list).
LEMMA ZerosUnfold ==
  ASSUME NEW runs \in Seq(RunSet)
  PROVE  LET Step(k, q) == q \o IF IsZeros(runs[k]) THEN Pieces(runs[k]) ELSE <<>>
         IN  \E g \in [0 .. Len(runs) -> Seq(ZeroSet)] :
               /\ Zeros(runs) = g[Len(runs)]
               /\ g[0] = <<>>
               /\ \A k \in 1 .. Len(runs) : g[k] = Step(k, g[k - 1])
<1> DEFINE N == Len(runs)
           V == Seq(ZeroSet)
           b == <<>>
           Step(k, q) == q \o IF IsZeros(runs[k]) THEN Pieces(runs[k]) ELSE <<>>
           NextOf(f) == [k \in 0 .. N |-> IF k = 0 THEN b ELSE Step(k, f[k - 1])]
           g == CHOOSE f : f = NextOf(f)
           step == [x \in (1 .. N) \X V |-> Step(x[1], x[2])]
<1>1. N \in Nat /\ \A k \in 1 .. N : k - 1 \in 0 .. N
  OBVIOUS
<1>2. Zeros(runs) = g[N]
  BY DEF Zeros
<1>3. \A k \in 1 .. N, q \in V : step[<<k, q>>] = Step(k, q)
  OBVIOUS
<1>4. b \in V
  OBVIOUS
<1>5. ASSUME NEW k \in 1 .. N, NEW q \in V PROVE Step(k, q) \in V
  <2>1. CASE IsZeros(runs[k])
    <3>1. Pieces(runs[k]) \in Seq(ZeroSet)
      BY <2>1, ZeroPieces DEF IsZeros
    <3> QED
      BY <2>1, <3>1
  <2>2. CASE ~ IsZeros(runs[k])
    BY <2>2
  <2> QED
    BY <2>1, <2>2
<1> HIDE DEF N, V, b, g, step, Step
<1>6. PICK f : Iterates(f, N, V, b, step)
  <2>1. \A k \in 1 .. N, q \in V : step[<<k, q>>] \in V
    BY <1>3, <1>5
  <2> QED
    BY <1>1, <1>4, <2>1, Recursion
<1>7. f = NextOf(f)
  <2>1. \A k \in 1 .. N : step[<<k, f[k - 1]>>] = Step(k, f[k - 1])
    BY <1>1, <1>3, <1>6 DEF Iterates
  <2> DEFINE h == NextOf(f)
  <2>2. ASSUME NEW k \in 0 .. N PROVE f[k] = h[k]
    <3>1. CASE k = 0
      BY <1>6, <3>1 DEF Iterates
    <3>2. CASE k # 0
      <4>1. k \in 1 .. N
        BY <1>1, <3>2
      <4>2. h[k] = Step(k, f[k - 1])
        BY <3>2
      <4> QED
        BY <1>6, <2>1, <4>1, <4>2 DEF Iterates
    <3> QED
      BY <3>1, <3>2
  <2>3. DOMAIN h = 0 .. N /\ h = [k \in DOMAIN h |-> h[k]]
    OBVIOUS
  <2>4. DOMAIN f = 0 .. N /\ f = [k \in DOMAIN f |-> f[k]]
    BY <1>6 DEF Iterates
  <2> HIDE DEF h
  <2>5. f = h
    BY <2>2, <2>3, <2>4
  <2> QED
    BY <2>5 DEF h
<1>8. g = NextOf(g)
  <2> HIDE DEF NextOf
  <2> QED
    BY <1>7 DEF g
<1>9. g[0] = b /\ \A k \in 1 .. N : g[k] = Step(k, g[k - 1])
  BY <1>1, <1>8
<1> DEFINE S == {k \in 0 .. N : g[k] \in V}
<1>10. 0 \in S
  BY <1>1, <1>4, <1>9
<1>11. \A k \in 1 .. N : k - 1 \in S => k \in S
  BY <1>1, <1>5, <1>9
<1>12. DOMAIN g = 0 .. N /\ g = [k \in 0 .. N |-> g[k]]
  BY <1>8
<1> HIDE DEF S
<1>13. \A k \in 0 .. N : k \in S
  BY <1>1, <1>10, <1>11, Induction
<1>14. g \in [0 .. N -> V]
  <2>1. \A k \in 0 .. N : g[k] \in V
    BY <1>13 DEF S
  <2> QED
    BY <1>12, <2>1
<1> QED
  BY <1>2, <1>9, <1>14 DEF N, V, b, Step

\* Cleaning loses no word: what is not kept on the list is cleared.
LEMMA Cleaned ==
  ASSUME NEW runs \in Seq(RunSet)
  PROVE  /\ Kept(runs) \in Seq(RunSet) /\ Zeros(runs) \in Seq(ZeroSet)
         /\ Cover(Kept(runs)) \cup Cover(Zeros(runs)) = Cover(runs)
<1> DEFINE N == Len(runs)
           KeptStep(k, q) == IF IsZeros(runs[k]) THEN q ELSE Append(q, runs[k])
           ZeroStep(k, q) == q \o IF IsZeros(runs[k]) THEN Pieces(runs[k]) ELSE <<>>
           Upto(k) == UNION {Held(runs[j]) : j \in 1 .. k}
<1>1. N \in Nat /\ \A k \in 1 .. N : runs[k] \in RunSet /\ k - 1 \in 0 .. N
  OBVIOUS
<1>2. PICK g \in [0 .. N -> Seq(RunSet)] :
        Kept(runs) = g[N] /\ g[0] = <<>> /\ \A k \in 1 .. N : g[k] = KeptStep(k, g[k - 1])
  BY KeptUnfold
<1>3. PICK z \in [0 .. N -> Seq(ZeroSet)] :
        Zeros(runs) = z[N] /\ z[0] = <<>> /\ \A k \in 1 .. N : z[k] = ZeroStep(k, z[k - 1])
  BY ZerosUnfold
<1>4. Cover(runs) = Upto(N)
  <2>1. DOMAIN runs = 1 .. N
    OBVIOUS
  <2> QED
    BY <2>1 DEF Cover
<1>5. Seq(ZeroSet) \subseteq Seq(RunSet)
  <2>1. ZeroSet \subseteq RunSet
    BY DEF ZeroSet
  <2>2. ASSUME NEW q \in Seq(ZeroSet) PROVE q \in Seq(RunSet)
    BY <2>1
  <2> QED
    BY <2>2
<1> HIDE DEF N
<1> DEFINE S == {k \in 0 .. N : Cover(g[k]) \cup Cover(z[k]) = Upto(k)}
<1>6. 0 \in S
  <2>1. Cover(<<>>) = {} /\ Upto(0) = {} /\ 0 \in 0 .. N
    BY <1>1 DEF Cover
  <2> QED
    BY <1>2, <1>3, <2>1
<1>7. ASSUME NEW k \in 1 .. N, k - 1 \in S PROVE k \in S
  <2>1. Cover(g[k - 1]) \cup Cover(z[k - 1]) = Upto(k - 1)
    BY <1>7
  <2>2. Upto(k) = Upto(k - 1) \cup Held(runs[k])
    <3>1. 1 .. k = (1 .. (k - 1)) \cup {k}
      BY <1>1, SMTT(30)
    <3> QED
      BY <3>1
  <2>3. g[k - 1] \in Seq(RunSet) /\ z[k - 1] \in Seq(ZeroSet) /\ z[k - 1] \in Seq(RunSet)
    BY <1>1, <1>2, <1>3, <1>5
  <2>4. g[k] = KeptStep(k, g[k - 1]) /\ z[k] = ZeroStep(k, z[k - 1])
    BY <1>2, <1>3
  <2>5. Cover(g[k]) \cup Cover(z[k]) = Cover(g[k - 1]) \cup Cover(z[k - 1]) \cup Held(runs[k])
    <3>1. CASE IsZeros(runs[k])
      <4>1. g[k] = g[k - 1] /\ z[k] = z[k - 1] \o Pieces(runs[k])
        BY <2>4, <3>1
      <4>2. Pieces(runs[k]) \in Seq(RunSet) /\ Cover(Pieces(runs[k])) = Held(runs[k])
        BY <1>1, PiecesOf
      <4>3. Cover(z[k]) = Cover(z[k - 1]) \cup Held(runs[k])
        BY <2>3, <4>1, <4>2, CoverConcat
      <4> QED
        BY <4>1, <4>3
    <3>2. CASE ~ IsZeros(runs[k])
      <4>1. g[k] = Append(g[k - 1], runs[k]) /\ z[k] = z[k - 1] \o <<>>
        BY <2>4, <3>2
      <4>2. z[k - 1] \o <<>> = z[k - 1]
        BY <2>3
      <4>3. Cover(g[k]) = Cover(g[k - 1]) \cup Held(runs[k])
        BY <1>1, <2>3, <4>1, CoverAppend
      <4> QED
        BY <4>1, <4>2, <4>3
    <3> QED
      BY <3>1, <3>2
  <2>6. k \in 0 .. N
    BY <1>1
  <2> HIDE DEF Upto
  <2> QED
    BY <2>1, <2>2, <2>5, <2>6
<1> HIDE DEF S, Upto
<1>8. \A k \in 0 .. N : k \in S
  BY <1>1, <1>6, <1>7, Induction
<1>9. N \in S /\ N \in 0 .. N
  BY <1>1, <1>8
<1> QED
  BY <1>2, <1>3, <1>4, <1>9 DEF S

-----------------------------------------------------------------------------
(* The blocks of the table.                                                *)

CellSet == [hi : Nat, lo : 0 .. (CountRange - 1)]

\* A word of the table is two numbers.
LEMMA CellIn ==
  ASSUME NEW hi \in Nat, NEW lo \in Nat
  PROVE  /\ Cell(hi, lo) \in CellSet /\ Cell(hi, lo).hi = hi
         /\ lo < CountRange => Cell(hi, lo).lo = lo
<1>1. lo % CountRange \in 0 .. (CountRange - 1) /\ (lo < CountRange => lo % CountRange = lo)
  BY InitListAssumption
<1> QED
  BY <1>1 DEF Cell, CellSet

\* A run is written as its word, as often as it is long.
LEMMA RunWordsIn ==
  ASSUME NEW run \in RunSet
  PROVE  /\ RunWords(run) \in Seq(CellSet) /\ Len(RunWords(run)) = Length(run)
         /\ \A n \in 1 .. Length(run) : RunWords(run)[n].hi = run.data
<1>1. Length(run) \in Nat /\ run.data \in Nat /\ 0 \in Nat
  BY RunParts
<1>2. Cell(run.data, 0) \in CellSet /\ Cell(run.data, 0).hi = run.data
  BY <1>1, CellIn
<1> QED
  BY <1>1, <1>2 DEF RunWords

\* A block of words has its address and count in front.
LEMMA BlockIn ==
  ASSUME NEW address \in Nat, NEW words \in Seq(CellSet)
  PROVE  /\ Block(address, words) \in Seq(CellSet)
         /\ Len(Block(address, words)) = 1 + Len(words)
         /\ Block(address, words)[1] = Cell(address, Len(words))
         /\ \A n \in 1 .. Len(words) : Block(address, words)[1 + n] = words[n]
<1>1. Cell(address, Len(words)) \in CellSet
  BY CellIn
<1> QED
  BY <1>1 DEF Block

\* Where create_string is: the blocks it has begun, the closed ones as they are in
\* the table, and address and words of the last.
BlocksSet == [blocks : Nat, closed : Seq(CellSet), address : Nat, words : Seq(CellSet)]

\* One run more is written.
LEMMA WrittenUnfold ==
  ASSUME NEW runs \in Seq(RunSet), runs # <<>>
  PROVE  LET Step(k, before) == 
               LET words == before.words \o RunWords(runs[k])
               IN IF k < Len(runs) /\ Closes(Len(words) % CountRange, runs[k], runs[k + 1])
                  THEN [blocks |-> before.blocks + 1,
                        closed |-> before.closed \o Block(before.address, words),
                        address |-> runs[k + 1].start, words |-> <<>>]
                  ELSE [before EXCEPT !.words = words]
         IN  \E g \in [0 .. Len(runs) -> BlocksSet] :
               /\ Written(runs) = g
               /\ g[0] = [blocks |-> 1, closed |-> <<>>, address |-> runs[1].start, words |-> <<>>]
               /\ \A k \in 1 .. Len(runs) : g[k] = Step(k, g[k - 1])
<1> DEFINE N == Len(runs)
           V == BlocksSet
           b == [blocks |-> 1, closed |-> <<>>, address |-> runs[1].start, words |-> <<>>]
           Step(k, before) == 
               LET words == before.words \o RunWords(runs[k])
               IN IF k < Len(runs) /\ Closes(Len(words) % CountRange, runs[k], runs[k + 1])
                  THEN [blocks |-> before.blocks + 1,
                        closed |-> before.closed \o Block(before.address, words),
                        address |-> runs[k + 1].start, words |-> <<>>]
                  ELSE [before EXCEPT !.words = words]
           NextOf(f) == [k \in 0 .. N |-> IF k = 0 THEN b ELSE Step(k, f[k - 1])]
           g == CHOOSE f : f = NextOf(f)
           step == [x \in (1 .. N) \X V |-> Step(x[1], x[2])]
<1>1. N \in Nat /\ \A k \in 1 .. N : k - 1 \in 0 .. N
  OBVIOUS
<1>2. Written(runs) = g
  BY DEF Written
<1>3. \A k \in 1 .. N, q \in V : step[<<k, q>>] = Step(k, q)
  OBVIOUS
<1>4. b \in V
  <2>1. runs[1] \in RunSet
    OBVIOUS
  <2> QED
    BY <2>1, RunParts DEF BlocksSet
<1>5. ASSUME NEW k \in 1 .. N, NEW q \in V PROVE Step(k, q) \in V
  <2> DEFINE words == q.words \o RunWords(runs[k])
  <2>1. q.blocks + 1 \in Nat /\ q.closed \in Seq(CellSet) /\ q.address \in Nat /\ q.words \in Seq(CellSet)
    BY DEF BlocksSet
  <2>2. words \in Seq(CellSet)
    BY <2>1, RunWordsIn
  <2>3. q.closed \o Block(q.address, words) \in Seq(CellSet)
    <3> HIDE DEF words
    <3>1. Block(q.address, words) \in Seq(CellSet)
      BY <2>1, <2>2, BlockIn
    <3> QED
      BY <2>1, <3>1
  <2>4. k < N => runs[k + 1].start \in Nat
    <3>1. k < N => runs[k + 1] \in RunSet
      OBVIOUS
    <3> QED
      BY <3>1, RunParts
  <2> HIDE DEF words
  <2>5. [blocks |-> q.blocks + 1, closed |-> q.closed \o Block(q.address, words),
         address |-> runs[k + 1].start, words |-> <<>>] \in V \/ ~ (k < N)
    BY <2>1, <2>3, <2>4 DEF BlocksSet
  <2>6. [q EXCEPT !.words = words] \in V
    BY <2>2 DEF BlocksSet
  <2>7. Step(k, q) = IF k < N /\ Closes(Len(words) % CountRange, runs[k], runs[k + 1])
                     THEN [blocks |-> q.blocks + 1, closed |-> q.closed \o Block(q.address, words),
                           address |-> runs[k + 1].start, words |-> <<>>]
                     ELSE [q EXCEPT !.words = words]
    BY DEF words
  <2> QED
    <3> HIDE DEF V, N, Step
    <3> QED
      BY <2>5, <2>6, <2>7
<1> HIDE DEF N, V, b, g, step, Step
<1>6. PICK f : Iterates(f, N, V, b, step)
  <2>1. \A k \in 1 .. N, q \in V : step[<<k, q>>] \in V
    BY <1>3, <1>5
  <2> QED
    BY <1>1, <1>4, <2>1, Recursion
<1>7. f = NextOf(f)
  <2>1. \A k \in 1 .. N : step[<<k, f[k - 1]>>] = Step(k, f[k - 1])
    BY <1>1, <1>3, <1>6 DEF Iterates
  <2> DEFINE h == NextOf(f)
  <2>2. ASSUME NEW k \in 0 .. N PROVE f[k] = h[k]
    <3>1. CASE k = 0
      BY <1>6, <3>1 DEF Iterates
    <3>2. CASE k # 0
      <4>1. k \in 1 .. N
        BY <1>1, <3>2
      <4>2. h[k] = Step(k, f[k - 1])
        BY <3>2
      <4> QED
        BY <1>6, <2>1, <4>1, <4>2 DEF Iterates
    <3> QED
      BY <3>1, <3>2
  <2>3. DOMAIN h = 0 .. N /\ h = [k \in DOMAIN h |-> h[k]]
    OBVIOUS
  <2>4. DOMAIN f = 0 .. N /\ f = [k \in DOMAIN f |-> f[k]]
    BY <1>6 DEF Iterates
  <2> HIDE DEF h
  <2>5. f = h
    BY <2>2, <2>3, <2>4
  <2> QED
    BY <2>5 DEF h
<1>8. g = NextOf(g)
  <2> HIDE DEF NextOf
  <2> QED
    BY <1>7 DEF g
<1>9. g[0] = b /\ \A k \in 1 .. N : g[k] = Step(k, g[k - 1])
  BY <1>1, <1>8
<1> DEFINE S == {k \in 0 .. N : g[k] \in V}
<1>10. 0 \in S
  BY <1>1, <1>4, <1>9
<1>11. \A k \in 1 .. N : k - 1 \in S => k \in S
  BY <1>1, <1>5, <1>9
<1>12. DOMAIN g = 0 .. N /\ g = [k \in 0 .. N |-> g[k]]
  BY <1>8
<1> HIDE DEF S
<1>13. \A k \in 0 .. N : k \in S
  BY <1>1, <1>10, <1>11, Induction
<1>14. g \in [0 .. N -> V]
  <2>1. \A k \in 0 .. N : g[k] \in V
    BY <1>13 DEF S
  <2> QED
    BY <1>12, <2>1
<1> QED
  BY <1>2, <1>9, <1>14 DEF N, V, b, Step

\* What create_string and output_zero_data make is words of program memory.
LEMMA StringIn ==
  ASSUME NEW runs \in Seq(RunSet)
  PROVE  CreateString(runs) \in Seq(CellSet)
<1>1. CASE runs = <<>>
  <2>1. Cell(0, 0) \in CellSet
    BY CellIn
  <2> QED
    BY <1>1, <2>1 DEF CreateString
<1>2. CASE runs # <<>>
  <2> DEFINE last == Written(runs)[Len(runs)]
  <2>1. Written(runs) \in [0 .. Len(runs) -> BlocksSet]
    BY <1>2, WrittenUnfold
  <2>2. last \in BlocksSet
    <3>1. Len(runs) \in 0 .. Len(runs)
      OBVIOUS
    <3> QED
      BY <2>1, <3>1
  <2> HIDE DEF last
  <2>3. Cell(last.blocks, 0) \in CellSet /\ last.closed \in Seq(CellSet)
    BY <2>2, CellIn DEF BlocksSet
  <2>4. Block(last.address, last.words) \in Seq(CellSet)
    BY <2>2, BlockIn DEF BlocksSet
  <2>5. CreateString(runs) = << Cell(last.blocks, 0) >> \o last.closed \o Block(last.address, last.words)
    BY <1>2 DEF CreateString, last
  <2> QED
    BY <2>3, <2>4, <2>5
<1> QED
  BY <1>1, <1>2

\* A table of zeros has their number in front, and an address and a count for each.
LEMMA ZeroTableIn ==
  ASSUME NEW q \in Seq(ZeroSet)
  PROVE  /\ ZeroTable(q) \in Seq(CellSet)
         /\ Len(ZeroTable(q)) = 1 + Len(q)
         /\ ZeroTable(q)[1] = Cell(Len(q), 0)
         /\ \A k \in 1 .. Len(q) : ZeroTable(q)[1 + k] = Cell(q[k].start, Length(q[k]))
<1> DEFINE n == Len(q)
           cells == [k \in DOMAIN q |-> Cell(q[k].start, Length(q[k]))]
<1>1. n \in Nat /\ DOMAIN q = 1 .. n /\ \A k \in 1 .. n : q[k] \in RunSet
  BY DEF ZeroSet
<1>2. ASSUME NEW k \in 1 .. n PROVE cells[k] \in CellSet /\ cells[k] = Cell(q[k].start, Length(q[k]))
  <2>1. q[k].start \in Nat /\ Length(q[k]) \in Nat
    BY <1>1, RunParts
  <2> QED
    BY <1>1, <2>1, CellIn
<1>3. DOMAIN cells = 1 .. n /\ Cell(n, 0) \in CellSet
  BY <1>1, CellIn
<1> HIDE DEF n
<1>4. cells \in Seq(CellSet) /\ Len(cells) = n
  <2>1. cells \in [1 .. n -> CellSet]
    BY <1>1, <1>2
  <2> QED
    BY <1>1, <2>1
<1>5. ZeroTable(q) = << Cell(n, 0) >> \o cells
  BY DEF ZeroTable, n
<1> HIDE DEF cells
<1> QED
  BY <1>1, <1>2, <1>3, <1>4, <1>5 DEF n

-----------------------------------------------------------------------------
(* Reading the table.                                                      *)

\* The words of q are at p in the table.
Stands(q, t, p) == \A n \in 1 .. Len(q) : At(t, p + n - 1) = q[n]

\* What stands in the table stands there in parts.
LEMMA StandsConcat ==
  ASSUME NEW V, NEW a \in Seq(V), NEW b \in Seq(V), NEW t, NEW p \in Nat, Stands(a \o b, t, p)
  PROVE  Stands(a, t, p) /\ Stands(b, t, p + Len(a))
<1> DEFINE q == a \o b
<1>1. /\ Len(a) \in Nat /\ Len(b) \in Nat /\ Len(q) = Len(a) + Len(b)
      /\ \A n \in 1 .. Len(a) : q[n] = a[n]
      /\ \A n \in 1 .. Len(b) : q[Len(a) + n] = b[n]
  OBVIOUS
<1>2. Stands(q, t, p)
  OBVIOUS
<1> HIDE DEF q
<1>3. \A n \in 1 .. Len(q) : At(t, p + n - 1) = q[n]
  BY <1>2 DEF Stands
<1>4. ASSUME NEW n \in 1 .. Len(a) PROVE At(t, p + n - 1) = a[n]
  <2>1. n \in 1 .. Len(q)
    BY <1>1
  <2> QED
    BY <1>1, <1>3, <2>1
<1>5. ASSUME NEW n \in 1 .. Len(b) PROVE At(t, p + Len(a) + n - 1) = b[n]
  <2>1. Len(a) + n \in 1 .. Len(q) /\ p + (Len(a) + n) - 1 = p + Len(a) + n - 1
    BY <1>1
  <2> QED
    BY <1>1, <1>3, <2>1
<1> QED
  BY <1>4, <1>5 DEF Stands

\* A table of zeros is read as what it was made of.
LEMMA ZerosRead ==
  ASSUME NEW t, NEW p \in Nat, NEW q \in Seq(ZeroSet), Stands(ZeroTable(q), t, p)
  PROVE  BehindZeros(t, p) = p + Len(ZeroTable(q)) /\ ReadZeros(t, p) = Cover(q)
<1> DEFINE N == Len(q)
<1>1. N \in Nat /\ DOMAIN q = 1 .. N /\ Len(ZeroTable(q)) = 1 + N
  BY ZeroTableIn
<1>2. ASSUME NEW n \in 1 .. (1 + N) PROVE At(t, p + n - 1) = ZeroTable(q)[n]
  BY <1>1 DEF Stands
<1> HIDE DEF N
<1>3. At(t, p).hi = N
  <2>1. 1 \in 1 .. (1 + N) /\ p + 1 - 1 = p /\ 0 \in Nat
    BY <1>1
  <2>2. At(t, p) = ZeroTable(q)[1]
    BY <1>2, <2>1
  <2>3. ZeroTable(q)[1] = Cell(N, 0)
    BY ZeroTableIn DEF N
  <2> QED
    BY <1>1, <2>1, <2>2, <2>3, CellIn
<1> DEFINE Words(x) == {<<At(t, x).hi + n, 0>> : n \in 0 .. (At(t, x).lo - 1)}
<1>4. ASSUME NEW k \in 1 .. N PROVE Words(p + k) = Held(q[k])
  <2>1. 1 + k \in 1 .. (1 + N) /\ p + (1 + k) - 1 = p + k
    BY <1>1
  <2>2. At(t, p + k) = ZeroTable(q)[1 + k]
    BY <1>2, <2>1
  <2>3. ZeroTable(q)[1 + k] = Cell(q[k].start, Length(q[k]))
    BY ZeroTableIn DEF N
  <2>4. q[k] \in RunSet /\ q[k].data = 0 /\ Length(q[k]) <= MaxZeros
    <3>1. q[k] \in ZeroSet
      BY <1>1
    <3> QED
      BY <3>1 DEF ZeroSet
  <2>5. /\ q[k].start \in Nat /\ q[k].end \in Nat /\ Length(q[k]) \in Nat
        /\ q[k].end = q[k].start + Length(q[k])
    BY <2>4, RunParts
  <2>6. Length(q[k]) < CountRange
    BY <2>4, <2>5, InitListAssumption
  <2>7. At(t, p + k).hi = q[k].start /\ At(t, p + k).lo = Length(q[k])
    BY <2>2, <2>3, <2>5, <2>6, CellIn, SMTT(30)
  <2> DEFINE start == q[k].start
             end == q[k].end
             L == Length(q[k])
  <2> HIDE DEF start, end, L
  <2>8. start \in Nat /\ end \in Nat /\ L \in Nat /\ end = start + L
    BY <2>5 DEF start, end, L
  <2>9. {<<start + n, 0>> : n \in 0 .. (L - 1)} = {<<a, 0>> : a \in start .. (end - 1)}
    <3>1. ASSUME NEW n \in 0 .. (L - 1) PROVE start + n \in start .. (end - 1)
      BY <2>8
    <3>2. ASSUME NEW a \in start .. (end - 1) PROVE a - start \in 0 .. (L - 1) /\ start + (a - start) = a
      BY <2>8
    <3> QED
      BY <3>1, <3>2
  <2> QED
    BY <2>4, <2>7, <2>9, SMTT(30) DEF Held, start, end, L
<1>5. ReadZeros(t, p) = UNION {Words(x) : x \in (p + 1) .. (p + N)}
  BY <1>3 DEF ReadZeros
<1>6. Cover(q) = UNION {Held(q[k]) : k \in 1 .. N}
  BY <1>1 DEF Cover
<1> HIDE DEF Words
<1>7. UNION {Words(x) : x \in (p + 1) .. (p + N)} = UNION {Held(q[k]) : k \in 1 .. N}
  <2>1. ASSUME NEW x \in (p + 1) .. (p + N) PROVE x - p \in 1 .. N /\ Words(x) = Held(q[x - p])
    <3>1. x - p \in 1 .. N /\ p + (x - p) = x
      BY <1>1
    <3> QED
      BY <1>4, <3>1
  <2>2. ASSUME NEW k \in 1 .. N PROVE p + k \in (p + 1) .. (p + N) /\ Words(p + k) = Held(q[k])
    BY <1>1, <1>4
  <2> QED
    BY <2>1, <2>2
<1>8. BehindZeros(t, p) = p + Len(ZeroTable(q))
  BY <1>1, <1>3 DEF BehindZeros
<1> QED
  BY <1>5, <1>6, <1>7, <1>8

\* Whatever is read of a table is two numbers.
LEMMA CellOf ==
  ASSUME NEW t \in Seq(CellSet), NEW p PROVE At(t, p).hi \in Nat /\ At(t, p).lo \in Nat
<1>1. Cell(0, 0) \in CellSet
  BY CellIn
<1>2. At(t, p) \in CellSet
  BY <1>1 DEF At
<1> QED
  BY <1>2, InitListAssumption DEF CellSet

\* Where the blocks of a table begin.
LEMMA BlockAtUnfold ==
  ASSUME NEW t \in Seq(CellSet), NEW p \in Nat
  PROVE  LET Step(k, q) == q + 1 + At(t, q).lo
         IN  \E g \in [0 .. At(t, p).hi -> Nat] :
               /\ BlockAt(t, p) = g
               /\ g[0] = p + 1
               /\ \A k \in 1 .. At(t, p).hi : g[k] = Step(k, g[k - 1])
<1> DEFINE N == At(t, p).hi
           V == Nat
           b == p + 1
           Step(k, q) == q + 1 + At(t, q).lo
           NextOf(f) == [k \in 0 .. N |-> IF k = 0 THEN b ELSE Step(k, f[k - 1])]
           g == CHOOSE f : f = NextOf(f)
           step == [x \in (1 .. N) \X V |-> Step(x[1], x[2])]
<1>1. N \in Nat /\ \A k \in 1 .. N : k - 1 \in 0 .. N
  <2>1. N \in Nat
    BY CellOf
  <2> QED
    BY <2>1
<1>2. BlockAt(t, p) = g
  BY DEF BlockAt
<1>3. \A k \in 1 .. N, q \in V : step[<<k, q>>] = Step(k, q)
  OBVIOUS
<1>4. b \in V
  OBVIOUS
<1>5. ASSUME NEW k \in 1 .. N, NEW q \in V PROVE Step(k, q) \in V
  <2>1. At(t, q).lo \in Nat
    BY CellOf
  <2> QED
    BY <2>1
<1> HIDE DEF N, V, b, g, step, Step
<1>6. PICK f : Iterates(f, N, V, b, step)
  <2>1. \A k \in 1 .. N, q \in V : step[<<k, q>>] \in V
    BY <1>3, <1>5
  <2> QED
    BY <1>1, <1>4, <2>1, Recursion
<1>7. f = NextOf(f)
  <2>1. \A k \in 1 .. N : step[<<k, f[k - 1]>>] = Step(k, f[k - 1])
    BY <1>1, <1>3, <1>6 DEF Iterates
  <2> DEFINE h == NextOf(f)
  <2>2. ASSUME NEW k \in 0 .. N PROVE f[k] = h[k]
    <3>1. CASE k = 0
      BY <1>6, <3>1 DEF Iterates
    <3>2. CASE k # 0
      <4>1. k \in 1 .. N
        BY <1>1, <3>2
      <4>2. h[k] = Step(k, f[k - 1])
        BY <3>2
      <4> QED
        BY <1>6, <2>1, <4>1, <4>2 DEF Iterates
    <3> QED
      BY <3>1, <3>2
  <2>3. DOMAIN h = 0 .. N /\ h = [k \in DOMAIN h |-> h[k]]
    OBVIOUS
  <2>4. DOMAIN f = 0 .. N /\ f = [k \in DOMAIN f |-> f[k]]
    BY <1>6 DEF Iterates
  <2> HIDE DEF h
  <2>5. f = h
    BY <2>2, <2>3, <2>4
  <2> QED
    BY <2>5 DEF h
<1>8. g = NextOf(g)
  <2> HIDE DEF NextOf
  <2> QED
    BY <1>7 DEF g
<1>9. g[0] = b /\ \A k \in 1 .. N : g[k] = Step(k, g[k - 1])
  BY <1>1, <1>8
<1> DEFINE S == {k \in 0 .. N : g[k] \in V}
<1>10. 0 \in S
  BY <1>1, <1>4, <1>9
<1>11. \A k \in 1 .. N : k - 1 \in S => k \in S
  BY <1>1, <1>5, <1>9
<1>12. DOMAIN g = 0 .. N /\ g = [k \in 0 .. N |-> g[k]]
  BY <1>8
<1> HIDE DEF S
<1>13. \A k \in 0 .. N : k \in S
  BY <1>1, <1>10, <1>11, Induction
<1>14. g \in [0 .. N -> V]
  <2>1. \A k \in 0 .. N : g[k] \in V
    BY <1>13 DEF S
  <2> QED
    BY <1>12, <2>1
<1> QED
  BY <1>2, <1>9, <1>14 DEF N, V, b, Step

\* The words of the block that run k goes to, with those of the run; whether the
\* block ends there.
WordsAfter(runs, k) == Written(runs)[k - 1].words \o RunWords(runs[k])
EndsAt(runs, k) ==
  k < Len(runs) /\ Closes(Len(WordsAfter(runs, k)) % CountRange, runs[k], runs[k + 1])

\* The blocks written so far, run by run (clean_list).
LEMMA WrittenStep ==
  ASSUME NEW runs \in Seq(RunSet), runs # <<>>
  PROVE  LET g == Written(runs)
         IN  /\ \A k \in 0 .. Len(runs) :
                  /\ g[k].blocks \in Nat /\ g[k].address \in Nat
                  /\ g[k].closed \in Seq(CellSet) /\ g[k].words \in Seq(CellSet)
             /\ g[0].blocks = 1 /\ g[0].closed = <<>> /\ g[0].words = <<>>
             /\ g[0].address = runs[1].start
             /\ \A k \in 1 .. Len(runs) : EndsAt(runs, k) =>
                  /\ g[k].blocks = g[k - 1].blocks + 1
                  /\ g[k].closed = g[k - 1].closed \o Block(g[k - 1].address, WordsAfter(runs, k))
                  /\ g[k].address = runs[k + 1].start /\ g[k].words = <<>>
             /\ \A k \in 1 .. Len(runs) : ~ EndsAt(runs, k) =>
                  /\ g[k].blocks = g[k - 1].blocks /\ g[k].closed = g[k - 1].closed
                  /\ g[k].address = g[k - 1].address /\ g[k].words = WordsAfter(runs, k)
<1> DEFINE N == Len(runs)
           g == Written(runs)
           Ended(k) == [blocks |-> g[k - 1].blocks + 1,
                        closed |-> g[k - 1].closed \o Block(g[k - 1].address, WordsAfter(runs, k)),
                        address |-> runs[k + 1].start, words |-> <<>>]
           Longer(k) == [g[k - 1] EXCEPT !.words = WordsAfter(runs, k)]
<1>1. /\ g \in [0 .. N -> BlocksSet]
      /\ g[0] = [blocks |-> 1, closed |-> <<>>, address |-> runs[1].start, words |-> <<>>]
      /\ \A k \in 1 .. N : g[k] = IF EndsAt(runs, k) THEN Ended(k) ELSE Longer(k)
  BY WrittenUnfold DEF EndsAt, WordsAfter
<1>2. N \in Nat
  OBVIOUS
<1> HIDE DEF g, N
<1>3. ASSUME NEW k \in 0 .. N
      PROVE  /\ g[k] \in BlocksSet
             /\ g[k].blocks \in Nat /\ g[k].address \in Nat
             /\ g[k].closed \in Seq(CellSet) /\ g[k].words \in Seq(CellSet)
  <2>1. g[k] \in BlocksSet
    BY <1>1
  <2> QED
    BY <2>1 DEF BlocksSet
<1>4. ASSUME NEW k \in 1 .. N, EndsAt(runs, k)
      PROVE  /\ g[k].blocks = g[k - 1].blocks + 1
             /\ g[k].closed = g[k - 1].closed \o Block(g[k - 1].address, WordsAfter(runs, k))
             /\ g[k].address = runs[k + 1].start /\ g[k].words = <<>>
  <2>1. g[k] = Ended(k)
    BY <1>1, <1>4
  <2>2. /\ Ended(k).blocks = g[k - 1].blocks + 1
        /\ Ended(k).closed = g[k - 1].closed \o Block(g[k - 1].address, WordsAfter(runs, k))
        /\ Ended(k).address = runs[k + 1].start /\ Ended(k).words = <<>>
    OBVIOUS
  <2> HIDE DEF Ended
  <2> QED
    BY <2>1, <2>2
<1>5. ASSUME NEW k \in 1 .. N, ~ EndsAt(runs, k)
      PROVE  /\ g[k].blocks = g[k - 1].blocks /\ g[k].closed = g[k - 1].closed
             /\ g[k].address = g[k - 1].address /\ g[k].words = WordsAfter(runs, k)
  <2>1. g[k] = Longer(k)
    BY <1>1, <1>5
  <2>2. k - 1 \in 0 .. N
    BY <1>2
  <2>3. g[k - 1] \in BlocksSet
    BY <1>3, <2>2
  <2> QED
    BY <2>1, <2>3 DEF BlocksSet
<1>6. g[0].blocks = 1 /\ g[0].closed = <<>> /\ g[0].words = <<>> /\ g[0].address = runs[1].start
  BY <1>1
<1> QED
  BY <1>3, <1>4, <1>5, <1>6 DEF g, N

\* The words that stand together from run j to run k can be counted, if the block
\* has not ended before for its length.
Suffices(runs) ==
  \A j, k \in DOMAIN runs :
    (/\ j <= k /\ \A l \in j .. (k - 1) : runs[l].end = runs[l + 1].start
     /\ j < k => runs[k - 1].end - runs[j].start <= CloseAt)
    => runs[k].end - runs[j].start < CountRange

\* Then no count wraps: a block has as many words as its header says, and the first
\* word of a run comes to its address.
LEMMA WordsCounted ==
  ASSUME NEW runs \in Seq(RunSet), runs # <<>>, Suffices(runs)
  PROVE  \A k \in 1 .. Len(runs) :
           /\ Written(runs)[k - 1].address + Len(Written(runs)[k - 1].words) = runs[k].start
           /\ WordsAfter(runs, k) \in Seq(CellSet)
           /\ Len(WordsAfter(runs, k)) < CountRange
           /\ Len(WordsAfter(runs, k)) = Len(Written(runs)[k - 1].words) + Length(runs[k])
<1> DEFINE N == Len(runs)
           g == Written(runs)
           First(k, j) == /\ j \in 1 .. k
                          /\ g[k - 1].address = runs[j].start
                          /\ g[k - 1].address + Len(g[k - 1].words) = runs[k].start
                          /\ \A l \in j .. (k - 1) : runs[l].end = runs[l + 1].start
                          /\ j < k => Len(g[k - 1].words) <= CloseAt
           S == {k \in 0 .. N : k = 0 \/ \E j \in 1 .. N : First(k, j)}
<1>1. /\ N \in Nat \ {0} /\ DOMAIN runs = 1 .. N
      /\ \A k \in 1 .. N : runs[k] \in RunSet /\ k - 1 \in 0 .. N
      /\ 0 \in 0 .. N /\ 1 \in 1 .. N
  OBVIOUS
<1>2. /\ \A k \in 0 .. N : g[k].address \in Nat /\ g[k].words \in Seq(CellSet)
      /\ g[0].words = <<>> /\ g[0].address = runs[1].start
      /\ \A k \in 1 .. N : EndsAt(runs, k) => g[k].address = runs[k + 1].start /\ g[k].words = <<>>
      /\ \A k \in 1 .. N : ~ EndsAt(runs, k) =>
           g[k].address = g[k - 1].address /\ g[k].words = WordsAfter(runs, k)
  BY WrittenStep
<1>3. CountRange \in Nat \ {0} /\ CloseAt \in Nat
  BY InitListAssumption
<1> HIDE DEF N, g
<1>4. ASSUME NEW k \in 1 .. N
      PROVE  /\ runs[k].start \in Nat /\ runs[k].end \in Nat /\ Length(runs[k]) \in Nat
             /\ runs[k].end = runs[k].start + Length(runs[k])
  BY <1>1, RunParts
<1>5. ASSUME NEW k \in 1 .. N
      PROVE  /\ WordsAfter(runs, k) \in Seq(CellSet)
             /\ Len(WordsAfter(runs, k)) = Len(g[k - 1].words) + Length(runs[k])
             /\ Len(g[k - 1].words) \in Nat /\ Len(WordsAfter(runs, k)) \in Nat
             /\ g[k - 1].address \in Nat
  <2>1. g[k - 1].words \in Seq(CellSet) /\ g[k - 1].address \in Nat
    BY <1>1, <1>2
  <2>2. RunWords(runs[k]) \in Seq(CellSet) /\ Len(RunWords(runs[k])) = Length(runs[k])
    BY <1>1, RunWordsIn
  <2> DEFINE a == g[k - 1].words
             b == RunWords(runs[k])
  <2>3. WordsAfter(runs, k) = a \o b
    BY DEF WordsAfter, g
  <2>4. a \in Seq(CellSet) /\ b \in Seq(CellSet) /\ Len(b) = Length(runs[k])
    BY <2>1, <2>2
  <2> HIDE DEF a, b
  <2>5. a \o b \in Seq(CellSet) /\ Len(a \o b) = Len(a) + Len(b)
        /\ Len(a) \in Nat /\ Len(b) \in Nat
    BY <2>4
  <2> QED
    BY <2>1, <2>3, <2>4, <2>5 DEF a
<1>6. ASSUME NEW k \in 1 .. N, NEW j \in 1 .. N, First(k, j)
      PROVE  /\ Len(WordsAfter(runs, k)) < CountRange
             /\ Len(WordsAfter(runs, k)) = runs[k].end - runs[j].start
             /\ g[k - 1].address + Len(WordsAfter(runs, k)) = runs[k].end
  <2>0. /\ g[k - 1].address = runs[j].start
        /\ g[k - 1].address + Len(g[k - 1].words) = runs[k].start
        /\ \A l \in j .. (k - 1) : runs[l].end = runs[l + 1].start
        /\ j < k => Len(g[k - 1].words) <= CloseAt
        /\ j \in 1 .. k
    BY <1>6
  <2> HIDE DEF First
  <2> DEFINE a == g[k - 1].address
             m == Len(g[k - 1].words)
             n == Len(WordsAfter(runs, k))
             L == Length(runs[k])
             start == runs[k].start
             end == runs[k].end
  <2>4. /\ a \in Nat /\ m \in Nat /\ n \in Nat /\ L \in Nat /\ start \in Nat /\ end \in Nat
        /\ n = m + L /\ end = start + L
    BY <1>4, <1>5
  <2>5. a = runs[j].start
    BY <2>0
  <2>7. a + m = start
    BY <2>0
  <2> HIDE DEF a, m, n, L, start, end
  <2>6. n = end - a /\ a + n = end /\ start - a = m
    BY <2>4, <2>7
  <2>1. Len(WordsAfter(runs, k)) = runs[k].end - runs[j].start
        /\ g[k - 1].address + Len(WordsAfter(runs, k)) = runs[k].end
    BY <2>5, <2>6 DEF n, end, a
  <2>2. j < k => runs[k - 1].end - runs[j].start <= CloseAt
    <3>1. SUFFICES ASSUME j < k PROVE runs[k - 1].end - runs[j].start <= CloseAt
      OBVIOUS
    <3>2. k - 1 \in j .. (k - 1) /\ k - 1 + 1 = k
      BY <1>1, <3>1
    <3>3. runs[k - 1].end = runs[k].start
      BY <2>0, <3>2
    <3>4. runs[k].start - runs[j].start = Len(g[k - 1].words)
      BY <2>5, <2>6 DEF m, start
    <3> QED
      BY <2>0, <3>1, <3>3, <3>4
  <2>3. runs[k].end - runs[j].start < CountRange
    <3>1. j <= k
      BY <2>0
    <3> QED
      BY <1>1, <2>0, <2>2, <3>1, Zenon DEF Suffices
  <2> QED
    BY <2>1, <2>3
<1>7. 0 \in S
  BY <1>1
<1>8. ASSUME NEW k \in 1 .. N, k - 1 \in S PROVE k \in S
  <2>1. CASE k = 1
    <3>1. First(1, 1)
      <4>1. Len(g[0].words) = 0 /\ g[0].address \in Nat /\ 1 - 1 = 0
        BY <1>1, <1>2
      <4> QED
        BY <1>1, <1>2, <4>1
    <3> HIDE DEF First
    <3> QED
      BY <1>1, <2>1, <3>1
  <2>2. CASE k # 1
    <3> DEFINE i0 == k - 1
    <3>0. i0 \in 1 .. N /\ i0 + 1 = k /\ i0 < N /\ k - 1 = i0
      BY <1>1, <2>2
    <3>1. PICK j \in 1 .. N : First(i0, j)
      BY <1>8, <3>0, SMTT(30)
    <3> HIDE DEF i0
    <3>2. /\ Len(WordsAfter(runs, i0)) < CountRange
          /\ Len(WordsAfter(runs, i0)) = runs[i0].end - runs[j].start
          /\ g[i0 - 1].address + Len(WordsAfter(runs, i0)) = runs[i0].end
      BY <3>0, <3>1, <1>6
    <3>3. Len(WordsAfter(runs, i0)) % CountRange = Len(WordsAfter(runs, i0))
      <4>1. Len(WordsAfter(runs, i0)) \in Nat
        BY <1>5, <3>0
      <4> QED
        BY <1>3, <3>2, <4>1, SMTT(30)
    <3>4. CASE EndsAt(runs, i0)
      <4>1. g[i0].address = runs[k].start /\ g[i0].words = <<>>
        BY <1>2, <3>0, <3>4
      <4>2. First(k, k)
        BY <1>1, <1>4, <3>0, <4>1
      <4> HIDE DEF First
      <4> QED
        BY <1>1, <4>2
    <3>5. CASE ~ EndsAt(runs, i0)
      <4>1. g[i0].address = g[i0 - 1].address /\ g[i0].words = WordsAfter(runs, i0)
        BY <1>2, <3>0, <3>5
      <4>2. runs[i0].end = runs[k].start /\ Len(WordsAfter(runs, i0)) <= CloseAt
        <5>1. ~ Closes(Len(WordsAfter(runs, i0)), runs[i0], runs[i0 + 1])
          BY <3>0, <3>3, <3>5 DEF EndsAt, N
        <5> QED
          BY <1>3, <1>5, <3>0, <5>1 DEF Closes
      <4>3. First(k, j)
        <5>1. j \in 1 .. k /\ g[k - 1].address = runs[j].start
          BY <3>0, <3>1, <4>1
        <5>2. g[k - 1].address + Len(g[k - 1].words) = runs[k].start
          BY <3>0, <3>2, <4>1, <4>2
        <5>3. \A l \in j .. (k - 1) : runs[l].end = runs[l + 1].start
          <6>1. ASSUME NEW l \in j .. (k - 1), l # i0 PROVE l \in j .. (i0 - 1)
            BY <3>0, <6>1
          <6> QED
            BY <3>0, <3>1, <4>2, <6>1
        <5> QED
          BY <3>0, <4>1, <4>2, <5>1, <5>2, <5>3
      <4> HIDE DEF First
      <4> QED
        BY <1>1, <4>3
    <3> QED
      BY <3>4, <3>5
  <2> QED
    BY <2>1, <2>2
<1> HIDE DEF S
<1>9. \A k \in 0 .. N : k \in S
  BY <1>1, <1>7, <1>8, Induction
<1>10. ASSUME NEW k \in 1 .. N
       PROVE  /\ g[k - 1].address + Len(g[k - 1].words) = runs[k].start
              /\ Len(WordsAfter(runs, k)) < CountRange
  <2>1. k \in 0 .. N /\ k # 0
    BY <1>1
  <2>2. k \in S
    BY <1>9, <2>1
  <2>3. PICK j \in 1 .. N : First(k, j)
    BY <2>1, <2>2 DEF S
  <2> QED
    BY <1>6, <2>3
<1> QED
  BY <1>5, <1>10 DEF g, N

\* The words of memory that a block at q gives a value, and those of a block that is
\* being written.
BlockWords(t, q)        == {<<At(t, q).hi + n, At(t, q + 1 + n).hi>> : n \in 0 .. (At(t, q).lo - 1)}
WordsAt(address, words) == {<<address + n - 1, words[n].hi>> : n \in 1 .. Len(words)}

\* A block that stands in the table is read back as its words, if its count
\* does not wrap.
LEMMA OneBlock ==
  ASSUME NEW t, NEW q \in Nat, NEW address \in Nat, NEW words \in Seq(CellSet),
         Len(words) < CountRange, Stands(Block(address, words), t, q)
  PROVE  At(t, q).lo = Len(words) /\ BlockWords(t, q) = WordsAt(address, words)
<1> DEFINE N == Len(words)
           block == Block(address, words)
<1>1. /\ N \in Nat /\ Len(block) = 1 + N /\ block[1] = Cell(address, N)
      /\ \A n \in 1 .. N : block[1 + n] = words[n]
  <2>1. Len(words) \in Nat
    OBVIOUS
  <2> QED
    BY <2>1, BlockIn, Zenon
<1>2. \A n \in 1 .. Len(block) : At(t, q + n - 1) = block[n]
  BY DEF Stands
<1>3. N < CountRange
  OBVIOUS
<1> HIDE DEF N, block
<1>8. N \in Nat /\ Len(block) = 1 + N
  BY <1>1
<1>4. At(t, q).hi = address /\ At(t, q).lo = N
  <2>1. 1 \in 1 .. Len(block) /\ q + 1 - 1 = q
    BY <1>1
  <2>2. At(t, q) = Cell(address, N)
    BY <1>1, <1>2, <2>1
  <2> QED
    BY <1>1, <1>3, <2>2, CellIn
<1>5. ASSUME NEW n \in 1 .. N PROVE At(t, q + n) = words[n]
  <2>1. 1 + n \in 1 .. Len(block) /\ q + (1 + n) - 1 = q + n
    BY <1>8
  <2> QED
    BY <1>1, <1>2, <2>1
<1>6. BlockWords(t, q) = {<<address + n, At(t, q + 1 + n).hi>> : n \in 0 .. (N - 1)}
  BY <1>4 DEF BlockWords
<1>7. {<<address + n, At(t, q + 1 + n).hi>> : n \in 0 .. (N - 1)} =
        {<<address + n - 1, words[n].hi>> : n \in 1 .. N}
  <2>1. ASSUME NEW n \in 0 .. (N - 1)
        PROVE  /\ n + 1 \in 1 .. N /\ address + n = address + (n + 1) - 1
               /\ At(t, q + 1 + n).hi = words[n + 1].hi
    <3>1. n + 1 \in 1 .. N /\ address + n = address + (n + 1) - 1 /\ q + 1 + n = q + (n + 1)
      BY <1>1
    <3> QED
      BY <1>5, <3>1
  <2>2. ASSUME NEW n \in 1 .. N
        PROVE  /\ n - 1 \in 0 .. (N - 1) /\ address + n - 1 = address + (n - 1)
               /\ words[n].hi = At(t, q + 1 + (n - 1)).hi
    <3>1. n - 1 \in 0 .. (N - 1) /\ address + n - 1 = address + (n - 1) /\ q + 1 + (n - 1) = q + n
      BY <1>1
    <3> QED
      BY <1>5, <3>1
  <2> QED
    BY <2>1, <2>2, ZenonT(60)
<1> QED
  BY <1>4, <1>6, <1>7 DEF WordsAt, N

\* The words of a block that a run is added to.
LEMMA WordsAtLonger ==
  ASSUME NEW address \in Nat, NEW words \in Seq(CellSet), NEW run \in RunSet,
         address + Len(words) = run.start
  PROVE  WordsAt(address, words \o RunWords(run)) = WordsAt(address, words) \cup Held(run)
<1> DEFINE M == Len(words)
           L == Length(run)
           more == RunWords(run)
           all == words \o more
           start == run.start
           end == run.end
           data == run.data
<1>1. /\ L \in Nat /\ start \in Nat /\ end \in Nat /\ end = start + L
      /\ more \in Seq(CellSet) /\ Len(more) = L
      /\ \A n \in 1 .. L : more[n].hi = data
  BY RunParts, RunWordsIn
<1>2. M \in Nat /\ address + M = start
  OBVIOUS
<1> HIDE DEF more, L, start, end, data
<1>3. /\ Len(all) = M + L /\ \A n \in 1 .. M : all[n] = words[n]
      /\ \A n \in 1 .. L : all[M + n] = more[n]
  BY <1>1
<1> HIDE DEF all, M
<1>4. ASSUME NEW n \in 1 .. M
      PROVE  n \in 1 .. (M + L) /\ <<address + n - 1, all[n].hi>> = <<address + n - 1, words[n].hi>>
  BY <1>1, <1>2, <1>3
<1>5. ASSUME NEW n \in 1 .. L
      PROVE  /\ M + n \in 1 .. (M + L) /\ all[M + n].hi = data
             /\ address + (M + n) - 1 = start + n - 1 /\ start + n - 1 \in start .. (end - 1)
  <2>1. M + n \in 1 .. (M + L) /\ start + n - 1 \in start .. (end - 1)
    BY <1>1, <1>2
  <2>2. address + (M + n) - 1 = start + n - 1
    BY <1>1, <1>2
  <2>3. all[M + n].hi = data
    BY <1>1, <1>3
  <2> QED
    BY <2>1, <2>2, <2>3
<1>6. ASSUME NEW n \in 1 .. (M + L)
      PROVE  <<address + n - 1, all[n].hi>> \in WordsAt(address, words) \cup Held(run)
  <2>1. CASE n \in 1 .. M
    <3>1. <<address + n - 1, words[n].hi>> \in WordsAt(address, words)
      BY <2>1 DEF WordsAt, M
    <3> QED
      BY <1>4, <2>1, <3>1
  <2>2. CASE n \notin 1 .. M
    <3>1. n - M \in 1 .. L /\ M + (n - M) = n
      BY <1>1, <1>2, <2>2
    <3>2. address + n - 1 \in start .. (end - 1) /\ all[n].hi = data
      BY <1>5, <3>1
    <3>3. <<address + n - 1, data>> \in Held(run)
      BY <3>2 DEF Held, start, end, data
    <3> QED
      BY <3>2, <3>3
  <2> QED
    BY <2>1, <2>2
<1>7. ASSUME NEW n \in 1 .. M PROVE <<address + n - 1, words[n].hi>> \in WordsAt(address, all)
  <2>1. <<address + n - 1, all[n].hi>> \in WordsAt(address, all)
    BY <1>3, <1>4 DEF WordsAt
  <2> QED
    BY <1>4, <2>1
<1>8. ASSUME NEW a \in start .. (end - 1) PROVE <<a, data>> \in WordsAt(address, all)
  <2>1. a - start + 1 \in 1 .. L /\ start + (a - start + 1) - 1 = a
    BY <1>1
  <2> DEFINE n == M + (a - start + 1)
  <2>2. n \in 1 .. (M + L) /\ all[n].hi = data /\ address + n - 1 = a
    BY <1>5, <2>1
  <2> HIDE DEF n
  <2>3. <<address + n - 1, all[n].hi>> \in WordsAt(address, all)
    BY <1>3, <2>2 DEF WordsAt
  <2> QED
    BY <2>2, <2>3
<1>9. WordsAt(address, all) \subseteq WordsAt(address, words) \cup Held(run)
  BY <1>3, <1>6, Zenon DEF WordsAt
<1>10. WordsAt(address, words) \subseteq WordsAt(address, all)
  <2>1. WordsAt(address, words) = {<<address + n - 1, words[n].hi>> : n \in 1 .. M}
    BY DEF WordsAt, M
  <2> QED
    BY <1>7, <2>1, Zenon
<1>11. Held(run) \subseteq WordsAt(address, all)
  <2>1. Held(run) = {<<a, data>> : a \in start .. (end - 1)}
    BY DEF Held, start, end, data
  <2> QED
    BY <1>8, <2>1, Zenon
<1> QED
  BY <1>9, <1>10, <1>11 DEF all, more

\* What create_string has closed stays where it is when more runs follow.
LEMMA ClosedStands ==
  ASSUME NEW t, NEW p \in Nat, NEW runs \in Seq(RunSet), runs # <<>>,
         Stands(CreateString(runs), t, p)
  PROVE  LET g == Written(runs)
             N == Len(runs)
         IN  /\ At(t, p).hi = g[N].blocks
             /\ \A k \in 0 .. N : Stands(g[k].closed, t, p + 1) /\ g[k].blocks <= g[N].blocks
             /\ \A k \in 1 .. N : EndsAt(runs, k) =>
                  Stands(Block(g[k - 1].address, WordsAfter(runs, k)), t, p + 1 + Len(g[k - 1].closed))
             /\ Stands(Block(g[N].address, g[N].words), t, p + 1 + Len(g[N].closed))
             /\ Len(CreateString(runs)) = 1 + Len(g[N].closed) + 1 + Len(g[N].words)
<1> DEFINE N == Len(runs)
           g == Written(runs)
           head == << Cell(g[N].blocks, 0) >>
           last == Block(g[N].address, g[N].words)
           P(k) == Stands(g[k].closed, t, p + 1) /\ g[k].blocks <= g[N].blocks
           S == {d \in 0 .. N : P(N - d)}
<1>1. N \in Nat \ {0} /\ N \in 0 .. N /\ 0 \in 0 .. N
  OBVIOUS
<1>2. CreateString(runs) = (head \o g[N].closed) \o last
  BY DEF CreateString
<1>3. /\ \A k \in 0 .. N : /\ g[k].blocks \in Nat /\ g[k].address \in Nat
                           /\ g[k].closed \in Seq(CellSet) /\ g[k].words \in Seq(CellSet)
      /\ \A k \in 1 .. N : EndsAt(runs, k) =>
           /\ g[k].blocks = g[k - 1].blocks + 1
           /\ g[k].closed = g[k - 1].closed \o Block(g[k - 1].address, WordsAfter(runs, k))
      /\ \A k \in 1 .. N : ~ EndsAt(runs, k) =>
           g[k].blocks = g[k - 1].blocks /\ g[k].closed = g[k - 1].closed
  BY WrittenStep
<1>4. ASSUME NEW k \in 1 .. N PROVE WordsAfter(runs, k) \in Seq(CellSet)
  <2>1. k - 1 \in 0 .. N
    OBVIOUS
  <2>2. g[k - 1].words \in Seq(CellSet)
    BY <1>3, <2>1
  <2>3. runs[k] \in RunSet
    OBVIOUS
  <2>4. RunWords(runs[k]) \in Seq(CellSet)
    BY <2>3, RunWordsIn
  <2> HIDE DEF g
  <2> QED
    BY <2>2, <2>4 DEF WordsAfter, g
<1>5. /\ head \in Seq(CellSet) /\ Len(head) = 1 /\ head[1].hi = g[N].blocks
      /\ last \in Seq(CellSet) /\ Len(last) = 1 + Len(g[N].words)
      /\ g[N].closed \in Seq(CellSet)
  <2>1. g[N].blocks \in Nat /\ g[N].address \in Nat /\ g[N].words \in Seq(CellSet)
        /\ g[N].closed \in Seq(CellSet) /\ 0 \in Nat
    BY <1>1, <1>3
  <2>2. Cell(g[N].blocks, 0) \in CellSet /\ Cell(g[N].blocks, 0).hi = g[N].blocks
    BY <2>1, CellIn
  <2> DEFINE c == Cell(g[N].blocks, 0)
  <2>3. head = <<c>> /\ c \in CellSet
    BY <2>2
  <2> HIDE DEF c
  <2>4. head \in Seq(CellSet) /\ Len(head) = 1 /\ head[1] = c
    BY <2>3
  <2>5. last \in Seq(CellSet) /\ Len(last) = 1 + Len(g[N].words)
    BY <2>1, BlockIn
  <2> QED
    BY <2>1, <2>2, <2>4, <2>5 DEF c
<1> HIDE DEF N, g, head, last
<1>6. /\ Stands(head, t, p) /\ Stands(g[N].closed, t, p + 1)
      /\ Stands(last, t, p + 1 + Len(g[N].closed))
      /\ Len(CreateString(runs)) = 1 + Len(g[N].closed) + 1 + Len(g[N].words)
  <2> DEFINE c == g[N].closed
             front == head \o c
             n == Len(g[N].words)
  <2>1. c \in Seq(CellSet) /\ n \in Nat
    <3>1. g[N].words \in Seq(CellSet)
      BY <1>1, <1>3
    <3> QED
      BY <1>5, <3>1
  <2>2. head \in Seq(CellSet) /\ last \in Seq(CellSet) /\ Len(head) = 1 /\ Len(last) = 1 + n
    BY <1>5
  <2> HIDE DEF c, n
  <2>3. front \in Seq(CellSet) /\ Len(front) = 1 + Len(c) /\ Len(c) \in Nat
    <3>1. front \in Seq(CellSet) /\ Len(front) = Len(head) + Len(c)
      BY <2>1, <2>2, ConcatProperties
    <3>2. Len(c) \in Nat
      BY <2>1, LenProperties
    <3> HIDE DEF front
    <3> QED
      BY <2>2, <3>1, <3>2
  <2>4. Stands(front \o last, t, p)
    BY <1>2 DEF c
  <2> HIDE DEF front
  <2>5. Stands(front, t, p) /\ Stands(last, t, p + Len(front))
    BY <2>2, <2>3, <2>4, StandsConcat
  <2>6. Stands(head, t, p) /\ Stands(c, t, p + 1)
    BY <2>1, <2>2, <2>5, StandsConcat DEF front
  <2>7. p + Len(front) = p + 1 + Len(c)
    BY <2>3
  <2>8. Len(front \o last) = 1 + Len(c) + 1 + n
    <3>1. Len(front \o last) = Len(front) + Len(last)
      BY <2>2, <2>3, ConcatProperties
    <3> QED
      BY <2>1, <2>2, <2>3, <3>1
  <2>9. CreateString(runs) = front \o last
    BY <1>2 DEF front, c
  <2> QED
    BY <2>5, <2>6, <2>7, <2>8, <2>9 DEF c, n
<1>7. At(t, p).hi = g[N].blocks
  <2>1. 1 \in 1 .. Len(head) /\ p + 1 - 1 = p
    BY <1>5
  <2>2. At(t, p) = head[1]
    BY <1>6, <2>1 DEF Stands
  <2> QED
    BY <1>5, <2>2
<1>8. 0 \in S
  BY <1>1, <1>3, <1>6
<1>9. ASSUME NEW k \in 1 .. N, P(k), EndsAt(runs, k)
      PROVE  /\ P(k - 1)
             /\ Stands(Block(g[k - 1].address, WordsAfter(runs, k)), t, p + 1 + Len(g[k - 1].closed))
  <2> DEFINE a == g[k - 1].closed
             b == Block(g[k - 1].address, WordsAfter(runs, k))
  <2>1. k - 1 \in 0 .. N /\ k \in 0 .. N
    BY <1>1
  <2>2. a \in Seq(CellSet) /\ b \in Seq(CellSet)
    BY <1>3, <1>4, <2>1, BlockIn
  <2>3. Stands(a \o b, t, p + 1) /\ p + 1 \in Nat
    <3>1. g[k].closed = a \o b
      BY <1>3, <1>9
    <3>2. Stands(g[k].closed, t, p + 1)
      BY <1>9
    <3> HIDE DEF a, b
    <3> QED
      BY <3>1, <3>2
  <2>4. g[k - 1].blocks <= g[N].blocks
    <3>1. g[k - 1].blocks \in Nat /\ g[k].blocks \in Nat /\ g[N].blocks \in Nat
      BY <1>1, <1>3, <2>1
    <3>2. g[k].blocks = g[k - 1].blocks + 1 /\ g[k].blocks <= g[N].blocks
      BY <1>3, <1>9
    <3> QED
      BY <3>1, <3>2
  <2> HIDE DEF a, b
  <2>5. Stands(a, t, p + 1) /\ Stands(b, t, p + 1 + Len(a))
    BY <2>2, <2>3, StandsConcat
  <2> QED
    BY <2>4, <2>5 DEF a, b
<1>10. ASSUME NEW d \in 1 .. N, d - 1 \in S PROVE d \in S
  <2> DEFINE k == N - (d - 1)
  <2>1. k \in 1 .. N /\ k - 1 = N - d /\ d \in 0 .. N
    BY <1>1
  <2>2. P(k)
    BY <1>10
  <2> HIDE DEF k
  <2>3. P(k - 1)
    <3>1. CASE EndsAt(runs, k)
      BY <1>9, <2>1, <2>2, <3>1
    <3>2. CASE ~ EndsAt(runs, k)
      BY <1>3, <2>1, <2>2, <3>2
    <3> QED
      BY <3>1, <3>2
  <2> HIDE DEF P
  <2> QED
    BY <2>1, <2>3
<1> HIDE DEF S
<1>11. \A d \in 0 .. N : d \in S
  BY <1>1, <1>8, <1>10, Induction
<1>12. ASSUME NEW k \in 0 .. N PROVE P(k)
  <2>1. N - k \in 0 .. N /\ N - (N - k) = k
    BY <1>1
  <2>2. P(N - (N - k))
    BY <1>11, <2>1 DEF S
  <2> HIDE DEF P
  <2> QED
    BY <2>1, <2>2
<1>13. ASSUME NEW k \in 1 .. N, EndsAt(runs, k)
       PROVE  Stands(Block(g[k - 1].address, WordsAfter(runs, k)), t, p + 1 + Len(g[k - 1].closed))
  <2>1. k \in 0 .. N
    BY <1>1
  <2>2. P(k)
    BY <1>12, <2>1
  <2> QED
    BY <1>9, <1>13, <2>2
<1> QED
  BY <1>6, <1>7, <1>12, <1>13 DEF N, g, last

\* The blocks of a list are read as what it was made of.
LEMMA BlocksRead ==
  ASSUME NEW t \in Seq(CellSet), NEW p \in Nat, NEW runs \in Seq(RunSet),
         Suffices(runs), Stands(CreateString(runs), t, p)
  PROVE  BehindBlocks(t, p) = p + Len(CreateString(runs)) /\ ReadBlocks(t, p) = Cover(runs)
<1> DEFINE H == At(t, p).hi
           at == BlockAt(t, p)
           Read(m) == UNION {BlockWords(t, at[k]) : k \in 0 .. (m - 1)}
<1>1. H \in Nat /\ H \in 0 .. H
  <2>1. H \in Nat
    BY CellOf
  <2> QED
    BY <2>1
<1>2. /\ at \in [0 .. H -> Nat] /\ at[0] = p + 1
      /\ \A k \in 1 .. H : at[k] = at[k - 1] + 1 + At(t, at[k - 1]).lo
  BY BlockAtUnfold
<1>3. BehindBlocks(t, p) = at[H] /\ ReadBlocks(t, p) = Read(H)
  BY DEF BehindBlocks, ReadBlocks, BlockWords
<1>4. CASE runs = <<>>
  <2>1. CreateString(runs) = << Cell(0, 0) >> /\ Len(<< Cell(0, 0) >>) = 1
        /\ << Cell(0, 0) >>[1] = Cell(0, 0)
    BY <1>4 DEF CreateString
  <2>2. 1 \in 1 .. 1 /\ p + 1 - 1 = p /\ 0 \in Nat
    OBVIOUS
  <2>3. At(t, p) = Cell(0, 0)
    BY <2>1, <2>2 DEF Stands
  <2>4. H = 0
    BY <2>2, <2>3, CellIn
  <2>5. Cover(runs) = {} /\ 0 .. (0 - 1) = {}
    BY <1>4 DEF Cover
  <2> HIDE DEF H, at
  <2>6. Read(0) = {}
    BY <2>5
  <2> QED
    BY <1>2, <1>3, <2>1, <2>4, <2>5, <2>6
<1>5. CASE runs # <<>>
  <2> DEFINE N == Len(runs)
             g == Written(runs)
             Upto(k) == UNION {Held(runs[j]) : j \in 1 .. k}
             P(k) == /\ g[k].blocks \in 1 .. H
                     /\ at[g[k].blocks - 1] = p + 1 + Len(g[k].closed)
                     /\ Read(g[k].blocks - 1) \cup WordsAt(g[k].address, g[k].words) = Upto(k)
             S == {k \in 0 .. N : P(k)}
  <2>1. /\ N \in Nat \ {0} /\ N \in 0 .. N /\ 0 \in 0 .. N /\ DOMAIN runs = 1 .. N
        /\ \A k \in 1 .. N : runs[k] \in RunSet /\ k - 1 \in 0 .. N
    BY <1>5
  <2>2. /\ \A k \in 0 .. N : /\ g[k].blocks \in Nat /\ g[k].address \in Nat
                             /\ g[k].closed \in Seq(CellSet) /\ g[k].words \in Seq(CellSet)
        /\ g[0].blocks = 1 /\ g[0].closed = <<>> /\ g[0].words = <<>>
        /\ \A k \in 1 .. N : EndsAt(runs, k) =>
             /\ g[k].blocks = g[k - 1].blocks + 1
             /\ g[k].closed = g[k - 1].closed \o Block(g[k - 1].address, WordsAfter(runs, k))
             /\ g[k].words = <<>>
        /\ \A k \in 1 .. N : ~ EndsAt(runs, k) =>
             /\ g[k].blocks = g[k - 1].blocks /\ g[k].closed = g[k - 1].closed
             /\ g[k].address = g[k - 1].address /\ g[k].words = WordsAfter(runs, k)
    BY <1>5, WrittenStep
  <2>3. \A k \in 1 .. N :
          /\ g[k - 1].address + Len(g[k - 1].words) = runs[k].start
          /\ WordsAfter(runs, k) \in Seq(CellSet)
          /\ Len(WordsAfter(runs, k)) < CountRange
    BY <1>5, WordsCounted
  <2>4. /\ H = g[N].blocks
        /\ \A k \in 0 .. N : g[k].blocks <= g[N].blocks
        /\ \A k \in 1 .. N : EndsAt(runs, k) =>
             Stands(Block(g[k - 1].address, WordsAfter(runs, k)), t, p + 1 + Len(g[k - 1].closed))
        /\ Stands(Block(g[N].address, g[N].words), t, p + 1 + Len(g[N].closed))
        /\ Len(CreateString(runs)) = 1 + Len(g[N].closed) + 1 + Len(g[N].words)
    BY <1>5, ClosedStands
  <2>5. \A k \in 1 .. N : WordsAfter(runs, k) = g[k - 1].words \o RunWords(runs[k])
    BY DEF WordsAfter
  <2>6. Cover(runs) = Upto(N)
    BY <2>1 DEF Cover
  <2>7. Len(g[N].words) < CountRange
    <3>1. N \in 1 .. N /\ ~ EndsAt(runs, N)
      BY <2>1 DEF EndsAt
    <3> HIDE DEF N, g
    <3>2. g[N].words = WordsAfter(runs, N)
      BY <2>2, <3>1
    <3> QED
      BY <2>3, <3>1, <3>2
  <2> HIDE DEF N, g, H, at
  <2>8. ASSUME NEW m \in 1 .. H PROVE Read(m) = Read(m - 1) \cup BlockWords(t, at[m - 1])
    <3>1. 0 .. (m - 1) = (0 .. (m - 1 - 1)) \cup {m - 1}
      BY <1>1
    <3> QED
      BY <3>1, Zenon
  <2>9. ASSUME NEW address \in Nat, NEW words \in Seq(CellSet), NEW c \in Seq(CellSet),
               NEW m \in 1 .. H, at[m - 1] = p + 1 + Len(c), Len(words) < CountRange,
               Stands(Block(address, words), t, p + 1 + Len(c))
        PROVE  /\ at[m] = p + 1 + Len(c) + 1 + Len(words)
               /\ Read(m) = Read(m - 1) \cup WordsAt(address, words)
    <3>1. Len(c) \in Nat /\ p + 1 + Len(c) \in Nat
      BY LenProperties
    <3>2. At(t, p + 1 + Len(c)).lo = Len(words)
          /\ BlockWords(t, p + 1 + Len(c)) = WordsAt(address, words)
      BY <2>9, <3>1, OneBlock
    <3>3. at[m] = at[m - 1] + 1 + At(t, at[m - 1]).lo
      BY <1>2
    <3> HIDE DEF Read
    <3> QED
      BY <2>8, <2>9, <3>2, <3>3
  <2>10. 0 \in S
    <3>1. 1 \in 1 .. H /\ 1 - 1 = 0
      <4>1. g[0].blocks <= g[N].blocks
        BY <2>1, <2>4
      <4> QED
        BY <1>1, <2>2, <2>4, <4>1
    <3>2. Read(0) = {} /\ Upto(0) = {}
      OBVIOUS
    <3>3. WordsAt(g[0].address, <<>>) = {}
      BY DEF WordsAt
    <3>4. at[0] = p + 1 + Len(<<>>)
      BY <1>2
    <3> HIDE DEF Read, Upto
    <3>5. P(0)
      BY <2>2, <3>1, <3>2, <3>3, <3>4
    <3> QED
      BY <2>1, <3>5
  <2>11. ASSUME NEW k \in 1 .. N, k - 1 \in S PROVE k \in S
    <3> DEFINE address == g[k - 1].address
               words == WordsAfter(runs, k)
               c == g[k - 1].closed
               m == g[k - 1].blocks
    <3>1. P(k - 1) /\ k - 1 \in 0 .. N /\ k \in 0 .. N
      <4> HIDE DEF P
      <4>1. P(k - 1)
        BY <2>11
      <4> QED
        BY <2>1, <4>1
    <3>2. Upto(k) = Upto(k - 1) \cup Held(runs[k])
      <4>1. 1 .. k = (1 .. (k - 1)) \cup {k}
        BY <2>1
      <4> QED
        BY <4>1
    <3>3. /\ address \in Nat /\ words \in Seq(CellSet) /\ c \in Seq(CellSet) /\ m \in 1 .. H
          /\ at[m - 1] = p + 1 + Len(c) /\ Len(words) < CountRange
      <4> HIDE DEF Read, Upto
      <4> QED
        BY <2>2, <2>3, <3>1
    <3>4. Read(m - 1) \cup WordsAt(address, words) = Upto(k)
      <4> DEFINE before == g[k - 1].words
                 run == runs[k]
      <4>1. before \in Seq(CellSet) /\ run \in RunSet /\ words = before \o RunWords(run)
            /\ address + Len(before) = run.start /\ address \in Nat
        BY <2>1, <2>2, <2>3, <2>5, <3>1
      <4>2. Read(m - 1) \cup WordsAt(address, before) = Upto(k - 1)
        BY <3>1
      <4> HIDE DEF before, run, words, address, m, Read, Upto
      <4>3. WordsAt(address, words) = WordsAt(address, before) \cup Held(run)
        BY <4>1, WordsAtLonger
      <4> QED
        BY <3>2, <4>2, <4>3 DEF run
    <3>5. CASE EndsAt(runs, k)
      <4>1. Stands(Block(address, words), t, p + 1 + Len(c))
        BY <2>4, <3>5
      <4>2. g[k].blocks = m + 1 /\ g[k].closed = c \o Block(address, words) /\ g[k].words = <<>>
        BY <2>2, <3>5
      <4>3. m + 1 \in 1 .. H
        <5>1. g[k].blocks <= H
          BY <2>4, <3>1
        <5> QED
          BY <1>1, <3>3, <4>2, <5>1, SMTT(30)
      <4> HIDE DEF address, words, c, m
      <4>4. at[m] = p + 1 + Len(c) + 1 + Len(words) /\ Read(m) = Read(m - 1) \cup WordsAt(address, words)
        <5> HIDE DEF Read
        <5> QED
          BY <2>9, <3>3, <4>1
      <4>5. p + 1 + Len(c) + 1 + Len(words) = p + 1 + Len(c \o Block(address, words))
        <5> DEFINE b == Block(address, words)
        <5>1. b \in Seq(CellSet) /\ Len(b) = 1 + Len(words)
          BY <3>3, BlockIn
        <5> HIDE DEF b
        <5>2. Len(c \o b) = Len(c) + Len(b)
          BY <3>3, <5>1, ConcatProperties
        <5>3. Len(c) \in Nat /\ Len(words) \in Nat
          BY <3>3, LenProperties
        <5>4. p + 1 + Len(c) + 1 + Len(words) = p + 1 + Len(c \o b)
          BY <5>1, <5>2, <5>3
        <5> QED
          BY <5>4 DEF b
      <4>6. WordsAt(g[k].address, <<>>) = {}
        BY DEF WordsAt
      <4>7. g[k].blocks - 1 = m
        BY <1>1, <3>3, <4>2
      <4> HIDE DEF Read, Upto
      <4>8. P(k)
        BY <3>4, <4>2, <4>3, <4>4, <4>5, <4>6, <4>7
      <4> QED
        BY <3>1, <4>8
    <3>6. CASE ~ EndsAt(runs, k)
      <4>1. g[k].blocks = m /\ g[k].closed = c /\ g[k].address = address /\ g[k].words = words
        BY <2>2, <3>6
      <4> HIDE DEF address, words, c, m, Read, Upto
      <4>2. P(k)
        BY <3>3, <3>4, <4>1
      <4> QED
        BY <3>1, <4>2
    <3> QED
      BY <3>5, <3>6
  <2> HIDE DEF S
  <2>12. \A k \in 0 .. N : k \in S
    BY <2>1, <2>10, <2>11, Induction
  <2>13. P(N)
    BY <2>1, <2>12 DEF S
  <2>14. /\ at[H] = p + 1 + Len(g[N].closed) + 1 + Len(g[N].words)
         /\ Read(H) = Read(H - 1) \cup WordsAt(g[N].address, g[N].words)
    <3>1. g[N].address \in Nat /\ g[N].words \in Seq(CellSet) /\ g[N].closed \in Seq(CellSet)
      BY <2>1, <2>2
    <3>2. H \in 1 .. H /\ at[H - 1] = p + 1 + Len(g[N].closed)
      BY <2>4, <2>13
    <3>3. Stands(Block(g[N].address, g[N].words), t, p + 1 + Len(g[N].closed))
      BY <2>4
    <3> DEFINE address == g[N].address
               words == g[N].words
               c == g[N].closed
    <3>4. /\ address \in Nat /\ words \in Seq(CellSet) /\ c \in Seq(CellSet)
          /\ at[H - 1] = p + 1 + Len(c) /\ Len(words) < CountRange
          /\ Stands(Block(address, words), t, p + 1 + Len(c))
      BY <2>7, <3>1, <3>2, <3>3
    <3> HIDE DEF Read, address, words, c
    <3>5. /\ at[H] = p + 1 + Len(c) + 1 + Len(words)
          /\ Read(H) = Read(H - 1) \cup WordsAt(address, words)
      BY <2>9, <3>2, <3>4
    <3> QED
      BY <3>5 DEF address, words, c
  <2>15. Read(H) = Cover(runs)
    <3>1. Read(H - 1) \cup WordsAt(g[N].address, g[N].words) = Upto(N)
      BY <2>4, <2>13
    <3> HIDE DEF Read, Upto
    <3> QED
      BY <2>6, <2>14, <3>1
  <2>16. at[H] = p + Len(CreateString(runs))
    <3>1. Len(g[N].closed) \in Nat /\ Len(g[N].words) \in Nat
      BY <2>1, <2>2, LenProperties
    <3> DEFINE a == Len(g[N].closed)
               b == Len(g[N].words)
               size == Len(CreateString(runs))
    <3>2. a \in Nat /\ b \in Nat /\ size = 1 + a + 1 + b /\ at[H] = p + 1 + a + 1 + b
      BY <2>4, <2>14, <3>1
    <3> HIDE DEF a, b, size
    <3>3. at[H] = p + size
      BY <3>2
    <3> QED
      BY <3>3 DEF size
  <2> QED
    BY <1>3, <2>15, <2>16
<1> QED
  BY <1>4, <1>5

\* The start-up code gets from the whole table what is on the four lists.
LEMMA TableRead ==
  ASSUME NEW zd \in Seq(ZeroSet), NEW zp \in Seq(ZeroSet), NEW kd \in Seq(RunSet), NEW kp \in Seq(RunSet),
         Suffices(kd), Suffices(kp)
  PROVE  Loaded(ZeroTable(zd) \o ZeroTable(zp) \o CreateString(kd) \o CreateString(kp)) =
           [dm |-> Cover(zd) \cup Cover(kd), pm |-> Cover(zp) \cup Cover(kp)]
<1> DEFINE a == ZeroTable(zd)
           b == ZeroTable(zp)
           c == CreateString(kd)
           d == CreateString(kp)
           t == a \o b \o c \o d
<1>1. a \in Seq(CellSet) /\ b \in Seq(CellSet) /\ c \in Seq(CellSet) /\ d \in Seq(CellSet)
  BY ZeroTableIn, StringIn
<1>2. t = ((a \o b) \o c) \o d
  OBVIOUS
<1> HIDE DEF a, b, c, d, t
<1> DEFINE ab == a \o b
           abc == ab \o c
<1>3. ab \in Seq(CellSet) /\ Len(ab) = Len(a) + Len(b)
  BY <1>1, ConcatProperties
<1>4. t = abc \o d
  BY <1>2
<1>5. abc \in Seq(CellSet) /\ Len(abc) = Len(ab) + Len(c)
  <2> HIDE DEF ab
  <2> QED
    BY <1>1, <1>3, ConcatProperties
<1>6. t \in Seq(CellSet)
  <2> HIDE DEF ab, abc
  <2> QED
    BY <1>1, <1>4, <1>5, ConcatProperties
<1>7. Stands(t, t, 1)
  <2>1. ASSUME NEW n \in 1 .. Len(t) PROVE At(t, 1 + n - 1) = t[n]
    <3>1. 1 + n - 1 = n /\ n \in DOMAIN t
      BY <1>6
    <3> QED
      BY <3>1 DEF At
  <2> QED
    BY <2>1 DEF Stands
<1>8. /\ Len(a) \in Nat /\ Len(b) \in Nat /\ Len(c) \in Nat
      /\ 1 \in Nat /\ 1 + Len(a) \in Nat /\ 1 + Len(ab) \in Nat /\ 1 + Len(abc) \in Nat
      /\ 1 + Len(ab) = 1 + Len(a) + Len(b) /\ 1 + Len(abc) = 1 + Len(ab) + Len(c)
  <2>1. Len(a) \in Nat /\ Len(b) \in Nat /\ Len(c) \in Nat
    BY <1>1, LenProperties
  <2> HIDE DEF ab, abc
  <2> QED
    BY <1>3, <1>5, <2>1
<1>9. Stands(abc, t, 1) /\ Stands(d, t, 1 + Len(abc))
  <2> HIDE DEF abc
  <2> QED
    BY <1>1, <1>4, <1>5, <1>7, <1>8, StandsConcat
<1>10. Stands(ab, t, 1) /\ Stands(c, t, 1 + Len(ab))
  <2> HIDE DEF ab
  <2> QED
    BY <1>1, <1>3, <1>8, <1>9, StandsConcat
<1>11. Stands(a, t, 1) /\ Stands(b, t, 1 + Len(a))
  BY <1>1, <1>8, <1>10, StandsConcat
<1> HIDE DEF ab, abc
<1>12. BehindZeros(t, 1) = 1 + Len(a) /\ ReadZeros(t, 1) = Cover(zd)
  BY <1>8, <1>11, ZerosRead DEF a
<1>13. BehindZeros(t, 1 + Len(a)) = 1 + Len(ab) /\ ReadZeros(t, 1 + Len(a)) = Cover(zp)
  <2> DEFINE p == 1 + Len(a)
  <2>1. p \in Nat /\ Stands(b, t, p) /\ p + Len(b) = 1 + Len(ab)
    BY <1>8, <1>11
  <2> HIDE DEF p
  <2>2. BehindZeros(t, p) = p + Len(b) /\ ReadZeros(t, p) = Cover(zp)
    BY <2>1, ZerosRead DEF b
  <2> QED
    BY <2>1, <2>2 DEF p
<1>14. BehindBlocks(t, 1 + Len(ab)) = 1 + Len(abc) /\ ReadBlocks(t, 1 + Len(ab)) = Cover(kd)
  <2> DEFINE p == 1 + Len(ab)
  <2>1. p \in Nat /\ Stands(c, t, p) /\ p + Len(c) = 1 + Len(abc)
    BY <1>8, <1>10
  <2> HIDE DEF p
  <2>2. BehindBlocks(t, p) = p + Len(c) /\ ReadBlocks(t, p) = Cover(kd)
    BY <1>6, <2>1, BlocksRead DEF c
  <2> QED
    BY <2>1, <2>2 DEF p
<1>15. ReadBlocks(t, 1 + Len(abc)) = Cover(kp)
  BY <1>6, <1>8, <1>9, BlocksRead DEF d
<1>16. Loaded(t) = [dm |-> ReadZeros(t, 1) \cup ReadBlocks(t, 1 + Len(ab)),
                    pm |-> ReadZeros(t, 1 + Len(a)) \cup ReadBlocks(t, 1 + Len(abc))]
  BY <1>12, <1>13, <1>14 DEF Loaded
<1> QED
  BY <1>12, <1>13, <1>14, <1>15, <1>16 DEF t, a, b, c, d

-----------------------------------------------------------------------------
(* Where everything is in the new file.                                    *)

\* A section in front of seg_init stays in the file and has data there: the header
\* of run time, where the linker puts it.
HeaderFirst ==
  \A e \in Inputs : \E s, t \in DOMAIN e.sect :
    /\ s < t /\ e.sect[t].kind = "init"
    /\ e.sect[s].kind = "kept" /\ e.sect[s].words # <<>>

\* What the sections have in the new file: those of RAM nothing, seg_init the table
\* besides.
StaySizes  == [s \in Sect |-> IF sect[s].kind = "ram" THEN 0 ELSE OldSize(s)]
FinalSizes == [s \in Sect |-> StaySizes[s] + IF IsInit(s) THEN PM * Len(table) ELSE 0]

\* What is in front of a section in the old file and in the new one, and what is
\* left of the former.
Before(s)      == Sums(OldSizes)[s - 1]
StayBefore(s)  == Sums(StaySizes)[s - 1]
FinalBefore(s) == Sums(FinalSizes)[s - 1]

Behind       == Len(sect) + 1
FinalData(s) == HeadersSize + FinalBefore(s)

StayScnptr(s)  == IF StaySizes[s] = 0 THEN 0 ELSE OldData(s)
FinalScnptr(s) == IF FinalSizes[s] = 0 THEN 0 ELSE FinalData(s)
FinalDelta     == FinalBefore(Behind) - Before(Behind)
FinalLnnoptr(s) == IF Lines[s] = 0 THEN 0 ELSE OldLnnoptr(s) + FinalDelta

\* The parts of the new file.
DataRecord(s) == [at |-> FinalData(s), len |-> OldSize(s), from |-> OldData(s)]
TableRecord   == [at |-> FinalData(InitSection) + OldSize(InitSection),
                  len |-> PM * Len(table), from |-> Computed]
LinesRecord   == [at |-> FinalData(Behind), len |-> Total(Lines), from |-> OldLines]
SymbolsRecord == [at |-> FinalData(Behind) + Total(Lines),
                  len |-> SYMESZ * Len(exe.syms), from |-> OldLines + Total(Lines)]

\* While the sections are looked through.
ScanInv ==
  /\ i \in 1 .. Behind /\ table = <<>>
  /\ delta_symptr = StayBefore(i) - Before(i)
  /\ delta_section_ptr = 0 /\ next_section_ptr = 0 /\ init_section_pointer = 0
  /\ f_symptr = OldSymptr
  /\ \A s \in Sect :
       /\ s_size[s]   = IF s < i THEN StaySizes[s] ELSE OldSize(s)
       /\ s_scnptr[s] = IF s < i THEN StayScnptr(s) ELSE OldScnptr(s)
       /\ delta[s]    = IF s < i THEN StaySizes[s] - OldSize(s) ELSE 0
       /\ s_lnnoptr[s] = OldLnnoptr(s)

\* While the headers are written: those in front are as they are to be.
HeadersInv ==
  /\ i \in 1 .. Behind
  /\ delta_symptr = FinalDelta /\ f_symptr = OldSymptr + FinalDelta
  /\ delta_section_ptr = FinalBefore(i) - Before(i)
  /\ next_section_ptr = IF \A s \in Sect : s < i => FinalSizes[s] = 0 THEN 0 ELSE FinalData(i)
  /\ InitSection < i => init_section_pointer = FinalData(InitSection)
  /\ \A s \in Sect :
       IF s < i
       THEN /\ s_size[s] = FinalSizes[s] /\ s_scnptr[s] = FinalScnptr(s)
            /\ s_lnnoptr[s] = FinalLnnoptr(s)
       ELSE /\ s_size[s] = StaySizes[s] /\ s_scnptr[s] = StayScnptr(s)
            /\ delta[s] = StaySizes[s] - OldSize(s)
            /\ s_lnnoptr[s] = OldLnnoptr(s)

\* When they are written.
HeadersSound ==
  /\ delta_symptr = FinalDelta /\ f_symptr = OldSymptr + FinalDelta
  /\ init_section_pointer = FinalData(InitSection)
  /\ \A s \in Sect :
       /\ s_size[s] = FinalSizes[s] /\ s_scnptr[s] = FinalScnptr(s)
       /\ s_lnnoptr[s] = FinalLnnoptr(s)

\* In q the data of the sections in front of n are written, and the parts of `rest'.
PartSet == [at : Nat, len : Nat, from : Nat]
Parts(q, n, rest) ==
  /\ q \in Seq(PartSet)
  /\ \A k \in DOMAIN q :
       \/ \E s \in Sect : s < n /\ StaySizes[s] # 0 /\ q[k] = DataRecord(s)
       \/ InitSection < n /\ q[k] = TableRecord
       \/ q[k] \in rest
  /\ \A s \in Sect : s < n /\ StaySizes[s] # 0 =>
       \E k \in DOMAIN q :
         /\ q[k] = DataRecord(s)
         /\ s = InitSection => k + 1 \in DOMAIN q /\ q[k + 1] = TableRecord
  /\ \A k, l \in DOMAIN q : q[k].from = Computed /\ q[l].from = Computed => k = l

DataInv ==
  /\ i \in 1 .. Behind /\ HeadersSound
  /\ Parts(out, i, {}) /\ Position = FinalData(i)

\* The entries whose pointer to line entries is moved.
MovedUpto(n) == {k \in DOMAIN exe.syms : k <= n /\ k > 1 /\ exe.syms[k - 1].fcn /\ exe.syms[k - 1].numaux = 1}

SymbolsInv ==
  /\ i \in 1 .. (Len(exe.syms) + 1) /\ HeadersSound
  /\ Parts(out, Behind, {LinesRecord})
  /\ out # <<>> /\ out[Len(out)] = LinesRecord
  /\ aux = (i > 1 /\ exe.syms[i - 1].numaux = 1)
  /\ adjust = (i > 1 /\ exe.syms[i - 1].fcn)
  /\ moved = MovedUpto(i - 1)

\* When make_standalone has returned.
Whole ==
  /\ HeadersSound /\ Parts(out, Behind, {LinesRecord, SymbolsRecord})
  /\ Len(out) > 1 /\ out[Len(out) - 1] = LinesRecord /\ out[Len(out)] = SymbolsRecord
  /\ moved = MovedUpto(Len(exe.syms))
  /\ inits = [at |-> FinalData(InitSection) + (exe.inits - sect[InitSection].addr) * PM,
              value |-> OldSize(InitSection) \div PM + sect[InitSection].addr]

PointerInv ==
  /\ pc = "scan" => ScanInv
  /\ pc \in {"scan", "headers"} => out = <<>>
  /\ pc \in {"scan", "headers", "data"} => aux = FALSE /\ adjust = FALSE /\ moved = {}
  /\ pc \in {"scan", "headers", "data", "symbols"} => inits.at = 0
  /\ pc = "headers" => HeadersInv
  /\ pc = "data" => DataInv
  /\ pc = "symbols" => SymbolsInv
  /\ Returned => Whole

-----------------------------------------------------------------------------
(* Executables.                                                            *)

\* The parts of an executable.
LEMMA ExecutableParts ==
  ASSUME exe \in Inputs
  PROVE  /\ Len(sect) \in Nat /\ Sect = 1 .. Len(sect)
         /\ \A s \in Sect : /\ sect[s].kind \in {"kept", "ram", "init"}
                            /\ sect[s].addr \in Nat /\ sect[s].lines \in Nat
                            /\ sect[s].words \in Seq(Nat)
         /\ InitSection \in Sect /\ \A s \in Sect : IsInit(s) <=> s = InitSection
         /\ sect[InitSection].words # <<>>
<1> DEFINE Header == [kind : {"kept", "ram", "init"}, pm : BOOLEAN, narrow : BOOLEAN,
                      addr : Nat, words : Seq(Nat), lines : Nat]
<1>1. /\ sect \in Seq(Header)
      /\ \E s \in DOMAIN sect : sect[s].kind = "init"
      /\ \A s, t \in DOMAIN sect :
           sect[s].kind = "init" => sect[s].words # <<>> /\ (sect[t].kind = "init" => s = t)
  BY ExecutableAssumption DEF sect
<1>2. DOMAIN sect = Sect /\ Len(sect) \in Nat
  <2> HIDE DEF Header
  <2> QED
    BY <1>1 DEF Sect
<1>3. \A s \in Sect : sect[s] \in Header
  <2> HIDE DEF Header
  <2> QED
    BY <1>1 DEF Sect
<1>4. PICK s \in Sect : IsInit(s)
  BY <1>1, <1>2 DEF IsInit
<1>5. InitSection \in Sect /\ IsInit(InitSection)
  BY <1>4 DEF InitSection
<1>6. \A t \in Sect : IsInit(t) <=> t = InitSection
  BY <1>1, <1>2, <1>5 DEF IsInit
<1>7. sect[InitSection].words # <<>>
  BY <1>1, <1>2, <1>5 DEF IsInit
<1> QED
  BY <1>2, <1>3, <1>5, <1>6, <1>7 DEF Sect

\* Their sizes, and what lies in front.
LEMMA SizesParts ==
  ASSUME exe \in Inputs
  PROVE  /\ \A s \in Sect : OldSize(s) \in Nat /\ OldSizes[s] = OldSize(s)
         /\ \A s \in Sect : OldSize(s) = 0 <=> sect[s].words = <<>>
         /\ OldSizes \in Seq(Nat) /\ Len(OldSizes) = Len(sect)
         /\ StaySizes \in Seq(Nat) /\ Len(StaySizes) = Len(sect)
         /\ \A s \in Sect : StaySizes[s] = IF sect[s].kind = "ram" THEN 0 ELSE OldSize(s)
         /\ Lines \in Seq(Nat) /\ Len(Lines) = Len(sect)
         /\ HeadersSize \in Nat \ {0}
<1> DEFINE n == Len(sect)
<1>1. /\ n \in Nat /\ Sect = 1 .. n
      /\ \A s \in Sect : sect[s].lines \in Nat /\ sect[s].words \in Seq(Nat)
  BY ExecutableParts
<1>2. FILHSZ \in Nat \ {0} /\ SCNHSZ \in Nat /\ LINESZ \in Nat /\ PM \in Nat \ {0} /\ DM \in Nat \ {0}
  BY ExecutableAssumption, InitListAssumption
<1> HIDE DEF n
<1>3. ASSUME NEW s \in Sect PROVE OldSize(s) \in Nat /\ (OldSize(s) = 0 <=> sect[s].words = <<>>)
  <2> DEFINE l == Len(sect[s].words)
             w == WordSize(s)
  <2>1. l \in Nat /\ (l = 0 <=> sect[s].words = <<>>)
    BY <1>1
  <2>2. w \in Nat \ {0}
    BY <1>2 DEF WordSize
  <2> HIDE DEF l, w
  <2>3. l * w \in Nat /\ (l * w = 0 <=> l = 0)
    BY <2>1, <2>2
  <2> QED
    BY <2>1, <2>3 DEF OldSize, l, w
<1>4. ASSUME NEW s \in Sect PROVE sect[s].lines * LINESZ \in Nat
  BY <1>1, <1>2
<1>5. OldSizes \in Seq(Nat) /\ Len(OldSizes) = n /\ \A s \in Sect : OldSizes[s] = OldSize(s)
  BY <1>1, <1>3 DEF OldSizes
<1>6. /\ StaySizes \in Seq(Nat) /\ Len(StaySizes) = n
      /\ \A s \in Sect : StaySizes[s] = IF sect[s].kind = "ram" THEN 0 ELSE OldSize(s)
  BY <1>1, <1>3 DEF StaySizes
<1>7. Lines \in Seq(Nat) /\ Len(Lines) = n
  BY <1>1, <1>4 DEF Lines
<1>8. HeadersSize \in Nat \ {0}
  <2>1. SCNHSZ * n \in Nat
    BY <1>1, <1>2
  <2> QED
    BY <1>2, <2>1 DEF HeadersSize, n
<1> QED
  BY <1>3, <1>5, <1>6, <1>7, <1>8 DEF n

\* One size that is larger makes the sums behind it larger.
LEMMA SumsChanged ==
  ASSUME NEW p \in Seq(Nat), NEW q \in Seq(Nat), Len(p) = Len(q),
         NEW t \in 1 .. Len(p), NEW d \in Nat,
         \A k \in 1 .. Len(p) : q[k] = p[k] + IF k = t THEN d ELSE 0
  PROVE  \A k \in 0 .. Len(p) : Sums(q)[k] = Sums(p)[k] + IF t <= k THEN d ELSE 0
<1> DEFINE n == Len(p)
           f == Sums(p)
           g == Sums(q)
           S == {k \in 0 .. n : g[k] = f[k] + IF t <= k THEN d ELSE 0}
<1>1. n \in Nat /\ t \in 1 .. n /\ \A k \in 1 .. n : p[k] \in Nat /\ q[k] = p[k] + IF k = t THEN d ELSE 0
  BY SMTT(30)
<1>2. f \in [0 .. n -> Nat] /\ f[0] = 0 /\ \A k \in 1 .. n : f[k] = f[k - 1] + p[k]
  BY SumsStep
<1>3. g \in [0 .. n -> Nat] /\ g[0] = 0 /\ \A k \in 1 .. n : g[k] = g[k - 1] + q[k]
  BY SumsStep
<1> HIDE DEF n, f, g
<1>4. 0 \in S
  BY <1>1, <1>2, <1>3
<1>5. ASSUME NEW k \in 1 .. n, k - 1 \in S PROVE k \in S
  <2>1. f[k] = f[k - 1] + p[k] /\ g[k] = g[k - 1] + q[k] /\ f[k - 1] \in Nat /\ p[k] \in Nat
    <3>1. k - 1 \in 0 .. n
      BY <1>1
    <3> QED
      BY <1>1, <1>2, <1>3, <3>1
  <2>2. g[k - 1] = f[k - 1] + IF t <= k - 1 THEN d ELSE 0
    BY <1>5
  <2>3. q[k] = p[k] + IF k = t THEN d ELSE 0
    BY <1>1
  <2>4. g[k] = f[k] + IF t <= k THEN d ELSE 0
    <3> DEFINE a == f[k - 1]
               b == p[k]
    <3>1. a \in Nat /\ b \in Nat /\ f[k] = a + b
      BY <2>1
    <3>2. CASE k = t
      <4>1. g[k - 1] = a + 0 /\ q[k] = b + d
        BY <1>1, <2>2, <2>3, <3>2
      <4>2. g[k] = (a + 0) + (b + d)
        BY <2>1, <4>1
      <4> HIDE DEF a, b
      <4> QED
        BY <1>1, <3>1, <3>2, <4>2
    <3>3. CASE k # t
      <4>1. g[k - 1] = a + (IF t <= k THEN d ELSE 0) /\ q[k] = b + 0
        BY <1>1, <2>2, <2>3, <3>3
      <4>2. g[k] = (a + IF t <= k THEN d ELSE 0) + (b + 0)
        BY <2>1, <4>1
      <4> HIDE DEF a, b
      <4> QED
        BY <1>1, <3>1, <3>3, <4>2
    <3> QED
      BY <3>2, <3>3
  <2> QED
    BY <1>1, <2>4
<1> HIDE DEF S
<1>6. \A k \in 0 .. n : k \in S
  BY <1>1, <1>4, <1>5, Induction
<1> QED
  BY <1>6 DEF S, n, f, g

\* What is in front of a section is the sum of the sizes in front.
LEMMA BeforeParts ==
  ASSUME exe \in Inputs
  PROVE  /\ Before(1) = 0 /\ StayBefore(1) = 0
         /\ \A s \in 1 .. Behind : /\ Before(s) \in Nat /\ StayBefore(s) \in Nat
                                   /\ OldData(s) = HeadersSize + Before(s)
         /\ \A s \in Sect : /\ Before(s + 1) = Before(s) + OldSize(s)
                            /\ StayBefore(s + 1) = StayBefore(s) + StaySizes[s]
         /\ \A s \in Sect : \A t \in Sect : s < t => Before(s) + OldSize(s) <= Before(t)
         /\ \A s \in Sect : Before(s) + OldSize(s) <= Before(Behind)
         /\ OldLines = HeadersSize + Before(Behind)
<1> DEFINE n == Len(sect)
           f == Sums(OldSizes)
           g == Sums(StaySizes)
<1>1. n \in Nat /\ Sect = 1 .. n /\ Behind = n + 1
  BY ExecutableParts DEF Behind
<1>2. OldSizes \in Seq(Nat) /\ Len(OldSizes) = n /\ StaySizes \in Seq(Nat) /\ Len(StaySizes) = n
  BY SizesParts
<1>3. \A s \in Sect : OldSizes[s] = OldSize(s)
  BY SizesParts
<1>4. f \in [0 .. n -> Nat] /\ f[0] = 0 /\ \A k \in 1 .. n : f[k] = f[k - 1] + OldSizes[k]
  BY <1>2, SumsStep
<1>5. g \in [0 .. n -> Nat] /\ g[0] = 0 /\ \A k \in 1 .. n : g[k] = g[k - 1] + StaySizes[k]
  BY <1>2, SumsStep
<1>6. \A a, b \in 0 .. n : a <= b => f[a] <= f[b]
  BY <1>2, SumsMonotone
<1>7. /\ \A s \in 1 .. Behind : Before(s) = f[s - 1] /\ StayBefore(s) = g[s - 1]
      /\ \A s : OldData(s) = HeadersSize + f[s - 1]
      /\ OldLines = HeadersSize + f[n]
  BY <1>2 DEF Before, StayBefore, OldData, OldLines, Total
<1> HIDE DEF n, f, g
<1>8. \A s \in 1 .. Behind : f[s - 1] \in Nat /\ g[s - 1] \in Nat
  BY <1>1, <1>4, <1>5
<1>9. ASSUME NEW s \in Sect
      PROVE  /\ Before(s + 1) = Before(s) + OldSize(s)
             /\ StayBefore(s + 1) = StayBefore(s) + StaySizes[s]
             /\ Before(s + 1) = f[s]
  <2>1. s \in 1 .. n /\ s \in 1 .. Behind /\ s + 1 \in 1 .. Behind /\ (s + 1) - 1 = s
    BY <1>1
  <2> QED
    BY <1>3, <1>4, <1>5, <1>7, <2>1
<1>10. ASSUME NEW s \in Sect, NEW t \in Sect, s < t PROVE f[s] <= f[t - 1]
  <2>1. s \in 0 .. n /\ t - 1 \in 0 .. n /\ s <= t - 1
    BY <1>1, <1>10
  <2> QED
    BY <1>6, <2>1
<1>11. ASSUME NEW s \in Sect PROVE f[s] <= f[n]
  <2>1. s \in 0 .. n /\ n \in 0 .. n /\ s <= n
    BY <1>1
  <2> QED
    BY <1>6, <2>1
<1>12. /\ \A s \in Sect : s \in 1 .. Behind
       /\ 1 \in 1 .. Behind /\ 1 - 1 = 0 /\ Behind \in 1 .. Behind /\ Behind - 1 = n
  BY <1>1
<1>13. Before(1) = 0 /\ StayBefore(1) = 0 /\ Before(Behind) = f[n]
  BY <1>4, <1>5, <1>7, <1>12
<1>14. \A s \in Sect : Before(s) = f[s - 1] /\ Before(s) + OldSize(s) = f[s]
  BY <1>7, <1>9, <1>12
<1>15. \A s \in Sect, t \in Sect : s < t => Before(s) + OldSize(s) <= Before(t)
  BY <1>10, <1>14
<1>16. \A s \in Sect : Before(s) + OldSize(s) <= Before(Behind)
  BY <1>11, <1>13, <1>14
<1> QED
  BY <1>7, <1>8, <1>9, <1>13, <1>15, <1>16

\* The data of the new file: seg_init has the table, those behind it move.
LEMMA FinalParts ==
  ASSUME exe \in Inputs, table \in Seq(CellSet)
  PROVE  /\ PM * Len(table) \in Nat
         /\ \A s \in Sect : /\ FinalSizes[s] \in Nat
                            /\ FinalSizes[s] = StaySizes[s] + IF s = InitSection THEN PM * Len(table) ELSE 0
         /\ FinalBefore(1) = 0
         /\ \A s \in 1 .. Behind :
              /\ FinalBefore(s) \in Nat
              /\ FinalBefore(s) = StayBefore(s) + IF InitSection < s THEN PM * Len(table) ELSE 0
         /\ \A s \in Sect : FinalBefore(s + 1) = FinalBefore(s) + FinalSizes[s]
<1> DEFINE n == Len(sect)
           d == PM * Len(table)
           g == Sums(StaySizes)
           h == Sums(FinalSizes)
<1>1. /\ n \in Nat /\ Sect = 1 .. n /\ Behind = n + 1 /\ InitSection \in 1 .. n
      /\ \A s \in Sect : IsInit(s) <=> s = InitSection
  BY ExecutableParts DEF Behind
<1>2. StaySizes \in Seq(Nat) /\ Len(StaySizes) = n
  BY SizesParts
<1>3. d \in Nat
  <2>1. Len(table) \in Nat /\ PM \in Nat
    BY InitListAssumption
  <2> HIDE DEF d
  <2> QED
    BY <2>1 DEF d
<1> HIDE DEF n, d
<1>4. /\ FinalSizes \in Seq(Nat) /\ Len(FinalSizes) = n
      /\ \A s \in Sect : FinalSizes[s] = StaySizes[s] + IF s = InitSection THEN d ELSE 0
  <2>1. FinalSizes = [s \in 1 .. n |-> StaySizes[s] + IF s = InitSection THEN d ELSE 0]
    BY <1>1 DEF FinalSizes, d
  <2>2. \A s \in 1 .. n : StaySizes[s] \in Nat
    BY <1>2
  <2>3. FinalSizes \in [1 .. n -> Nat]
    BY <1>3, <2>1, <2>2
  <2> QED
    BY <1>1, <2>1, <2>3
<1>5. h \in [0 .. n -> Nat] /\ h[0] = 0 /\ \A k \in 1 .. n : h[k] = h[k - 1] + FinalSizes[k]
  BY <1>4, SumsStep
<1>6. \A k \in 0 .. n : h[k] = g[k] + IF InitSection <= k THEN d ELSE 0
  <2>1. \A k \in 1 .. n : FinalSizes[k] = StaySizes[k] + IF k = InitSection THEN d ELSE 0
    BY <1>1, <1>4
  <2>2. /\ Len(StaySizes) = Len(FinalSizes) /\ InitSection \in 1 .. Len(StaySizes)
        /\ \A k \in 1 .. Len(StaySizes) : FinalSizes[k] = StaySizes[k] + IF k = InitSection THEN d ELSE 0
    BY <1>1, <1>2, <1>4, <2>1
  <2>3. \A k \in 0 .. Len(StaySizes) :
          Sums(FinalSizes)[k] = Sums(StaySizes)[k] + IF InitSection <= k THEN d ELSE 0
    BY <1>2, <1>3, <1>4, <2>2, SumsChanged, Zenon
  <2> QED
    BY <1>2, <2>3
<1>7. \A s \in 1 .. Behind : StayBefore(s) = g[s - 1] /\ FinalBefore(s) = h[s - 1]
  BY DEF StayBefore, FinalBefore
<1> HIDE DEF g, h
<1>8. \A s \in 1 .. Behind : s - 1 \in 0 .. n /\ (InitSection <= s - 1 <=> InitSection < s)
  BY <1>1
<1>9. ASSUME NEW s \in 1 .. Behind
      PROVE  FinalBefore(s) = StayBefore(s) + IF InitSection < s THEN d ELSE 0
  BY <1>6, <1>7, <1>8
<1>10. ASSUME NEW s \in Sect PROVE FinalBefore(s + 1) = FinalBefore(s) + FinalSizes[s]
  <2>1. s \in 1 .. n /\ s \in 1 .. Behind /\ s + 1 \in 1 .. Behind /\ (s + 1) - 1 = s
    BY <1>1
  <2> QED
    BY <1>5, <1>7, <2>1
<1>11. 1 \in 1 .. Behind /\ 1 - 1 = 0
  BY <1>1
<1>12. FinalBefore(1) = 0
  BY <1>5, <1>7, <1>11
<1>13. \A s \in Sect : FinalSizes[s] \in Nat
  BY <1>1, <1>4
<1>14. \A s \in 1 .. Behind : FinalBefore(s) \in Nat
  BY <1>5, <1>7, <1>8
<1> QED
  BY <1>3, <1>4, <1>9, <1>10, <1>12, <1>13, <1>14 DEF d

\* The data end where the line entries begin.
LEMMA EndOfDataIs ==
  ASSUME exe \in Inputs
  PROVE  EndOfData = OldLines
<1> DEFINE n == Len(sect)
           T == {k \in 0 .. n : \A l \in Sect : l > k => OldSize(l) = 0}
<1>1. /\ n \in Nat /\ Sect = 1 .. n /\ Behind = n + 1 /\ InitSection \in 1 .. n
      /\ \A s \in Sect : OldSize(s) \in Nat /\ OldSizes[s] = OldSize(s)
      /\ OldSize(InitSection) # 0
  BY ExecutableParts, SizesParts DEF Behind
<1>2. OldSizes \in Seq(Nat) /\ Len(OldSizes) = n
  BY SizesParts
<1> HIDE DEF n
<1>3. PICK x \in T : \A y \in T : x <= y
  <2>1. n \in T
    BY <1>1
  <2>2. T \in SUBSET Nat /\ T # {}
    BY <2>1
  <2> QED
    BY <2>2, LeastNumber
<1>4. x \in Sect /\ OldSize(x) # 0
  <2>1. InitSection <= x
    BY <1>1
  <2>2. x \in Sect /\ x - 1 \in 0 .. n
    BY <1>1, <2>1
  <2>3. x - 1 \notin T
    BY <1>3, <2>2
  <2>4. PICK l \in Sect : l > x - 1 /\ OldSize(l) # 0
    BY <2>2, <2>3
  <2>5. l = x
    BY <1>1, <2>2, <2>4
  <2> QED
    BY <2>2, <2>4, <2>5
<1> DEFINE Last(k) == OldSize(k) # 0 /\ \A l \in Sect : l > k => OldSize(l) = 0
           s == CHOOSE k \in Sect : Last(k)
<1>5. s \in Sect /\ Last(s)
  BY <1>4
<1>6. EndOfData = OldScnptr(s) + OldSize(s)
  BY DEF EndOfData
<1> HIDE DEF s
<1>7. OldData(s) + OldSize(s) = HeadersSize + Sums(OldSizes)[s]
  <2>1. s \in 1 .. n /\ s - 1 \in 0 .. n
    BY <1>1, <1>5
  <2>2. Sums(OldSizes)[s] = Sums(OldSizes)[s - 1] + OldSize(s) /\ Sums(OldSizes)[s - 1] \in Nat
    BY <1>1, <1>2, <2>1, SumsStep
  <2>3. HeadersSize \in Nat
    BY SizesParts
  <2> QED
    BY <1>1, <1>5, <2>2, <2>3 DEF OldData
<1>8. Sums(OldSizes)[s] = Sums(OldSizes)[n]
  <2>1. s \in 0 .. n /\ n \in 0 .. n /\ s <= n
    BY <1>1, <1>5
  <2>2. \A k \in (s + 1) .. n : OldSizes[k] = 0
    BY <1>1, <1>5
  <2> QED
    BY <1>2, <2>1, <2>2, SumsMonotone
<1>9. OldLines = HeadersSize + Sums(OldSizes)[n]
  BY <1>2 DEF OldLines, Total
<1> QED
  BY <1>5, <1>6, <1>7, <1>8, <1>9 DEF OldScnptr

\* What depends on the executable and the table only.
LEMMA SameExecutable ==
  ASSUME UNCHANGED exe
  PROVE  /\ UNCHANGED <<sect, Sect, Behind, InitSection, HeadersSize, Lines, OldSymptr, OldLines, EndOfData>>
         /\ \A s : UNCHANGED <<IsInit(s), OldSize(s), OldData(s), OldScnptr(s), OldLnnoptr(s),
                               Before(s), StayBefore(s), StayScnptr(s), StaySizes[s], MovedUpto(s)>>
         /\ UNCHANGED <<StaySizes, Before(Behind), StayBefore(Behind)>>
<1>1. sect' = sect
  BY DEF sect
<1>2. Sect' = Sect /\ HeadersSize' = HeadersSize /\ Behind' = Behind
  BY <1>1 DEF Sect, HeadersSize, Behind
<1>3. \A s : IsInit(s)' = IsInit(s)
  BY <1>1 DEF IsInit
<1>4. \A s : OldSize(s)' = OldSize(s)
  BY <1>1 DEF OldSize, WordSize
<1>5. InitSection' = InitSection
  BY <1>1, <1>2 DEF InitSection, IsInit
<1>6. OldSizes' = OldSizes
  BY <1>2, <1>4 DEF OldSizes
<1>7. StaySizes' = StaySizes
  BY <1>1, <1>2, <1>4 DEF StaySizes
<1>8. Lines' = Lines
  BY <1>1, <1>2 DEF Lines
<1>9. OldLines' = OldLines /\ OldSymptr' = OldSymptr
  BY <1>2, <1>6, <1>8 DEF OldLines, OldSymptr
<1>10. \A s : /\ OldData(s)' = OldData(s) /\ Before(s)' = Before(s) /\ StayBefore(s)' = StayBefore(s)
  BY <1>2, <1>6, <1>7 DEF OldData, Before, StayBefore
<1>11. \A s : /\ OldScnptr(s)' = OldScnptr(s) /\ OldLnnoptr(s)' = OldLnnoptr(s) /\ StayScnptr(s)' = StayScnptr(s)
  BY <1>4, <1>7, <1>8, <1>9, <1>10 DEF OldScnptr, OldLnnoptr, StayScnptr
<1>12. EndOfData' = EndOfData
  BY <1>2, <1>4, <1>11 DEF EndOfData
<1>13. \A s : MovedUpto(s)' = MovedUpto(s)
  BY DEF MovedUpto
<1>14. Before(Behind)' = Before(Behind) /\ StayBefore(Behind)' = StayBefore(Behind)
  BY <1>2, <1>6, <1>7 DEF Before, StayBefore
<1> QED
  BY <1>1, <1>2, <1>3, <1>4, <1>5, <1>7, <1>8, <1>9, <1>10, <1>11, <1>12, <1>13, <1>14

\* What the sums of sizes are made of does not change behind the scan.
LEMMA SameTable ==
  ASSUME UNCHANGED <<exe, table>>
  PROVE  /\ UNCHANGED <<FinalDelta, TableRecord, LinesRecord, SymbolsRecord, FinalSizes>>
         /\ \A s : UNCHANGED <<FinalBefore(s), FinalData(s), FinalScnptr(s), FinalLnnoptr(s), DataRecord(s)>>
<1>1. /\ UNCHANGED <<sect, Sect, Behind, InitSection, HeadersSize, Lines, OldLines, StaySizes>>
      /\ \A s : UNCHANGED <<IsInit(s), OldSize(s), OldData(s), OldLnnoptr(s), Before(s)>>
  BY SameExecutable
<1>2. FinalSizes' = FinalSizes
  BY <1>1 DEF FinalSizes
<1>3. \A s : FinalBefore(s)' = FinalBefore(s) /\ FinalData(s)' = FinalData(s)
  BY <1>1, <1>2 DEF FinalBefore, FinalData
<1>4. \A s : FinalScnptr(s)' = FinalScnptr(s)
  BY <1>2, <1>3 DEF FinalScnptr
<1>5. FinalDelta' = FinalDelta
  BY <1>1, <1>3 DEF FinalDelta
<1>6. \A s : FinalLnnoptr(s)' = FinalLnnoptr(s) /\ DataRecord(s)' = DataRecord(s)
  BY <1>1, <1>3, <1>5 DEF FinalLnnoptr, DataRecord
<1>7. TableRecord' = TableRecord /\ LinesRecord' = LinesRecord /\ SymbolsRecord' = SymbolsRecord
  BY <1>1, <1>3 DEF TableRecord, LinesRecord, SymbolsRecord
<1> QED
  BY <1>2, <1>3, <1>4, <1>5, <1>6, <1>7

-----------------------------------------------------------------------------
(* The lists and the table hold runs and words throughout.                 *)

TypeInv ==
  /\ exe \in Inputs
  /\ init_base \in [Memory -> Seq(RunSet)]
  /\ table \in Seq(CellSet)
  /\ DOMAIN s_size = Sect /\ DOMAIN s_scnptr = Sect /\ DOMAIN s_lnnoptr = Sect /\ DOMAIN delta = Sect

\* The types are right at the start.
LEMMA InitTypeInv == Init => TypeInv
BY DEF Init, TypeInv

\* And every step keeps them.
LEMMA NextTypeInv == TypeInv /\ [Next]_vars => TypeInv'
<1> SUFFICES ASSUME TypeInv, [Next]_vars PROVE TypeInv'
  OBVIOUS
<1>1. UNCHANGED exe
  <2>1. CASE MakeStandalone
    BY <2>1 DEF MakeStandalone, Scan, CleanList, SectionHeader, HeadersDone, SectionData,
                LineNumbers, CopySymbol, PatchInits
  <2>2. CASE ~ MakeStandalone
    BY <2>2 DEF Next, CloseOutput, UnlinkInput, ReopenInput, CopyBack, Exit, Fatal, Interrupt, Rest, vars
  <2> QED
    BY <2>1, <2>2
<1>2. Sect' = Sect
  BY <1>1 DEF Sect, sect
<1>3. CASE Scan
  <2>1. CASE sect[i].kind = "ram" /\ s_size[i] # 0
    <3> DEFINE m == MemoryOf(i)
    <3>1. m \in Memory /\ init_base[m] \in Seq(RunSet)
      BY DEF MemoryOf, Memory, TypeInv
    <3>2. sect[i].addr \in Nat /\ sect[i].words \in Seq(Nat)
      BY <1>3, ExecutableParts DEF TypeInv, Scan
    <3> DEFINE longer == CreateInitList(init_base[m], sect[i].addr, sect[i].words)
    <3>3. longer \in Seq(RunSet)
      BY <3>1, <3>2, Created
    <3>4. init_base' = [init_base EXCEPT ![m] = longer]
      BY <1>3, <2>1 DEF Scan, ToInitList
    <3>5. init_base' \in [Memory -> Seq(RunSet)]
      <4> HIDE DEF m, longer
      <4> QED
        BY <3>1, <3>3, <3>4 DEF TypeInv
    <3> QED
      BY <1>1, <1>2, <1>3, <2>1, <3>5 DEF TypeInv, Scan, ToInitList
  <2>2. CASE ~ (sect[i].kind = "ram" /\ s_size[i] # 0)
    BY <1>1, <1>2, <1>3, <2>2 DEF TypeInv, Scan
  <2> QED
    BY <2>1, <2>2
<1>4. CASE CleanList
  <2>1. ASSUME NEW m \in Memory
        PROVE  Kept(init_base[m]) \in Seq(RunSet) /\ Zeros(init_base[m]) \in Seq(ZeroSet)
    BY Cleaned DEF TypeInv
  <2>2. /\ init_base' = [m \in Memory |-> Kept(init_base[m])]
        /\ zeros' = [m \in Memory |-> Zeros(init_base[m])]
    BY <1>4 DEF CleanList
  <2>3. init_base' \in [Memory -> Seq(RunSet)] /\ zeros' \in [Memory -> Seq(ZeroSet)]
    BY <2>1, <2>2
  <2>4. ASSUME NEW m \in Memory
        PROVE  ZeroTable(zeros'[m]) \in Seq(CellSet) /\ CreateString(init_base'[m]) \in Seq(CellSet)
    <3>1. zeros'[m] \in Seq(ZeroSet) /\ init_base'[m] \in Seq(RunSet)
      BY <2>3
    <3> QED
      BY <3>1, ZeroTableIn, StringIn
  <2>5. "dm" \in Memory /\ "pm" \in Memory
    BY DEF Memory
  <2>6. table' \in Seq(CellSet)
    <3>1. table' = ZeroTable(zeros'["dm"]) \o ZeroTable(zeros'["pm"])
                     \o CreateString(init_base'["dm"]) \o CreateString(init_base'["pm"])
      BY <1>4 DEF CleanList
    <3>2. /\ ZeroTable(zeros'["dm"]) \in Seq(CellSet) /\ ZeroTable(zeros'["pm"]) \in Seq(CellSet)
          /\ CreateString(init_base'["dm"]) \in Seq(CellSet)
          /\ CreateString(init_base'["pm"]) \in Seq(CellSet)
      BY <2>4, <2>5
    <3> QED
      BY <3>1, <3>2
  <2> QED
    BY <1>1, <1>2, <1>4, <2>3, <2>6 DEF TypeInv, CleanList, sizes
<1>5. CASE SectionHeader
  BY <1>1, <1>2, <1>5 DEF TypeInv, SectionHeader, lists
<1>6. CASE HeadersDone \/ SectionData \/ LineNumbers \/ CopySymbol \/ PatchInits
  BY <1>1, <1>2, <1>6 DEF TypeInv, HeadersDone, SectionData, LineNumbers, CopySymbol, PatchInits, lists, sizes
<1>7. CASE CloseOutput \/ UnlinkInput \/ ReopenInput \/ CopyBack \/ Exit \/ Fatal \/ Interrupt
  BY <1>1, <1>2, <1>7 DEF TypeInv, CloseOutput, UnlinkInput, ReopenInput, CopyBack, Exit, Fatal, Interrupt,
                          Rest, lists, sizes
<1>8. CASE UNCHANGED vars
  BY <1>1, <1>2, <1>8 DEF TypeInv, vars, lists, sizes
<1> QED
  BY <1>3, <1>4, <1>5, <1>6, <1>7, <1>8 DEF Next, MakeStandalone

-----------------------------------------------------------------------------
(* The pointers are right at every step.                                   *)

\* No pointer is moved before the scan.
LEMMA InitPointerInv == Init => PointerInv
<1> SUFFICES ASSUME Init PROVE PointerInv
  OBVIOUS
<1>1. exe \in Inputs
  BY DEF Init
<1>2. StayBefore(1) - Before(1) = 0 /\ 1 \in 1 .. Behind
  <2>1. StayBefore(1) = 0 /\ Before(1) = 0 /\ Len(sect) \in Nat
    BY <1>1, BeforeParts, ExecutableParts
  <2> QED
    BY <2>1 DEF Behind
<1>3. \A s \in Sect : ~ (s < 1)
  BY <1>1, ExecutableParts
<1>4. ScanInv
  BY <1>2, <1>3 DEF Init, ScanInv
<1> QED
  BY <1>4 DEF Init, PointerInv, Returned

\* The scan sums up what leaves the file (make_standalone).
LEMMA ScanStep ==
  ASSUME TypeInv, PointerInv, Scan
  PROVE  PointerInv'
<1>1. exe \in Inputs /\ ScanInv /\ i \in Sect /\ pc = "scan"
  BY DEF TypeInv, PointerInv, Scan
<1>2. /\ Len(sect) \in Nat /\ Sect = 1 .. Len(sect) /\ Behind = Len(sect) + 1
  BY <1>1, ExecutableParts DEF Behind
<1>3. /\ OldSize(i) \in Nat
      /\ StaySizes[i] = IF sect[i].kind = "ram" THEN 0 ELSE OldSize(i)
      /\ StayBefore(i + 1) = StayBefore(i) + StaySizes[i]
      /\ Before(i + 1) = Before(i) + OldSize(i)
      /\ StayBefore(i) \in Nat /\ Before(i) \in Nat
  <2>1. i \in 1 .. Behind
    BY <1>1, <1>2
  <2> QED
    BY <1>1, <2>1, SizesParts, BeforeParts
<1>4. UNCHANGED exe
  BY DEF Scan
<1>5. s_size[i] = OldSize(i) /\ s_scnptr[i] = OldScnptr(i) /\ delta[i] = 0
  <2>1. ~ (i < i)
    BY <1>1, <1>2
  <2> QED
    BY <1>1, <2>1 DEF ScanInv
<1>6. /\ \A s \in Sect :
           /\ s_size'[s] = IF s = i THEN StaySizes[i] ELSE s_size[s]
           /\ s_scnptr'[s] = IF s = i THEN StayScnptr(i) ELSE s_scnptr[s]
           /\ delta'[s] = IF s = i THEN StaySizes[i] - OldSize(i) ELSE delta[s]
      /\ delta_symptr' = StayBefore(i + 1) - Before(i + 1)
  <2>1. delta_symptr = StayBefore(i) - Before(i)
    BY <1>1 DEF ScanInv
  <2>2. CASE sect[i].kind = "ram" /\ s_size[i] # 0
    <3>1. StaySizes[i] = 0 /\ StayScnptr(i) = 0
      BY <1>3, <2>2 DEF StayScnptr
    <3>2. /\ delta' = [delta EXCEPT ![i] = @ - s_size[i]]
          /\ s_size' = [s_size EXCEPT ![i] = 0] /\ s_scnptr' = [s_scnptr EXCEPT ![i] = 0]
          /\ delta_symptr' = delta_symptr - s_size[i]
      BY <2>2 DEF Scan, ToInitList
    <3>3. delta' = [delta EXCEPT ![i] = 0 - OldSize(i)]
      BY <1>5, <3>2
    <3>4. delta_symptr' = StayBefore(i + 1) - Before(i + 1)
      BY <1>3, <1>5, <2>1, <3>1, <3>2
    <3>5. Sect = DOMAIN delta /\ Sect = DOMAIN s_size /\ Sect = DOMAIN s_scnptr
      BY DEF TypeInv
    <3>6. 0 - OldSize(i) = StaySizes[i] - OldSize(i)
      BY <3>1
    <3> QED
      BY <3>1, <3>2, <3>3, <3>4, <3>5, <3>6
  <2>3. CASE ~ (sect[i].kind = "ram" /\ s_size[i] # 0)
    <3>1. StaySizes[i] = OldSize(i) /\ StayScnptr(i) = OldScnptr(i)
      BY <1>3, <1>5, <2>3 DEF StayScnptr, OldScnptr
    <3>2. UNCHANGED <<delta, s_size, s_scnptr, delta_symptr>>
      BY <2>3 DEF Scan
    <3>3. StaySizes[i] - OldSize(i) = 0
      BY <1>3, <3>1
    <3>4. delta_symptr = StayBefore(i + 1) - Before(i + 1)
      BY <1>3, <2>1, <3>1
    <3> QED
      BY <1>5, <3>1, <3>2, <3>3, <3>4
  <2> QED
    BY <2>2, <2>3
<1>7. i' = i + 1 /\ i' \in 1 .. Behind /\ \A s \in Sect : s < i' <=> (s < i \/ s = i)
  BY <1>1, <1>2 DEF Scan
<1>8. ASSUME NEW s \in Sect
      PROVE  /\ s_size'[s]   = IF s < i' THEN StaySizes[s] ELSE OldSize(s)
             /\ s_scnptr'[s] = IF s < i' THEN StayScnptr(s) ELSE OldScnptr(s)
             /\ delta'[s]    = IF s < i' THEN StaySizes[s] - OldSize(s) ELSE 0
             /\ s_lnnoptr'[s] = OldLnnoptr(s)
  <2>1. s \in DOMAIN s_size /\ s \in DOMAIN s_scnptr /\ s \in DOMAIN delta
    BY DEF TypeInv
  <2>2. s_lnnoptr'[s] = OldLnnoptr(s)
    BY <1>1 DEF Scan, ScanInv
  <2>3. CASE s = i
    BY <1>6, <1>7, <2>1, <2>2, <2>3
  <2>4. CASE s # i
    <3>1. s_size'[s] = s_size[s] /\ s_scnptr'[s] = s_scnptr[s] /\ delta'[s] = delta[s]
      BY <1>6, <2>1, <2>4
    <3>2. s < i' <=> s < i
      BY <1>7, <2>4
    <3> QED
      BY <1>1, <2>2, <3>1, <3>2 DEF ScanInv
  <2> QED
    BY <2>3, <2>4
<1>9. ScanInv'
  <2>1. /\ Behind' = Behind /\ Sect' = Sect /\ OldSymptr' = OldSymptr
        /\ \A s : /\ StayBefore(s)' = StayBefore(s) /\ Before(s)' = Before(s)
                  /\ StaySizes[s]' = StaySizes[s] /\ OldSize(s)' = OldSize(s)
                  /\ StayScnptr(s)' = StayScnptr(s) /\ OldScnptr(s)' = OldScnptr(s)
                  /\ OldLnnoptr(s)' = OldLnnoptr(s)
        /\ StaySizes' = StaySizes
    BY <1>4, SameExecutable
  <2>2. /\ UNCHANGED <<table, delta_section_ptr, next_section_ptr, init_section_pointer, f_symptr>>
        /\ table = <<>> /\ delta_section_ptr = 0 /\ next_section_ptr = 0 /\ init_section_pointer = 0
        /\ f_symptr = OldSymptr
    BY <1>1 DEF Scan, ScanInv
  <2>3. i' \in 1 .. Behind' /\ delta_symptr' = StayBefore(i)' - Before(i)'
    BY <1>6, <1>7, <2>1
  <2> QED
    BY <1>8, <2>1, <2>2, <2>3 DEF ScanInv
<1> QED
  BY <1>1, <1>9 DEF Scan, PointerInv, Returned, symbols

\* With the table known, so is where all will be.
LEMMA FinalStart ==
  TypeInv => /\ FinalBefore(1) = Before(1)
             /\ InitSection \in Sect /\ Sect = 1 .. Len(sect) /\ Len(sect) \in Nat
             /\ FinalBefore(Behind) = StayBefore(Behind) + PM * Len(table)
<1> SUFFICES ASSUME TypeInv
             PROVE  /\ FinalBefore(1) = Before(1)
                    /\ InitSection \in Sect /\ Sect = 1 .. Len(sect) /\ Len(sect) \in Nat
                    /\ FinalBefore(Behind) = StayBefore(Behind) + PM * Len(table)
  OBVIOUS
<1>1. exe \in Inputs /\ table \in Seq(CellSet)
  BY DEF TypeInv
<1>2. InitSection \in Sect /\ Sect = 1 .. Len(sect) /\ Len(sect) \in Nat /\ Behind = Len(sect) + 1
  BY <1>1, ExecutableParts DEF Behind
<1>3. InitSection < Behind /\ Behind \in 1 .. Behind
  BY <1>2
<1> QED
  BY <1>1, <1>2, <1>3, FinalParts, BeforeParts

\* And so in the next state.
LEMMA NextFinalStart ==
  (TypeInv => /\ FinalBefore(1) = Before(1)
              /\ InitSection \in Sect /\ Sect = 1 .. Len(sect) /\ Len(sect) \in Nat
              /\ FinalBefore(Behind) = StayBefore(Behind) + PM * Len(table))'
BY FinalStart, PTL

\* With the table made, all final sizes are known.
LEMMA CleanListStep ==
  ASSUME TypeInv, TypeInv', PointerInv, CleanList
  PROVE  PointerInv'
<1>1. exe \in Inputs /\ ScanInv /\ pc = "scan"
  BY DEF TypeInv, PointerInv, CleanList
<1>2. Len(sect) \in Nat /\ Sect = 1 .. Len(sect) /\ Behind = Len(sect) + 1
  BY <1>1, ExecutableParts DEF Behind
<1>3. i = Behind /\ \A s \in Sect : s < i
  BY <1>1, <1>2 DEF ScanInv, CleanList
<1>4. /\ UNCHANGED <<Sect, Behind, InitSection, OldSymptr, StaySizes>>
      /\ \A s : /\ StayBefore(s)' = StayBefore(s) /\ Before(s)' = Before(s)
                /\ OldSize(s)' = OldSize(s)
                /\ StayScnptr(s)' = StayScnptr(s) /\ OldLnnoptr(s)' = OldLnnoptr(s)
  BY SameExecutable DEF CleanList
<1>5. /\ FinalBefore(1)' = Before(1)'
      /\ FinalBefore(Behind)' = StayBefore(Behind) + PM * Len(table')
      /\ InitSection' \in 1 .. Len(sect)
  BY <1>2, <1>4, NextFinalStart
<1>6. StayBefore(Behind) \in Nat /\ Before(Behind) \in Nat /\ Before(1) \in Nat
  <2>1. Behind \in 1 .. Behind /\ 1 \in 1 .. Behind
    BY <1>2
  <2> QED
    BY <1>1, <2>1, BeforeParts
<1>7. PM * Len(table') \in Nat
  <2>1. Len(table') \in Nat /\ PM \in Nat
    BY InitListAssumption DEF TypeInv
  <2> QED
    BY <2>1
<1>8. delta_symptr' = FinalDelta' /\ f_symptr' = OldSymptr' + FinalDelta'
  <2>1. /\ delta_symptr = StayBefore(Behind) - Before(Behind) /\ f_symptr = OldSymptr
        /\ delta_symptr' = delta_symptr + PM * Len(table')
        /\ f_symptr' = f_symptr + delta_symptr'
    BY <1>1, <1>3 DEF ScanInv, CleanList
  <2>2. FinalDelta' = (StayBefore(Behind) + PM * Len(table')) - Before(Behind)
    <3>1. Before(Behind)' = Before(Behind)
      BY SameExecutable DEF CleanList
    <3> QED
      BY <1>5, <3>1 DEF FinalDelta
  <2>3. delta_symptr' = FinalDelta'
    BY <1>6, <1>7, <2>1, <2>2
  <2> QED
    BY <1>4, <2>1, <2>3
<1>9. i' = 1 /\ i' \in 1 .. Behind' /\ (\A s \in Sect' : ~ (s < i')) /\ ~ (InitSection' < i')
  BY <1>2, <1>4, <1>5 DEF CleanList
<1>10. delta_section_ptr' = FinalBefore(i)' - Before(i)'
  <2>1. delta_section_ptr' = 0
    BY <1>1 DEF ScanInv, CleanList
  <2>2. FinalBefore(i)' = Before(1) /\ Before(i)' = Before(1)
    BY <1>4, <1>5, <1>9
  <2> QED
    BY <1>6, <2>1, <2>2
<1>11. next_section_ptr' = 0
  BY <1>1 DEF ScanInv, CleanList
<1>12. ASSUME NEW s \in Sect
       PROVE  /\ s_size'[s] = StaySizes'[s] /\ s_scnptr'[s] = StayScnptr(s)'
              /\ delta'[s] = StaySizes'[s] - OldSize(s)'
              /\ s_lnnoptr'[s] = OldLnnoptr(s)'
  BY <1>1, <1>3, <1>4 DEF ScanInv, CleanList, sizes
<1>13. HeadersInv'
  BY <1>4, <1>8, <1>9, <1>10, <1>11, <1>12 DEF HeadersInv
<1> QED
  BY <1>1, <1>13 DEF CleanList, PointerInv, Returned, symbols

\* The pointer of a section to its line entries is not 0 if there are some.
LEMMA LnnoptrIs ==
  ASSUME exe \in Inputs, NEW s \in Sect
  PROVE  /\ OldLnnoptr(s) = 0 <=> Lines[s] = 0
         /\ OldData(s) \in Nat \ {0}
<1>1. Len(sect) \in Nat /\ Sect = 1 .. Len(sect) /\ Behind = Len(sect) + 1
  BY ExecutableParts DEF Behind
<1>2. HeadersSize \in Nat \ {0} /\ Lines \in Seq(Nat) /\ Len(Lines) = Len(sect)
  BY SizesParts
<1>3. Sums(Lines)[s - 1] \in Nat
  <2>1. s - 1 \in 0 .. Len(Lines)
    BY <1>1, <1>2
  <2> QED
    BY <1>2, <2>1, SumsStep
<1>4. OldData(s) \in Nat \ {0} /\ OldLines \in Nat \ {0}
  <2>1. s \in 1 .. Behind /\ Behind \in 1 .. Behind
    BY <1>1
  <2>2. /\ OldData(s) = HeadersSize + Before(s) /\ Before(s) \in Nat
        /\ OldLines = HeadersSize + Before(Behind) /\ Before(Behind) \in Nat
    BY <2>1, BeforeParts
  <2> QED
    BY <1>2, <2>2
<1> QED
  BY <1>3, <1>4 DEF OldLnnoptr

\* The data of the next section are behind those of this one, and move as far as the
\* sections up to this one have grown.
LEMMA HeaderStep ==
  ASSUME HeaderFirst, TypeInv, PointerInv, SectionHeader
  PROVE  PointerInv'
<1>1. exe \in Inputs /\ table \in Seq(CellSet) /\ HeadersInv /\ i \in Sect /\ pc = "headers"
  BY DEF TypeInv, PointerInv, SectionHeader
<1>2. /\ Len(sect) \in Nat /\ Sect = 1 .. Len(sect) /\ Behind = Len(sect) + 1
      /\ InitSection \in Sect /\ \A s \in Sect : IsInit(s) <=> s = InitSection
  BY <1>1, ExecutableParts DEF Behind
<1>3. i \in 1 .. Behind /\ i + 1 \in 1 .. Behind /\ i \in Nat /\ ~ (i < i)
  BY <1>1, <1>2
<1>4. /\ OldSize(i) \in Nat /\ StaySizes[i] \in Nat
      /\ StaySizes[i] = IF sect[i].kind = "ram" THEN 0 ELSE OldSize(i)
      /\ HeadersSize \in Nat \ {0}
  BY <1>1, SizesParts
<1>5. /\ Before(i) \in Nat /\ Before(i + 1) = Before(i) + OldSize(i)
      /\ OldData(i) = HeadersSize + Before(i)
  BY <1>1, <1>3, BeforeParts
<1>6. /\ PM * Len(table) \in Nat /\ FinalSizes[i] \in Nat
      /\ FinalSizes[i] = StaySizes[i] + IF i = InitSection THEN PM * Len(table) ELSE 0
      /\ FinalBefore(i) \in Nat /\ FinalBefore(i + 1) = FinalBefore(i) + FinalSizes[i]
  BY <1>1, <1>3, FinalParts
<1>7. /\ s_size[i] = StaySizes[i] /\ s_scnptr[i] = StayScnptr(i)
      /\ delta[i] = StaySizes[i] - OldSize(i) /\ s_lnnoptr[i] = OldLnnoptr(i)
      /\ delta_section_ptr = FinalBefore(i) - Before(i)
      /\ next_section_ptr = IF \A s \in Sect : s < i => FinalSizes[s] = 0 THEN 0 ELSE FinalData(i)
  BY <1>1, <1>3 DEF HeadersInv
<1>8. NewSize(i) = FinalSizes[i]
  BY <1>1, <1>2, <1>4, <1>6, <1>7 DEF NewSize
<1>9. i = InitSection =>
        /\ OldSize(i) # 0 /\ StaySizes[i] = OldSize(i)
        /\ next_section_ptr = FinalData(i)
  <2> SUFFICES ASSUME i = InitSection
               PROVE  /\ OldSize(i) # 0 /\ StaySizes[i] = OldSize(i)
                      /\ next_section_ptr = FinalData(i)
    OBVIOUS
  <2>1. IsInit(i) /\ sect[i].words # <<>>
    BY <1>1, <1>2, ExecutableParts
  <2>2. OldSize(i) # 0 /\ StaySizes[i] = OldSize(i)
    BY <1>1, <1>4, <2>1, SizesParts DEF IsInit
  <2>3. PICK s, t \in DOMAIN sect :
          s < t /\ sect[t].kind = "init" /\ sect[s].kind = "kept" /\ sect[s].words # <<>>
    BY <1>1 DEF HeaderFirst, sect
  <2>4. DOMAIN sect = Sect
    BY <1>1, ExecutableAssumption DEF sect, Sect
  <2>5. s \in Sect /\ s < i /\ sect[s].kind = "kept" /\ sect[s].words # <<>>
    <3>1. t = i
      BY <1>2, <2>3, <2>4 DEF IsInit
    <3> QED
      BY <2>3, <2>4, <3>1
  <2>6. StaySizes[s] # 0 /\ StaySizes[s] \in Nat
    BY <1>1, <2>5, SizesParts
  <2>7. FinalSizes[s] # 0
    BY <1>1, <2>5, <2>6, FinalParts
  <2> QED
    BY <1>7, <2>2, <2>5, <2>7
<1>10. FinalData(i) = HeadersSize + FinalBefore(i) /\ FinalData(i + 1) = HeadersSize + FinalBefore(i + 1)
  BY DEF FinalData
<1>11. NewScnptr(i) = FinalScnptr(i)
  <2>1. CASE i = InitSection
    <3>1. FinalScnptr(i) = FinalData(i)
      BY <1>4, <1>6, <1>9, <2>1 DEF FinalScnptr
    <3>2. next_section_ptr - delta_section_ptr = HeadersSize + Before(i)
      BY <1>4, <1>5, <1>6, <1>7, <1>9, <1>10, <2>1
    <3>3. (HeadersSize + Before(i)) + delta_section_ptr = FinalData(i) /\ HeadersSize + Before(i) # 0
      <4>1. /\ HeadersSize \in Nat \ {0} /\ Before(i) \in Nat /\ FinalBefore(i) \in Nat
            /\ delta_section_ptr = FinalBefore(i) - Before(i)
            /\ FinalData(i) = HeadersSize + FinalBefore(i)
        BY <1>4, <1>5, <1>6, <1>7, <1>10
      <4> QED
        BY <4>1, SMTT(30)
    <3>4. IsInit(i)
      BY <1>1, <1>2, <2>1
    <3> QED
      BY <3>1, <3>2, <3>3, <3>4 DEF NewScnptr
  <2>2. CASE i # InitSection
    <3>1. ~ IsInit(i) /\ FinalSizes[i] = StaySizes[i]
      BY <1>1, <1>2, <1>4, <1>6, <2>2
    <3>2. OldData(i) # 0 /\ OldData(i) + delta_section_ptr = FinalData(i)
      <4>1. (HeadersSize + Before(i)) + delta_section_ptr = HeadersSize + FinalBefore(i)
        BY <1>4, <1>5, <1>6, <1>7
      <4>2. HeadersSize + Before(i) # 0
        BY <1>4, <1>5
      <4> QED
        BY <1>5, <1>10, <4>1, <4>2
    <3> QED
      BY <1>7, <3>1, <3>2 DEF NewScnptr, StayScnptr, FinalScnptr
  <2> QED
    BY <2>1, <2>2
<1>12. ASSUME NEW s \in Sect
       PROVE  /\ s_size'[s] = IF s = i THEN FinalSizes[s] ELSE s_size[s]
              /\ s_scnptr'[s] = IF s = i THEN FinalScnptr(s) ELSE s_scnptr[s]
              /\ delta'[s] = IF s = i THEN FinalSizes[s] - OldSize(s) ELSE delta[s]
              /\ s_lnnoptr'[s] = IF s = i THEN FinalLnnoptr(s) ELSE s_lnnoptr[s]
  <2>1. /\ s \in DOMAIN s_size /\ s \in DOMAIN s_scnptr /\ s \in DOMAIN delta /\ s \in DOMAIN s_lnnoptr
    BY DEF TypeInv
  <2>2. (IF IsInit(i) THEN NewSize(i) - OldSize(i) ELSE delta[i]) = FinalSizes[i] - OldSize(i)
    BY <1>1, <1>2, <1>4, <1>6, <1>7, <1>8, SMTT(30)
  <2>3. (IF s_lnnoptr[i] = 0 THEN 0 ELSE s_lnnoptr[i] + delta_symptr) = FinalLnnoptr(i)
    <3>1. delta_symptr = FinalDelta /\ (OldLnnoptr(i) = 0 <=> Lines[i] = 0)
      BY <1>1, LnnoptrIs DEF HeadersInv
    <3> QED
      BY <1>7, <3>1 DEF FinalLnnoptr
  <2>4. s_size' = [s_size EXCEPT ![i] = FinalSizes[i]] /\ s_scnptr' = [s_scnptr EXCEPT ![i] = FinalScnptr(i)]
    BY <1>8, <1>11 DEF SectionHeader
  <2>5. delta' = [delta EXCEPT ![i] = FinalSizes[i] - OldSize(i)]
    BY <2>2 DEF SectionHeader
  <2>6. s_lnnoptr' = [s_lnnoptr EXCEPT ![i] = FinalLnnoptr(i)]
    BY <2>3 DEF SectionHeader
  <2> QED
    BY <2>1, <2>4, <2>5, <2>6
<1>13. /\ i' = i + 1 /\ UNCHANGED <<exe, table, delta_symptr, f_symptr>>
       /\ delta_section_ptr' = delta_section_ptr + delta'[i]
       /\ init_section_pointer' = IF IsInit(i) THEN s_scnptr'[i] ELSE init_section_pointer
       /\ next_section_ptr' = IF s_scnptr'[i] # 0 THEN s_scnptr'[i] + s_size'[i] ELSE next_section_ptr
  BY DEF SectionHeader, lists
<1>14. /\ i' \in 1 .. Behind /\ \A s \in Sect : s < i' <=> (s < i \/ s = i)
       /\ InitSection < i' <=> (InitSection < i \/ InitSection = i)
  BY <1>1, <1>2, <1>13
<1>15. delta_section_ptr' = FinalBefore(i + 1) - Before(i + 1)
  <2>1. delta'[i] = FinalSizes[i] - OldSize(i)
    BY <1>1, <1>12
  <2> QED
    BY <1>4, <1>5, <1>6, <1>7, <1>13, <2>1
<1>16. next_section_ptr' = IF \A s \in Sect : s < i' => FinalSizes[s] = 0 THEN 0 ELSE FinalData(i + 1)
  <2>1. s_scnptr'[i] = FinalScnptr(i) /\ s_size'[i] = FinalSizes[i]
    BY <1>1, <1>12
  <2>2. CASE FinalSizes[i] = 0
    <3>1. FinalData(i + 1) = FinalData(i)
      BY <1>4, <1>6, <1>10, <2>2
    <3>2. next_section_ptr' = next_section_ptr
      BY <1>13, <2>1, <2>2 DEF FinalScnptr
    <3>3. (\A s \in Sect : s < i' => FinalSizes[s] = 0) <=> (\A s \in Sect : s < i => FinalSizes[s] = 0)
      BY <1>1, <1>14, <2>2
    <3> QED
      BY <1>7, <3>1, <3>2, <3>3
  <2>3. CASE FinalSizes[i] # 0
    <3>1. FinalScnptr(i) = FinalData(i) /\ FinalData(i) # 0
      BY <1>4, <1>6, <1>10, <2>3 DEF FinalScnptr
    <3>2. FinalData(i) + FinalSizes[i] = FinalData(i + 1)
      BY <1>4, <1>6, <1>10
    <3>3. ~ \A s \in Sect : s < i' => FinalSizes[s] = 0
      BY <1>1, <1>14, <2>3
    <3> QED
      BY <1>13, <2>1, <3>1, <3>2, <3>3
  <2> QED
    BY <2>2, <2>3
<1>17. InitSection < i' => init_section_pointer' = FinalData(InitSection)
  <2>1. CASE i = InitSection
    <3>1. s_scnptr'[i] = FinalScnptr(i) /\ IsInit(i)
      BY <1>1, <1>2, <1>12, <2>1
    <3>2. FinalScnptr(i) = FinalData(i)
      BY <1>4, <1>6, <1>9, <2>1 DEF FinalScnptr
    <3> QED
      BY <1>13, <2>1, <3>1, <3>2
  <2>2. CASE i # InitSection
    <3>1. ~ IsInit(i) /\ (InitSection < i' <=> InitSection < i)
      BY <1>1, <1>2, <1>14, <2>2
    <3> QED
      BY <1>1, <1>13, <3>1 DEF HeadersInv
  <2> QED
    BY <2>1, <2>2
<1>18. ASSUME NEW s \in Sect
       PROVE  IF s < i'
              THEN /\ s_size'[s] = FinalSizes[s] /\ s_scnptr'[s] = FinalScnptr(s)
                   /\ s_lnnoptr'[s] = FinalLnnoptr(s)
              ELSE /\ s_size'[s] = StaySizes[s] /\ s_scnptr'[s] = StayScnptr(s)
                   /\ delta'[s] = StaySizes[s] - OldSize(s)
                   /\ s_lnnoptr'[s] = OldLnnoptr(s)
  <2>1. CASE s = i
    BY <1>12, <1>14, <2>1
  <2>2. CASE s # i
    <3>1. /\ s_size'[s] = s_size[s] /\ s_scnptr'[s] = s_scnptr[s] /\ delta'[s] = delta[s]
          /\ s_lnnoptr'[s] = s_lnnoptr[s]
      BY <1>12, <2>2
    <3>2. s < i' <=> s < i
      BY <1>14, <2>2
    <3> QED
      BY <1>1, <3>1, <3>2 DEF HeadersInv
  <2> QED
    BY <2>1, <2>2
<1>19. HeadersInv'
  <2>1. /\ UNCHANGED <<Behind, Sect, InitSection, OldSymptr, StaySizes>>
        /\ \A s : /\ Before(s)' = Before(s) /\ OldSize(s)' = OldSize(s)
                  /\ StayScnptr(s)' = StayScnptr(s) /\ OldLnnoptr(s)' = OldLnnoptr(s)
    BY <1>13, SameExecutable
  <2>2. /\ UNCHANGED <<FinalDelta, FinalSizes>>
        /\ \A s : /\ FinalBefore(s)' = FinalBefore(s) /\ FinalData(s)' = FinalData(s)
                  /\ FinalScnptr(s)' = FinalScnptr(s) /\ FinalLnnoptr(s)' = FinalLnnoptr(s)
    BY <1>13, SameTable
  <2>3. delta_symptr' = FinalDelta' /\ f_symptr' = OldSymptr' + FinalDelta'
    BY <1>1, <1>13, <2>1, <2>2 DEF HeadersInv
  <2>4. delta_section_ptr' = FinalBefore(i)' - Before(i)'
    BY <1>13, <1>15, <2>1, <2>2
  <2>5. next_section_ptr' = IF \A s \in Sect : s < i' => FinalSizes'[s] = 0 THEN 0 ELSE FinalData(i)'
    BY <1>13, <1>16, <2>2
  <2>6. InitSection' < i' => init_section_pointer' = FinalData(InitSection)'
    <3>1. FinalData(InitSection)' = FinalData(InitSection)
      BY <2>1, <2>2
    <3> QED
      BY <1>17, <2>1, <3>1
  <2> QED
    BY <1>14, <1>18, <2>1, <2>2, <2>3, <2>4, <2>5, <2>6 DEF HeadersInv
<1> QED
  BY <1>1, <1>19 DEF SectionHeader, PointerInv, Returned, symbols

\* Writing one part more.
LEMMA RecordsIn ==
  ASSUME exe \in Inputs, table \in Seq(CellSet)
  PROVE  /\ \A s \in Sect : DataRecord(s) \in PartSet /\ DataRecord(s).from # Computed
         /\ TableRecord \in PartSet /\ TableRecord.from = Computed
         /\ LinesRecord \in PartSet /\ LinesRecord.from # Computed
         /\ SymbolsRecord \in PartSet /\ SymbolsRecord.from # Computed
<1>1. /\ Len(sect) \in Nat /\ Sect = 1 .. Len(sect) /\ Behind = Len(sect) + 1 /\ InitSection \in Sect
  BY ExecutableParts DEF Behind
<1>2. \A s \in 1 .. Behind : FinalData(s) \in Nat
  <2>1. HeadersSize \in Nat /\ \A s \in 1 .. Behind : FinalBefore(s) \in Nat
    BY SizesParts, FinalParts
  <2> QED
    BY <2>1 DEF FinalData
<1>3. \A s \in Sect : OldSize(s) \in Nat /\ OldData(s) \in Nat \ {0} /\ FinalData(s) \in Nat
  <2>1. \A s \in Sect : s \in 1 .. Behind
    BY <1>1
  <2>2. \A s \in Sect : OldSize(s) \in Nat
    BY SizesParts
  <2>3. \A s \in Sect : OldData(s) \in Nat \ {0}
    BY LnnoptrIs
  <2> QED
    BY <1>2, <2>1, <2>2, <2>3
<1>4. OldLines \in Nat \ {0} /\ FinalData(Behind) \in Nat
  <2>1. Behind \in 1 .. Behind
    BY <1>1
  <2>2. OldLines = HeadersSize + Before(Behind) /\ Before(Behind) \in Nat /\ HeadersSize \in Nat \ {0}
    BY <2>1, BeforeParts, SizesParts
  <2> QED
    BY <1>2, <2>1, <2>2
<1>5. Total(Lines) \in Nat
  <2>1. Lines \in Seq(Nat) /\ Len(Lines) \in 0 .. Len(Lines)
    BY <1>1, SizesParts
  <2>2. Sums(Lines) \in [0 .. Len(Lines) -> Nat]
    BY <2>1, SumsStep
  <2> QED
    BY <2>1, <2>2 DEF Total
<1>6. SYMESZ * Len(exe.syms) \in Nat
  <2>1. Len(exe.syms) \in Nat /\ SYMESZ \in Nat
    BY ExecutableAssumption
  <2> QED
    BY <2>1
<1>7. PM * Len(table) \in Nat
  BY FinalParts
<1>8. \A s \in Sect : DataRecord(s) \in PartSet /\ DataRecord(s).from # Computed
  BY <1>3 DEF DataRecord, PartSet, Computed
<1>9. TableRecord \in PartSet /\ TableRecord.from = Computed
  BY <1>1, <1>3, <1>7 DEF TableRecord, PartSet, Computed
<1>10. LinesRecord \in PartSet /\ LinesRecord.from # Computed
  BY <1>4, <1>5 DEF LinesRecord, PartSet, Computed
<1>11. SymbolsRecord \in PartSet /\ SymbolsRecord.from # Computed
  BY <1>4, <1>5, <1>6 DEF SymbolsRecord, PartSet, Computed
<1> QED
  BY <1>8, <1>9, <1>10, <1>11

\* A list of parts with one more.
LEMMA Appended ==
  ASSUME NEW q \in Seq(PartSet), NEW r \in PartSet
  PROVE  /\ Append(q, r) \in Seq(PartSet) /\ Append(q, r) # <<>> /\ Append(q, r) # q
         /\ Len(Append(q, r)) = Len(q) + 1 /\ Len(q) \in Nat
         /\ DOMAIN q = 1 .. Len(q) /\ DOMAIN Append(q, r) = 1 .. (Len(q) + 1)
         /\ Append(q, r)[Len(q) + 1] = r
         /\ \A k \in 1 .. Len(q) : Append(q, r)[k] = q[k]
OBVIOUS

\* A part that is none of the sections'.
LEMMA PartsRest ==
  ASSUME NEW n, NEW rest, NEW q, Parts(q, n, rest), NEW r \in PartSet, r.from # Computed
  PROVE  Parts(Append(q, r), n, rest \cup {r})
<1> DEFINE p == Append(q, r)
<1>1. /\ p \in Seq(PartSet) /\ Len(q) \in Nat /\ DOMAIN q = 1 .. Len(q)
      /\ DOMAIN p = 1 .. (Len(q) + 1) /\ p[Len(q) + 1] = r
      /\ \A k \in DOMAIN q : p[k] = q[k]
  BY Appended DEF Parts
<1> HIDE DEF p
<1>2. DOMAIN p = DOMAIN q \cup {Len(q) + 1}
  BY <1>1
<1>3. \A k \in DOMAIN p : p[k].from = Computed => k \in DOMAIN q
  <2>1. ASSUME NEW k \in DOMAIN p, k \notin DOMAIN q PROVE p[k].from # Computed
    BY <1>1, <1>2, <2>1
  <2> QED
    BY <2>1
<1>4. \A k \in DOMAIN p :
        \/ \E s \in Sect : s < n /\ StaySizes[s] # 0 /\ p[k] = DataRecord(s)
        \/ InitSection < n /\ p[k] = TableRecord
        \/ p[k] \in rest \cup {r}
  BY <1>1, <1>2 DEF Parts
<1>5. ASSUME NEW s \in Sect, s < n, StaySizes[s] # 0
      PROVE  \E k \in DOMAIN p : /\ p[k] = DataRecord(s)
                                 /\ s = InitSection => k + 1 \in DOMAIN p /\ p[k + 1] = TableRecord
  <2>1. PICK k \in DOMAIN q : /\ q[k] = DataRecord(s)
                              /\ s = InitSection => k + 1 \in DOMAIN q /\ q[k + 1] = TableRecord
    BY <1>5 DEF Parts
  <2> QED
    BY <1>1, <1>2, <2>1
<1>6. \A k, l \in DOMAIN p : p[k].from = Computed /\ p[l].from = Computed => k = l
  BY <1>1, <1>3 DEF Parts
<1> QED
  BY <1>1, <1>4, <1>5, <1>6 DEF Parts, p

\* A section that has no data in the new file.
LEMMA PartsNone ==
  ASSUME exe \in Inputs, NEW n \in Sect, NEW rest, NEW q, Parts(q, n, rest),
         n # InitSection, StaySizes[n] = 0
  PROVE  Parts(q, n + 1, rest)
<1>1. \A s \in Sect : s < n + 1 /\ StaySizes[s] # 0 <=> s < n /\ StaySizes[s] # 0
  BY ExecutableParts
<1>2. InitSection < n + 1 <=> InitSection < n
  BY ExecutableParts
<1> QED
  BY <1>1, <1>2 DEF Parts

\* One that has.
LEMMA PartsData ==
  ASSUME exe \in Inputs, table \in Seq(CellSet),
         NEW n \in Sect, NEW rest, NEW q, Parts(q, n, rest),
         n # InitSection, StaySizes[n] # 0
  PROVE  Parts(Append(q, DataRecord(n)), n + 1, rest)
<1> DEFINE r == DataRecord(n)
           p == Append(q, r)
<1>1. r \in PartSet /\ r.from # Computed
  BY RecordsIn
<1>2. /\ p \in Seq(PartSet) /\ Len(q) \in Nat /\ DOMAIN q = 1 .. Len(q)
      /\ DOMAIN p = 1 .. (Len(q) + 1) /\ p[Len(q) + 1] = r
      /\ \A k \in DOMAIN q : p[k] = q[k]
  BY <1>1, Appended DEF Parts
<1>3. /\ \A s \in Sect : s < n + 1 <=> (s < n \/ s = n)
      /\ InitSection < n + 1 <=> InitSection < n
  BY ExecutableParts
<1> HIDE DEF p, r
<1>4. DOMAIN p = DOMAIN q \cup {Len(q) + 1}
  BY <1>2
<1>5. \A k \in DOMAIN p : p[k].from = Computed => k \in DOMAIN q
  BY <1>1, <1>2, <1>4
<1>6. \A k \in DOMAIN p :
        \/ \E s \in Sect : s < n + 1 /\ StaySizes[s] # 0 /\ p[k] = DataRecord(s)
        \/ InitSection < n + 1 /\ p[k] = TableRecord
        \/ p[k] \in rest
  BY <1>2, <1>3, <1>4 DEF Parts, r
<1>7. ASSUME NEW s \in Sect, s < n + 1, StaySizes[s] # 0
      PROVE  \E k \in DOMAIN p : /\ p[k] = DataRecord(s)
                                 /\ s = InitSection => k + 1 \in DOMAIN p /\ p[k + 1] = TableRecord
  <2>1. CASE s = n
    BY <1>2, <1>4, <2>1 DEF r
  <2>2. CASE s # n
    <3>1. PICK k \in DOMAIN q : /\ q[k] = DataRecord(s)
                                /\ s = InitSection => k + 1 \in DOMAIN q /\ q[k + 1] = TableRecord
      BY <1>3, <1>7, <2>2 DEF Parts
    <3> QED
      BY <1>2, <1>4, <3>1
  <2> QED
    BY <2>1, <2>2
<1>8. \A k, l \in DOMAIN p : p[k].from = Computed /\ p[l].from = Computed => k = l
  BY <1>2, <1>5 DEF Parts
<1> QED
  BY <1>2, <1>6, <1>7, <1>8 DEF Parts, p, r

\* And seg_init, whose data are followed by the table.
LEMMA PartsInit ==
  ASSUME exe \in Inputs, table \in Seq(CellSet),
         NEW n \in Sect, NEW q, Parts(q, n, {}), n = InitSection, StaySizes[n] # 0
  PROVE  Parts(Append(Append(q, DataRecord(n)), TableRecord), n + 1, {})
<1> DEFINE r == DataRecord(n)
           t == TableRecord
           o == Append(q, r)
           p == Append(o, t)
<1>1. r \in PartSet /\ r.from # Computed /\ t \in PartSet
  BY RecordsIn
<1>2. /\ o \in Seq(PartSet) /\ Len(q) \in Nat /\ DOMAIN q = 1 .. Len(q) /\ Len(o) = Len(q) + 1
      /\ DOMAIN o = 1 .. (Len(q) + 1) /\ o[Len(q) + 1] = r
      /\ \A k \in 1 .. Len(q) : o[k] = q[k]
  BY <1>1, Appended DEF Parts
<1>3. /\ p \in Seq(PartSet) /\ DOMAIN p = 1 .. (Len(o) + 1) /\ p[Len(o) + 1] = t
      /\ \A k \in 1 .. Len(o) : p[k] = o[k]
  <2> HIDE DEF o, t
  <2> QED
    BY <1>1, <1>2, Appended
<1>4. /\ \A s \in Sect : s < n + 1 <=> (s < n \/ s = n)
      /\ InitSection < n + 1 /\ ~ (InitSection < n)
  BY ExecutableParts
<1> HIDE DEF o, p, r
<1>5. /\ DOMAIN p = DOMAIN q \cup {Len(q) + 1, Len(q) + 2}
      /\ p[Len(q) + 1] = r /\ p[Len(q) + 2] = t /\ Len(q) + 1 + 1 = Len(q) + 2
      /\ \A k \in DOMAIN q : p[k] = q[k]
  BY <1>2, <1>3, SMTT(30)
<1> HIDE DEF t
<1>6. \A k \in DOMAIN q : q[k].from # Computed
  <2> SUFFICES ASSUME NEW k \in DOMAIN q PROVE q[k].from # Computed
    OBVIOUS
  <2>1. PICK s \in Sect : q[k] = DataRecord(s)
    BY <1>4 DEF Parts
  <2> QED
    BY <2>1, RecordsIn
<1>7. \A k \in DOMAIN p : p[k].from = Computed => k = Len(q) + 2
  BY <1>1, <1>5, <1>6
<1>8. \A k \in DOMAIN p :
        \/ \E s \in Sect : s < n + 1 /\ StaySizes[s] # 0 /\ p[k] = DataRecord(s)
        \/ InitSection < n + 1 /\ p[k] = TableRecord
  BY <1>4, <1>5 DEF Parts, r, t
<1>9. ASSUME NEW s \in Sect, s < n + 1, StaySizes[s] # 0
      PROVE  \E k \in DOMAIN p : /\ p[k] = DataRecord(s)
                                 /\ s = InitSection => k + 1 \in DOMAIN p /\ p[k + 1] = TableRecord
  <2>1. CASE s = n
    BY <1>5, <2>1 DEF r, t
  <2>2. CASE s # n
    <3>1. PICK k \in DOMAIN q : q[k] = DataRecord(s)
      BY <1>4, <1>9, <2>2 DEF Parts
    <3> QED
      BY <1>5, <2>2, <3>1
  <2> QED
    BY <2>1, <2>2
<1>10. \A k, l \in DOMAIN p : p[k].from = Computed /\ p[l].from = Computed => k = l
  BY <1>7
<1> QED
  BY <1>3, <1>8, <1>9, <1>10 DEF Parts, p, o, r, t

\* What the data steps leave alone.
LEMMA SameHeaders ==
  ASSUME HeadersSound, UNCHANGED <<exe, table, s_size, s_scnptr, s_lnnoptr, offsets>>
  PROVE  HeadersSound'
<1>1. /\ UNCHANGED <<Sect, InitSection, OldSymptr>>
  BY SameExecutable
<1>2. /\ UNCHANGED <<FinalDelta, FinalSizes>>
      /\ \A s : /\ FinalData(s)' = FinalData(s) /\ FinalScnptr(s)' = FinalScnptr(s)
                /\ FinalLnnoptr(s)' = FinalLnnoptr(s)
  BY SameTable
<1>3. FinalData(InitSection)' = FinalData(InitSection)
  BY <1>1, <1>2
<1> QED
  BY <1>1, <1>2, <1>3 DEF HeadersSound, offsets

\* What the file consists of is told from the executable and the table.
LEMMA SameParts ==
  ASSUME UNCHANGED <<exe, table>>
  PROVE  \A q, n, rest : Parts(q, n, rest) => Parts(q, n, rest)'
<1>1. UNCHANGED <<Sect, InitSection, StaySizes>>
  BY SameExecutable
<1>2. UNCHANGED TableRecord /\ \A s : DataRecord(s)' = DataRecord(s)
  BY SameTable
<1> SUFFICES ASSUME NEW q, NEW n, NEW rest, Parts(q, n, rest) PROVE Parts(q, n, rest)'
  OBVIOUS
<1>3. \A k \in DOMAIN q :
        \/ \E s \in Sect' : s < n /\ StaySizes'[s] # 0 /\ q[k] = DataRecord(s)'
        \/ InitSection' < n /\ q[k] = TableRecord'
        \/ q[k] \in rest
  BY <1>1, <1>2 DEF Parts
<1>4. \A s \in Sect' : s < n /\ StaySizes'[s] # 0 =>
        \E k \in DOMAIN q :
          /\ q[k] = DataRecord(s)'
          /\ s = InitSection' => k + 1 \in DOMAIN q /\ q[k + 1] = TableRecord'
  BY <1>1, <1>2 DEF Parts
<1>5. /\ q \in Seq(PartSet)
      /\ \A k, l \in DOMAIN q : q[k].from = Computed /\ q[l].from = Computed => k = l
  BY DEF Parts
<1> QED
  BY <1>3, <1>4, <1>5 DEF Parts, PartSet, Computed

\* With the headers written, the data follow.
LEMMA HeadersDoneStep ==
  ASSUME TypeInv, PointerInv, HeadersDone
  PROVE  PointerInv'
<1>1. exe \in Inputs /\ table \in Seq(CellSet) /\ HeadersInv /\ out = <<>> /\ pc = "headers"
  BY DEF TypeInv, PointerInv, HeadersDone
<1>2. /\ Len(sect) \in Nat /\ Sect = 1 .. Len(sect) /\ Behind = Len(sect) + 1 /\ InitSection \in Sect
  BY <1>1, ExecutableParts DEF Behind
<1>3. i > Len(sect) /\ \A s \in Sect : s < i
  BY <1>1, <1>2 DEF HeadersDone, HeadersInv
<1>4. HeadersSound
  BY <1>1, <1>2, <1>3 DEF HeadersInv, HeadersSound
<1>5. UNCHANGED <<exe, table, s_size, s_scnptr, s_lnnoptr, offsets, out>>
  BY DEF HeadersDone, lists, sizes
<1>6. HeadersSound'
  BY <1>4, <1>5, SameHeaders
<1>7. UNCHANGED <<Behind, HeadersSize>> /\ FinalBefore(1)' = 0
  <2>1. FinalBefore(1) = 0
    BY <1>1, FinalParts
  <2> QED
    BY <1>5, <2>1, SameExecutable, SameTable
<1>8. i' = 1 /\ i' \in 1 .. Behind' /\ \A s \in Sect : ~ (s < 1)
  BY <1>2, <1>7 DEF HeadersDone
<1>9. Parts(out, 1, {})
  BY <1>1, <1>2, <1>8 DEF Parts
<1>10. Parts(out, i, {})'
  <2>1. Parts(out, 1, {})'
    BY <1>5, <1>9, SameParts
  <2> QED
    BY <1>8, <2>1
<1>11. Position' = FinalData(i)'
  <2>1. Position' = HeadersSize
    BY <1>1, <1>5, <1>7 DEF Position
  <2>2. FinalData(i)' = HeadersSize + 0
    BY <1>7, <1>8 DEF FinalData
  <2>3. HeadersSize \in Nat
    BY <1>1, SizesParts
  <2> QED
    BY <2>1, <2>2, <2>3
<1>12. DataInv'
  BY <1>6, <1>8, <1>10, <1>11 DEF DataInv
<1> QED
  BY <1>1, <1>12 DEF HeadersDone, PointerInv, Returned, symbols

\* The file is written behind its last part.
LEMMA PositionBehind ==
  ASSUME NEW q \in Seq(PartSet), NEW r \in PartSet, out' = Append(q, r)
  PROVE  Position' = r.at + r.len
<1>1. Append(q, r) # <<>> /\ Append(q, r)[Len(Append(q, r))] = r
  BY Appended
<1> QED
  BY <1>1 DEF Position

\* A section's data are written where its header says.
LEMMA DataStep ==
  ASSUME TypeInv, PointerInv, SectionData
  PROVE  PointerInv'
<1>1. exe \in Inputs /\ table \in Seq(CellSet) /\ DataInv /\ i \in Sect /\ pc = "data"
  BY DEF TypeInv, PointerInv, SectionData
<1>2. /\ Len(sect) \in Nat /\ Sect = 1 .. Len(sect) /\ Behind = Len(sect) + 1 /\ InitSection \in Sect
      /\ \A s \in Sect : IsInit(s) <=> s = InitSection
  BY <1>1, ExecutableParts DEF Behind
<1>3. UNCHANGED <<exe, table, s_size, s_scnptr, s_lnnoptr, offsets>> /\ i' = i + 1
  BY DEF SectionData, lists, sizes
<1>4. HeadersSound /\ HeadersSound'
  BY <1>1, <1>3, SameHeaders DEF DataInv
<1>5. Behind' = Behind /\ i' \in 1 .. Behind' /\ \A s : FinalData(s)' = FinalData(s)
  <2>1. Behind' = Behind /\ \A s : FinalData(s)' = FinalData(s)
    BY <1>3, SameExecutable, SameTable
  <2> QED
    BY <1>1, <1>2, <1>3, <2>1
<1>6. Parts(out, i, {}) /\ out \in Seq(PartSet) /\ Position = FinalData(i)
  BY <1>1 DEF DataInv, Parts
<1>7. /\ OldSize(i) \in Nat /\ StaySizes[i] \in Nat
      /\ StaySizes[i] = IF sect[i].kind = "ram" THEN 0 ELSE OldSize(i)
      /\ FinalSizes[i] = StaySizes[i] + IF i = InitSection THEN PM * Len(table) ELSE 0
      /\ PM * Len(table) \in Nat /\ FinalData(i) \in Nat
      /\ FinalData(i + 1) = FinalData(i) + FinalSizes[i]
  <2>1. i \in 1 .. Behind /\ HeadersSize \in Nat
    BY <1>1, <1>2, SizesParts
  <2>2. /\ OldSize(i) \in Nat /\ StaySizes[i] \in Nat
        /\ StaySizes[i] = IF sect[i].kind = "ram" THEN 0 ELSE OldSize(i)
    BY <1>1, SizesParts
  <2>3. /\ FinalSizes[i] = StaySizes[i] + IF i = InitSection THEN PM * Len(table) ELSE 0
        /\ PM * Len(table) \in Nat /\ FinalBefore(i) \in Nat /\ FinalSizes[i] \in Nat
        /\ FinalBefore(i + 1) = FinalBefore(i) + FinalSizes[i]
    BY <1>1, <2>1, FinalParts
  <2> QED
    BY <2>1, <2>2, <2>3 DEF FinalData
<1>8. i = InitSection => OldSize(i) # 0 /\ StaySizes[i] = OldSize(i)
  BY <1>1, <1>2, <1>7, ExecutableParts, SizesParts DEF IsInit
<1>9. s_size[i] = FinalSizes[i]
  BY <1>1, <1>4 DEF HeadersSound
<1>10. s_size[i] # 0 /\ OldSize(i) # 0 <=> StaySizes[i] # 0
  BY <1>7, <1>8, <1>9
<1>11. /\ DataRecord(i) \in PartSet /\ TableRecord \in PartSet
       /\ DataRecord(i).at = FinalData(i) /\ DataRecord(i).len = OldSize(i)
  BY <1>1, RecordsIn DEF DataRecord
<1>12. StaySizes[i] # 0 => Part(OldScnptr(i), OldSize(i)) = DataRecord(i) /\ StaySizes[i] = OldSize(i)
  BY <1>6, <1>7 DEF Part, DataRecord, OldScnptr
<1>13. Parts(out', i + 1, {}) /\ Position' = FinalData(i + 1)
  <2>1. CASE i = InitSection
    <3> DEFINE copied == Append(out, DataRecord(i))
    <3>1. IsInit(i) /\ StaySizes[i] # 0
      BY <1>1, <1>2, <1>8, <2>1
    <3>2. copied # out /\ copied \in Seq(PartSet)
      BY <1>6, <1>11, Appended
    <3>3. TableRecord = [at |-> Position + OldSize(i), len |-> PM * Len(table), from |-> Computed]
      BY <1>6, <2>1 DEF TableRecord
    <3>4. out' = Append(copied, TableRecord)
      <4>1. out' = Append(copied, [at |-> Position + (IF copied = out THEN 0 ELSE OldSize(i)),
                                   len |-> PM * Len(table), from |-> Computed])
        BY <1>10, <1>12, <3>1 DEF SectionData
      <4> HIDE DEF copied
      <4> QED
        BY <3>2, <3>3, <4>1
    <3>5. Position' = TableRecord.at + TableRecord.len
      <4> HIDE DEF copied
      <4> QED
        BY <1>11, <3>2, <3>4, PositionBehind
    <3>6. TableRecord.at + TableRecord.len = FinalData(i + 1)
      <4>1. TableRecord.at = FinalData(i) + OldSize(i) /\ TableRecord.len = PM * Len(table)
        BY <2>1 DEF TableRecord
      <4> QED
        BY <1>7, <1>8, <2>1, <4>1
    <3>7. Parts(out', i + 1, {})
      BY <1>1, <1>6, <2>1, <3>1, <3>4, PartsInit
    <3> QED
      BY <3>5, <3>6, <3>7
  <2>2. CASE i # InitSection /\ StaySizes[i] # 0
    <3>1. ~ IsInit(i)
      BY <1>1, <1>2, <2>2
    <3>2. out' = Append(out, DataRecord(i))
      BY <1>10, <1>12, <2>2, <3>1 DEF SectionData
    <3>3. Position' = FinalData(i) + OldSize(i)
      BY <1>6, <1>11, <3>2, PositionBehind
    <3>4. FinalData(i) + OldSize(i) = FinalData(i + 1)
      BY <1>7, <1>12, <2>2
    <3>5. Parts(out', i + 1, {})
      BY <1>1, <1>6, <2>2, <3>2, PartsData
    <3> QED
      BY <3>3, <3>4, <3>5
  <2>3. CASE i # InitSection /\ StaySizes[i] = 0
    <3>1. ~ IsInit(i)
      BY <1>1, <1>2, <2>3
    <3>2. out' = out
      BY <1>10, <2>3, <3>1 DEF SectionData
    <3>3. HeadersSize' = HeadersSize
      BY <1>3, SameExecutable
    <3>4. Position' = Position /\ FinalData(i + 1) = FinalData(i)
      BY <1>7, <2>3, <3>2, <3>3 DEF Position
    <3>5. Parts(out, i + 1, {})
      BY <1>1, <1>6, <2>3, PartsNone
    <3> QED
      BY <1>6, <3>2, <3>4, <3>5
  <2> QED
    BY <2>1, <2>2, <2>3
<1>14. Parts(out, i, {})'
  BY <1>3, <1>13, SameParts
<1>15. Position' = FinalData(i)'
  BY <1>3, <1>5, <1>13
<1>16. DataInv'
  BY <1>4, <1>5, <1>14, <1>15 DEF DataInv
<1> QED
  BY <1>1, <1>16 DEF SectionData, PointerInv, Returned, symbols

\* The line entries are copied behind the data.
LEMMA LinesStep ==
  ASSUME TypeInv, PointerInv, LineNumbers
  PROVE  PointerInv'
<1>1. exe \in Inputs /\ table \in Seq(CellSet) /\ DataInv /\ pc = "data"
      /\ aux = FALSE /\ adjust = FALSE /\ moved = {}
  BY DEF TypeInv, PointerInv, LineNumbers
<1>2. /\ Len(sect) \in Nat /\ Sect = 1 .. Len(sect) /\ Behind = Len(sect) + 1
      /\ Len(exe.syms) \in Nat
  BY <1>1, ExecutableParts, ExecutableAssumption DEF Behind
<1>3. i = Behind
  BY <1>1, <1>2 DEF LineNumbers, DataInv
<1>4. UNCHANGED <<exe, table, s_size, s_scnptr, s_lnnoptr, offsets>> /\ i' = 1 /\ UNCHANGED symbols
  BY DEF LineNumbers, lists, sizes
<1>5. HeadersSound'
  BY <1>1, <1>4, SameHeaders DEF DataInv
<1>6. Parts(out, Behind, {}) /\ out \in Seq(PartSet) /\ Position = FinalData(Behind)
  BY <1>1, <1>3 DEF DataInv, Parts
<1>7. LinesRecord \in PartSet /\ LinesRecord.from # Computed
  BY <1>1, RecordsIn
<1>8. out' = Append(out, LinesRecord)
  <2>1. EndOfData = OldLines
    BY <1>1, EndOfDataIs
  <2> QED
    BY <1>6, <2>1 DEF LineNumbers, Part, LinesRecord
<1>9. Parts(out', Behind, {LinesRecord})
  <2>1. Parts(Append(out, LinesRecord), Behind, {} \cup {LinesRecord})
    BY <1>6, <1>7, PartsRest
  <2>2. {} \cup {LinesRecord} = {LinesRecord}
    OBVIOUS
  <2> QED
    BY <1>8, <2>1, <2>2
<1>10. UNCHANGED <<Behind, LinesRecord>>
  BY <1>4, SameExecutable, SameTable
<1>11. Parts(out, Behind, {LinesRecord})'
  BY <1>4, <1>9, <1>10, SameParts
<1>12. out' # <<>> /\ out'[Len(out')] = LinesRecord'
  BY <1>6, <1>7, <1>8, <1>10, Appended
<1>13. ~ (i' > 1) /\ i' \in 1 .. (Len(exe'.syms) + 1)
  BY <1>2, <1>4
<1>14. moved' = MovedUpto(i - 1)'
  <2>1. \A k \in DOMAIN exe'.syms : ~ (k <= i' - 1 /\ k > 1)
    BY <1>2, <1>4
  <2> QED
    BY <1>1, <1>4, <2>1 DEF MovedUpto, symbols
<1>15. SymbolsInv'
  BY <1>1, <1>4, <1>5, <1>11, <1>12, <1>13, <1>14 DEF SymbolsInv, symbols
<1> QED
  BY <1>1, <1>15 DEF LineNumbers, PointerInv, Returned

\* The flags are those of the entry in front, since no two follow each other that
\* set the same one.
LEMMA SymbolStep ==
  ASSUME TypeInv, PointerInv, CopySymbol
  PROVE  PointerInv'
<1> DEFINE n == Len(exe.syms)
<1>1. exe \in Inputs /\ SymbolsInv /\ pc = "symbols" /\ i <= n
  BY DEF TypeInv, PointerInv, CopySymbol
<1>2. /\ n \in Nat /\ DOMAIN exe.syms = 1 .. n
      /\ \A k \in 1 .. n : exe.syms[k].fcn \in BOOLEAN /\ exe.syms[k].numaux \in {0, 1}
      /\ \A k \in 1 .. n : k > 1 =>
            /\ exe.syms[k - 1].numaux = 1 => exe.syms[k].numaux = 0
            /\ exe.syms[k - 1].fcn => ~exe.syms[k].fcn
  <2>1. exe.syms \in Seq([fcn : BOOLEAN, numaux : {0, 1}])
    BY <1>1, ExecutableAssumption
  <2>2. \A k \in DOMAIN exe.syms : k > 1 =>
          /\ exe.syms[k - 1].numaux = 1 => exe.syms[k].numaux = 0
          /\ exe.syms[k - 1].fcn => ~exe.syms[k].fcn
    BY <1>1, ExecutableAssumption
  <2>3. n \in Nat /\ DOMAIN exe.syms = 1 .. n
    BY <2>1
  <2>4. \A k \in 1 .. n : exe.syms[k] \in [fcn : BOOLEAN, numaux : {0, 1}]
    <3> DEFINE V == [fcn : BOOLEAN, numaux : {0, 1}]
               q == exe.syms
    <3> HIDE DEF V
    <3> SUFFICES \A k \in 1 .. Len(q) : q[k] \in V
      BY DEF V
    <3>1. q \in Seq(V)
      BY <2>1 DEF V
    <3> HIDE DEF q
    <3> QED
      BY <3>1
  <2>5. \A k \in 1 .. n : exe.syms[k].fcn \in BOOLEAN /\ exe.syms[k].numaux \in {0, 1}
    <3>1. \A r \in [fcn : BOOLEAN, numaux : {0, 1}] : r.fcn \in BOOLEAN /\ r.numaux \in {0, 1}
      OBVIOUS
    <3> QED
      BY <2>4, <3>1, Zenon
  <2> QED
    BY <2>2, <2>3, <2>5
<1> HIDE DEF n
<1>3. i \in 1 .. n /\ i' = i + 1 /\ (i + 1) - 1 = i /\ i + 1 > 1
  BY <1>1, <1>2 DEF CopySymbol, SymbolsInv, n
<1>4. UNCHANGED <<exe, table, s_size, s_scnptr, s_lnnoptr, offsets, out, inits>>
  BY DEF CopySymbol, lists, sizes
<1>5. HeadersSound'
  BY <1>1, <1>4, SameHeaders DEF SymbolsInv
<1>6. UNCHANGED <<Behind, LinesRecord>>
  BY <1>4, SameExecutable, SameTable
<1>7. Parts(out, Behind, {LinesRecord})'
  BY <1>1, <1>4, <1>6, SameParts DEF SymbolsInv
<1>8. out' # <<>> /\ out'[Len(out')] = LinesRecord'
  BY <1>1, <1>4, <1>6 DEF SymbolsInv
<1>9. aux = (i > 1 /\ exe.syms[i - 1].numaux = 1) /\ adjust = (i > 1 /\ exe.syms[i - 1].fcn)
  BY <1>1 DEF SymbolsInv
<1>10. aux' = (exe.syms[i].numaux = 1)
  <2>1. i > 1 /\ exe.syms[i - 1].numaux = 1 => exe.syms[i].numaux # 1
    BY <1>2, <1>3
  <2>2. aux' = (~aux /\ exe.syms[i].numaux = 1)
    BY DEF CopySymbol
  <2> QED
    BY <1>9, <2>1, <2>2
<1>11. adjust' = exe.syms[i].fcn
  <2>1. i > 1 /\ exe.syms[i - 1].fcn => ~exe.syms[i].fcn
    BY <1>2, <1>3
  <2>2. exe.syms[i].fcn \in BOOLEAN /\ adjust' = (~adjust /\ exe.syms[i].fcn)
    BY <1>2, <1>3 DEF CopySymbol
  <2> QED
    BY <1>9, <2>1, <2>2
<1>12. moved' = MovedUpto(i)
  <2>1. moved = MovedUpto(i - 1) /\ moved' = IF aux /\ adjust THEN moved \cup {i} ELSE moved
    BY <1>1 DEF SymbolsInv, CopySymbol
  <2>2. \A k \in 1 .. n : k <= i <=> (k <= i - 1 \/ k = i)
    BY <1>2, <1>3
  <2>3. aux /\ adjust <=> i > 1 /\ exe.syms[i - 1].fcn /\ exe.syms[i - 1].numaux = 1
    BY <1>9
  <2> QED
    BY <1>2, <1>3, <2>1, <2>2, <2>3 DEF MovedUpto
<1>13. i' \in 1 .. (Len(exe'.syms) + 1)
  BY <1>2, <1>3, <1>4 DEF n
<1>14. /\ aux' = (i' > 1 /\ exe'.syms[i' - 1].numaux = 1)
       /\ adjust' = (i' > 1 /\ exe'.syms[i' - 1].fcn)
  <2>1. exe.syms[i].fcn \in BOOLEAN
    BY <1>2, <1>3
  <2> QED
    BY <1>3, <1>4, <1>10, <1>11, <2>1
<1>15. moved' = MovedUpto(i - 1)'
  <2>1. \A s : MovedUpto(s)' = MovedUpto(s)
    BY <1>4, SameExecutable
  <2> QED
    BY <1>3, <1>12, <2>1
<1>16. SymbolsInv'
  BY <1>5, <1>7, <1>8, <1>13, <1>14, <1>15 DEF SymbolsInv
<1> QED
  BY <1>1, <1>4, <1>16 DEF CopySymbol, PointerInv, Returned

\* The word of ___inits is written over the place of its symbol.
LEMMA PatchStep ==
  ASSUME TypeInv, PointerInv, PatchInits
  PROVE  PointerInv'
<1>1. exe \in Inputs /\ table \in Seq(CellSet) /\ SymbolsInv /\ pc = "symbols"
  BY DEF TypeInv, PointerInv, PatchInits
<1>2. UNCHANGED <<exe, table, s_size, s_scnptr, s_lnnoptr, offsets, moved>>
  BY DEF PatchInits, lists, sizes, symbols
<1>3. HeadersSound /\ HeadersSound'
  BY <1>1, <1>2, SameHeaders DEF SymbolsInv
<1>4. Parts(out, Behind, {LinesRecord}) /\ out \in Seq(PartSet) /\ out # <<>> /\ out[Len(out)] = LinesRecord
  BY <1>1 DEF SymbolsInv, Parts
<1>5. SymbolsRecord \in PartSet /\ SymbolsRecord.from # Computed
  BY <1>1, RecordsIn
<1>6. out' = Append(out, SymbolsRecord)
  <2>1. Position = FinalData(Behind) + Total(Lines)
    BY <1>4 DEF Position, LinesRecord
  <2>2. EndOfData = OldLines
    BY <1>1, EndOfDataIs
  <2> QED
    BY <2>1, <2>2 DEF PatchInits, Part, SymbolsRecord
<1>7. Parts(out', Behind, {LinesRecord, SymbolsRecord})
  <2>1. Parts(Append(out, SymbolsRecord), Behind, {LinesRecord} \cup {SymbolsRecord})
    BY <1>4, <1>5, PartsRest
  <2>2. {LinesRecord} \cup {SymbolsRecord} = {LinesRecord, SymbolsRecord}
    OBVIOUS
  <2> QED
    BY <1>6, <2>1, <2>2
<1>8. UNCHANGED <<Behind, LinesRecord, SymbolsRecord, InitSection, sect>>
      /\ \A s : FinalData(s)' = FinalData(s) /\ OldSize(s)' = OldSize(s)
  BY <1>2, SameExecutable, SameTable
<1>9. Parts(out, Behind, {LinesRecord, SymbolsRecord})'
  BY <1>2, <1>7, <1>8, SameParts
<1>10. /\ Len(out') = Len(out) + 1 /\ Len(out) \in Nat /\ DOMAIN out = 1 .. Len(out)
       /\ out'[Len(out) + 1] = SymbolsRecord
       /\ \A k \in 1 .. Len(out) : out'[k] = out[k]
  BY <1>4, <1>5, <1>6, Appended
<1>11. Len(out') > 1 /\ out'[Len(out') - 1] = LinesRecord' /\ out'[Len(out')] = SymbolsRecord'
  <2>1. Len(out) # 0
    BY <1>4
  <2>2. Len(out) \in 1 .. Len(out) /\ Len(out') - 1 = Len(out)
    BY <1>10, <2>1
  <2> QED
    BY <1>4, <1>8, <1>10, <2>1, <2>2
<1>12. moved' = MovedUpto(Len(exe.syms))'
  <2>1. i - 1 = Len(exe.syms) /\ moved = MovedUpto(i - 1)
    <3>1. Len(exe.syms) \in Nat
      BY <1>1, ExecutableAssumption
    <3> QED
      BY <1>1, <3>1 DEF SymbolsInv, PatchInits
  <2> QED
    BY <1>2, <2>1 DEF MovedUpto
<1>13. inits' = [at |-> FinalData(InitSection) + (exe.inits - sect[InitSection].addr) * PM,
                 value |-> OldSize(InitSection) \div PM + sect[InitSection].addr]
  <2>1. init_section_pointer = FinalData(InitSection)
    BY <1>3 DEF HeadersSound
  <2> QED
    BY <2>1 DEF PatchInits
<1>14. FinalData(InitSection)' = FinalData(InitSection) /\ OldSize(InitSection)' = OldSize(InitSection)
  BY <1>8
<1>15. Whole'
  BY <1>2, <1>3, <1>8, <1>9, <1>11, <1>12, <1>13, <1>14 DEF Whole
<1> QED
  BY <1>15 DEF PatchInits, PointerInv

\* What is written stays.
LEMMA SameWhole ==
  ASSUME Whole, UNCHANGED <<exe, table, sizes, offsets, out, symbols, inits>>
  PROVE  Whole'
<1>1. UNCHANGED <<exe, table, s_size, s_scnptr, s_lnnoptr, offsets>>
  BY DEF sizes
<1>2. UNCHANGED <<Behind, LinesRecord, SymbolsRecord, InitSection, sect>>
      /\ \A s : FinalData(s)' = FinalData(s) /\ OldSize(s)' = OldSize(s)
  BY <1>1, SameExecutable, SameTable
<1>3. FinalData(InitSection)' = FinalData(InitSection) /\ OldSize(InitSection)' = OldSize(InitSection)
  BY <1>2
<1>4. HeadersSound'
  BY <1>1, SameHeaders DEF Whole
<1>5. Parts(out, Behind, {LinesRecord, SymbolsRecord})'
  BY <1>1, <1>2, SameParts DEF Whole
<1>6. moved' = MovedUpto(Len(exe.syms))'
  BY DEF Whole, MovedUpto, symbols
<1> QED
  BY <1>2, <1>3, <1>4, <1>5, <1>6 DEF Whole

\* What main does with the files leaves the parts of the new one alone.
LEMMA MainPointerStep ==
  ASSUME PointerInv,
         CloseOutput \/ UnlinkInput \/ ReopenInput \/ CopyBack \/ Exit \/ Fatal \/ Interrupt
  PROVE  PointerInv'
<1>1. UNCHANGED Rest /\ pc' \in {"reopen", "copy", "exit", "stopped"}
  BY DEF CloseOutput, UnlinkInput, ReopenInput, CopyBack, Exit, Fatal, Interrupt
<1>2. UNCHANGED <<exe, table, sizes, offsets, out, symbols, inits>>
  BY <1>1 DEF Rest, lists
<1>3. Returned' => Whole'
  BY <1>2, SameWhole DEF PointerInv, Returned
<1> QED
  BY <1>1, <1>3 DEF PointerInv

\* Sections that have data in the old file have them apart, and in front of the line
\* entries.
LEMMA OldApart ==
  ASSUME exe \in Inputs, NEW s \in Sect, OldSize(s) # 0
  PROVE  /\ OldData(s) < OldLines
         /\ \A t \in Sect : OldSize(t) # 0 /\ OldData(t) = OldData(s) => t = s
<1>1. Len(sect) \in Nat /\ Sect = 1 .. Len(sect) /\ Behind = Len(sect) + 1
  BY ExecutableParts DEF Behind
<1>2. HeadersSize \in Nat /\ OldLines = HeadersSize + Before(Behind)
  BY SizesParts, BeforeParts
<1>3. ASSUME NEW t \in Sect
      PROVE  OldSize(t) \in Nat /\ Before(t) \in Nat /\ OldData(t) = HeadersSize + Before(t)
  <2>1. t \in 1 .. Behind
    BY <1>1
  <2> QED
    BY <2>1, SizesParts, BeforeParts
<1>4. /\ \A t, u \in Sect : t < u => Before(t) + OldSize(t) <= Before(u)
      /\ Before(s) + OldSize(s) <= Before(Behind)
  BY BeforeParts
<1>5. OldData(s) < OldLines
  <2>1. Behind \in 1 .. Behind
    BY <1>1
  <2>2. Before(Behind) \in Nat
    BY <2>1, BeforeParts
  <2> QED
    BY <1>2, <1>3, <1>4, <2>2
<1>6. ASSUME NEW t \in Sect, OldSize(t) # 0, OldData(t) = OldData(s) PROVE t = s
  <2>1. Before(t) = Before(s) /\ Before(s) \in Nat /\ OldSize(t) \in Nat /\ OldSize(s) \in Nat
    BY <1>2, <1>3, <1>6
  <2>2. ~ (t < s) /\ ~ (s < t)
    BY <1>4, <1>6, <2>1
  <2> QED
    BY <1>1, <2>2
<1> QED
  BY <1>5, <1>6

\* When all is written, the parts are where the pointers say.
LEMMA WholePointers ==
  ASSUME TypeInv, Whole
  PROVE  /\ SectionPointers /\ delta_symptr = Moved /\ LinePointers /\ SymbolPointers
         /\ InitsPatched
<1> DEFINE z == InitSection
           L == Len(out) - 1
           all == {LinesRecord, SymbolsRecord}
<1>1. exe \in Inputs /\ table \in Seq(CellSet) /\ HeadersSound /\ Parts(out, Behind, all)
  BY DEF TypeInv, Whole
<1>2. /\ Len(sect) \in Nat /\ Sect = 1 .. Len(sect) /\ Behind = Len(sect) + 1
      /\ z \in Sect /\ \A s \in Sect : s < Behind /\ (IsInit(s) <=> s = z)
  BY <1>1, ExecutableParts DEF Behind
<1>3. ASSUME NEW s \in Sect
      PROVE  /\ OldSize(s) \in Nat /\ StaySizes[s] \in Nat /\ FinalSizes[s] \in Nat
             /\ StaySizes[s] # 0 => StaySizes[s] = OldSize(s)
             /\ FinalSizes[s] = StaySizes[s] + IF s = z THEN PM * Len(table) ELSE 0
             /\ PM * Len(table) \in Nat
             /\ FinalData(s) \in Nat \ {0} /\ OldData(s) \in Nat \ {0}
  <2>1. s \in 1 .. Behind
    BY <1>2
  <2>2. HeadersSize \in Nat \ {0} /\ FinalBefore(s) \in Nat
    BY <1>1, <2>1, SizesParts, FinalParts
  <2>3. FinalData(s) \in Nat \ {0}
    BY <2>2 DEF FinalData
  <2>4. OldData(s) \in Nat \ {0}
    BY <1>1, LnnoptrIs
  <2>5. /\ OldSize(s) \in Nat /\ StaySizes[s] \in Nat
        /\ StaySizes[s] = IF sect[s].kind = "ram" THEN 0 ELSE OldSize(s)
    BY <1>1, SizesParts
  <2> QED
    BY <1>1, <2>3, <2>4, <2>5, FinalParts
<1>4. StaySizes[z] # 0 /\ StaySizes[z] = OldSize(z)
  <2>1. sect[z].kind = "init" /\ sect[z].words # <<>>
    BY <1>1, <1>2, ExecutableParts DEF IsInit
  <2> QED
    BY <1>1, <1>2, <2>1, SizesParts
<1>5. /\ OldLines \in Nat \ {0} /\ Total(Lines) \in Nat /\ EndOfData = OldLines
      /\ FinalData(Behind) \in Nat /\ FinalDelta = FinalData(Behind) - OldLines
  <2>1. Behind \in 1 .. Behind
    BY <1>2
  <2>2. /\ OldLines = HeadersSize + Before(Behind) /\ Before(Behind) \in Nat
        /\ HeadersSize \in Nat \ {0} /\ FinalBefore(Behind) \in Nat
    BY <1>1, <2>1, BeforeParts, SizesParts, FinalParts
  <2>3. LinesRecord \in PartSet
    BY <1>1, RecordsIn
  <2>4. Total(Lines) \in Nat /\ FinalData(Behind) \in Nat
    BY <2>3 DEF LinesRecord, PartSet
  <2>5. FinalDelta = FinalData(Behind) - OldLines
    BY <2>2 DEF FinalDelta, FinalData
  <2> QED
    BY <1>1, <2>2, <2>4, <2>5, EndOfDataIs
<1>6. ASSUME NEW k \in DOMAIN out
      PROVE  \/ \E s \in Sect : StaySizes[s] # 0 /\ out[k] = DataRecord(s)
             \/ out[k] = TableRecord \/ out[k] = LinesRecord \/ out[k] = SymbolsRecord
  BY <1>1 DEF Parts
<1>7. ASSUME NEW s \in Sect
      PROVE  DataPart(s) = {k \in DOMAIN out : StaySizes[s] # 0 /\ out[k] = DataRecord(s)}
  <2>1. ASSUME NEW k \in DOMAIN out, out[k].from = OldScnptr(s), OldSize(s) # 0
        PROVE  StaySizes[s] # 0 /\ out[k] = DataRecord(s)
    <3>1. out[k].from = OldData(s) /\ OldData(s) < OldLines
      BY <1>1, <2>1, OldApart DEF OldScnptr
    <3>2. out[k] # TableRecord
      BY <1>3, <3>1 DEF TableRecord, Computed
    <3>3. out[k] # LinesRecord /\ out[k] # SymbolsRecord
      BY <1>3, <1>5, <3>1 DEF LinesRecord, SymbolsRecord
    <3>4. PICK t \in Sect : StaySizes[t] # 0 /\ out[k] = DataRecord(t)
      BY <1>6, <3>2, <3>3
    <3>5. OldSize(t) # 0 /\ OldData(t) = OldData(s)
      BY <1>3, <3>1, <3>4 DEF DataRecord
    <3>6. t = s
      BY <1>1, <2>1, <3>5, OldApart
    <3> QED
      BY <3>4, <3>6
  <2>2. ASSUME NEW k \in DOMAIN out, StaySizes[s] # 0, out[k] = DataRecord(s)
        PROVE  out[k].from = OldScnptr(s) /\ OldSize(s) # 0 /\ out[k].len = OldSize(s)
    BY <1>3, <2>2 DEF DataRecord, OldScnptr
  <2> QED
    BY <2>1, <2>2 DEF DataPart
<1>8. \A k \in DOMAIN out : out[k] = TableRecord => TablePart = k
  <2> SUFFICES ASSUME NEW k \in DOMAIN out, out[k] = TableRecord PROVE TablePart = k
    OBVIOUS
  <2>1. out[k].from = Computed
    BY DEF TableRecord
  <2>2. \A l \in DOMAIN out : out[l].from = Computed => l = k
    BY <1>1, <2>1 DEF Parts
  <2> QED
    BY <2>1, <2>2 DEF TablePart
<1>9. ASSUME NEW s \in Sect, StaySizes[s] # 0
      PROVE  \E k \in DOMAIN out :
               /\ out[k] = DataRecord(s)
               /\ s = z => TablePart = k + 1 /\ TablePart \in DOMAIN out /\ out[TablePart] = TableRecord
  <2>1. PICK k \in DOMAIN out : /\ out[k] = DataRecord(s)
                                /\ s = z => k + 1 \in DOMAIN out /\ out[k + 1] = TableRecord
    BY <1>1, <1>2, <1>9 DEF Parts
  <2> QED
    BY <1>8, <2>1
<1>10. TablePart \in DOMAIN out /\ out[TablePart] = TableRecord
  BY <1>2, <1>4, <1>9
<1> HIDE DEF z
<1>11. SectionPointers
  <2> SUFFICES ASSUME NEW s \in Sect
               PROVE  IF s_scnptr[s] = 0 THEN DataPart(s) = {} /\ s_size[s] = 0
                      ELSE \E k \in DataPart(s) :
                             /\ out[k].at = s_scnptr[s]
                             /\ s_size[s] = out[k].len + IF IsInit(s) THEN out[TablePart].len ELSE 0
                             /\ IsInit(s) => TablePart = k + 1
    BY DEF SectionPointers
  <2>1. s_size[s] = FinalSizes[s] /\ s_scnptr[s] = FinalScnptr(s)
    BY <1>1 DEF HeadersSound
  <2>2. CASE StaySizes[s] = 0
    <3>1. s # z /\ FinalSizes[s] = 0
      BY <1>3, <1>4, <2>2
    <3>2. FinalScnptr(s) = 0 /\ DataPart(s) = {}
      BY <1>7, <2>2, <3>1 DEF FinalScnptr
    <3> QED
      BY <2>1, <3>1, <3>2
  <2>3. CASE StaySizes[s] # 0
    <3>1. FinalSizes[s] # 0 /\ FinalScnptr(s) = FinalData(s) /\ FinalData(s) # 0
      BY <1>3, <2>3 DEF FinalScnptr
    <3>2. PICK k \in DOMAIN out : out[k] = DataRecord(s) /\ (s = z => TablePart = k + 1)
      BY <1>9, <2>3
    <3>3. k \in DataPart(s) /\ out[k].at = FinalData(s) /\ out[k].len = OldSize(s)
      BY <1>7, <2>3, <3>2 DEF DataRecord
    <3>4. out[TablePart].len = PM * Len(table)
      BY <1>10 DEF TableRecord
    <3>5. s_size[s] = out[k].len + IF IsInit(s) THEN out[TablePart].len ELSE 0
      BY <1>2, <1>3, <2>1, <2>3, <3>3, <3>4
    <3> QED
      BY <1>2, <2>1, <3>1, <3>2, <3>3, <3>5
  <2> QED
    BY <2>2, <2>3
<1>12. Moved = FinalDelta
  <2> DEFINE k == LinesPart
             IsLines(n) == n > TablePart /\ out[n].from = EndOfData
  <2>1. L \in DOMAIN out /\ IsLines(L)
    <3>1. /\ Len(out) \in Nat /\ DOMAIN out = 1 .. Len(out)
          /\ Len(out) > 1 /\ out[L] = LinesRecord /\ out[Len(out)] = SymbolsRecord
      BY <1>1 DEF Whole, Parts
    <3>2. LinesRecord.from # Computed /\ SymbolsRecord.from # Computed /\ TableRecord.from = Computed
      BY <1>1, RecordsIn
    <3>3. TablePart # L /\ TablePart # Len(out)
      BY <1>10, <3>1, <3>2
    <3>4. LinesRecord.from = EndOfData
      BY <1>5 DEF LinesRecord
    <3> QED
      BY <1>10, <3>1, <3>3, <3>4
  <2>2. k \in DOMAIN out /\ IsLines(k)
    <3> HIDE DEF L
    <3> QED
      BY <2>1 DEF LinesPart
  <2> HIDE DEF k, IsLines
  <2>3. out[k].from = OldLines
    BY <1>5, <2>2 DEF IsLines
  <2>4. out[k] # TableRecord
    BY <1>5, <2>3 DEF TableRecord, Computed
  <2>5. ASSUME NEW s \in Sect, StaySizes[s] # 0 PROVE out[k] # DataRecord(s)
    <3>1. OldData(s) < OldLines
      BY <1>1, <1>3, <2>5, OldApart
    <3> QED
      BY <1>3, <1>5, <2>3, <3>1 DEF DataRecord
  <2>6. CASE out[k] = LinesRecord
    BY <1>5, <2>6 DEF LinesRecord, Moved, k
  <2>7. CASE out[k] = SymbolsRecord
    <3>1. OldLines + Total(Lines) = OldLines
      BY <2>3, <2>7 DEF SymbolsRecord
    <3>2. Total(Lines) = 0
      BY <1>5, <3>1
    <3>3. out[k].at = FinalData(Behind)
      BY <1>5, <2>7, <3>2 DEF SymbolsRecord
    <3> QED
      BY <1>5, <3>3 DEF Moved, k
  <2> QED
    BY <1>6, <2>2, <2>4, <2>5, <2>6, <2>7
<1>13. delta_symptr = Moved /\ LinePointers
  BY <1>1, <1>12 DEF HeadersSound, LinePointers, FinalLnnoptr
<1>14. SymbolPointers
  <2>1. f_symptr = OldSymptr + FinalDelta /\ out[SymbolsPart] = SymbolsRecord
    BY <1>1 DEF HeadersSound, Whole, SymbolsPart
  <2>2. OldSymptr + FinalDelta = FinalData(Behind) + Total(Lines)
    BY <1>5 DEF OldSymptr
  <2>3. moved = {k \in DOMAIN exe.syms : k > 1 /\ exe.syms[k - 1].fcn /\ exe.syms[k - 1].numaux = 1}
    <3>1. \A k \in DOMAIN exe.syms : k <= Len(exe.syms)
      BY <1>1, ExecutableAssumption
    <3> QED
      BY <3>1 DEF Whole, MovedUpto
  <2> QED
    BY <2>1, <2>2, <2>3 DEF SymbolPointers, SymbolsRecord
<1>15. InitsPatched
  <2> DEFINE data == CHOOSE k \in DataPart(z) : TRUE
  <2>1. data \in DataPart(z)
    <3>1. DataPart(z) # {}
      BY <1>2, <1>4, <1>7, <1>9
    <3> QED
      BY <3>1
  <2> HIDE DEF data
  <2>2. out[data].at = FinalData(z)
    <3>1. out[data] = DataRecord(z)
      BY <1>2, <1>7, <2>1
    <3> QED
      BY <3>1 DEF DataRecord
  <2>3. out[TablePart].at = FinalData(z) + OldSize(z)
    BY <1>10 DEF TableRecord, z
  <2>4. out[TablePart].at - out[data].at = OldSize(z)
    BY <1>2, <1>3, <2>2, <2>3
  <2>5. sect[z].addr \in Nat /\ OldSize(z) \div PM \in Nat
    <3>1. PM \in Nat \ {0} /\ OldSize(z) \in Nat
      BY <1>2, <1>3, InitListAssumption
    <3>2. OldSize(z) \div PM \in Nat
      BY <3>1, DivParts
    <3> QED
      BY <1>1, <1>2, <3>2, ExecutableParts
  <2>6. /\ inits.at = FinalData(z) + (exe.inits - sect[z].addr) * PM
        /\ inits.value = OldSize(z) \div PM + sect[z].addr
    BY DEF Whole, z
  <2>7. /\ inits.at = out[data].at + (exe.inits - sect[z].addr) * PM
        /\ inits.value = sect[z].addr + (out[TablePart].at - out[data].at) \div PM
    <3>1. OldSize(z) \div PM + sect[z].addr = sect[z].addr + OldSize(z) \div PM
      BY <2>5
    <3> QED
      BY <2>2, <2>4, <2>6, <3>1
  <2> QED
    BY <2>7 DEF InitsPatched, z, data
<1> QED
  BY <1>11, <1>13, <1>14, <1>15

\* A step that touches nothing of the new file keeps its pointers.
LEMMA SamePointers ==
  ASSUME PointerInv, UNCHANGED <<pc, i, exe, table, sizes, offsets, out, symbols, inits>>
  PROVE  PointerInv'
<1>1. UNCHANGED <<exe, table, s_size, s_scnptr, s_lnnoptr, delta, offsets>>
  BY DEF sizes
<1>2. /\ UNCHANGED <<Behind, Sect, InitSection, HeadersSize, OldSymptr, StaySizes>>
      /\ \A s : /\ Before(s)' = Before(s) /\ StayBefore(s)' = StayBefore(s)
                /\ OldSize(s)' = OldSize(s) /\ OldScnptr(s)' = OldScnptr(s)
                /\ StayScnptr(s)' = StayScnptr(s) /\ OldLnnoptr(s)' = OldLnnoptr(s)
                /\ MovedUpto(s)' = MovedUpto(s)
  BY <1>1, SameExecutable
<1>3. /\ UNCHANGED <<FinalDelta, FinalSizes, LinesRecord>>
      /\ \A s : /\ FinalBefore(s)' = FinalBefore(s) /\ FinalData(s)' = FinalData(s)
                /\ FinalScnptr(s)' = FinalScnptr(s) /\ FinalLnnoptr(s)' = FinalLnnoptr(s)
  BY <1>1, SameTable
<1>4. FinalData(InitSection)' = FinalData(InitSection)
  BY <1>2, <1>3
<1>5. ScanInv => ScanInv'
  BY <1>1, <1>2 DEF ScanInv, offsets
<1>6. HeadersInv => HeadersInv'
  BY <1>1, <1>2, <1>3, <1>4 DEF HeadersInv, offsets
<1>7. DataInv => DataInv'
  <2> SUFFICES ASSUME DataInv PROVE DataInv'
    OBVIOUS
  <2>1. HeadersSound' /\ Parts(out, i, {})'
    BY <1>1, SameHeaders, SameParts DEF DataInv
  <2>2. Position' = Position
    BY <1>2 DEF Position
  <2>3. i' \in 1 .. Behind' /\ Position' = FinalData(i)'
    BY <1>2, <1>3, <2>2 DEF DataInv
  <2> QED
    BY <2>1, <2>3 DEF DataInv
<1>8. SymbolsInv => SymbolsInv'
  <2> SUFFICES ASSUME SymbolsInv PROVE SymbolsInv'
    OBVIOUS
  <2>1. HeadersSound' /\ Parts(out, Behind, {LinesRecord})'
    BY <1>1, <1>2, <1>3, SameHeaders, SameParts DEF SymbolsInv
  <2>2. moved' = MovedUpto(i - 1)'
    BY <1>2 DEF SymbolsInv, symbols
  <2> QED
    BY <1>3, <2>1, <2>2 DEF SymbolsInv, symbols
<1>9. Whole => Whole'
  BY SameWhole
<1> QED
  BY <1>5, <1>6, <1>7, <1>8, <1>9 DEF PointerInv, Returned, symbols

\* Every step keeps the pointers, if a section stands in front of seg_init.
LEMMA NextPointerInv ==
  ASSUME HeaderFirst, FileInv, TypeInv, TypeInv', PointerInv, [Next]_vars
  PROVE  PointerInv'
<1>1. CASE MakeStandalone
  BY <1>1, ScanStep, CleanListStep, HeaderStep, HeadersDoneStep, DataStep, LinesStep, SymbolStep, PatchStep
     DEF MakeStandalone
<1>2. CASE CloseOutput \/ UnlinkInput \/ ReopenInput \/ CopyBack \/ Exit \/ Fatal \/ Interrupt
  BY <1>2, MainPointerStep
<1>3. CASE UNCHANGED vars
  BY <1>3, SamePointers DEF vars, lists
<1> QED
  BY <1>1, <1>2, <1>3 DEF Next

\* The invariants hold at the start.
LEMMA InitStandalone == Init => FileInv /\ TypeInv /\ PointerInv
BY InitFileInv, InitTypeInv, InitPointerInv

\* And every step keeps them.
LEMMA NextStandalone ==
  ASSUME HeaderFirst
  PROVE  (FileInv /\ TypeInv /\ PointerInv) /\ [Next]_vars => (FileInv /\ TypeInv /\ PointerInv)'
<1> SUFFICES ASSUME FileInv, TypeInv, PointerInv, [Next]_vars
             PROVE  FileInv' /\ TypeInv' /\ PointerInv'
  OBVIOUS
<1>1. FileInv' /\ TypeInv'
  BY NextFileInv, NextTypeInv
<1> QED
  BY <1>1, NextPointerInv

\* Of the finished file they say that its pointers are true and ___inits leads to
\* the table.
LEMMA PointersHold == TypeInv /\ PointerInv => PointersTrue /\ InitsPatched
<1> SUFFICES ASSUME TypeInv, PointerInv PROVE PointersTrue /\ InitsPatched
  OBVIOUS
<1>1. CASE Returned
  BY <1>1, WholePointers DEF PointerInv, PointersTrue
<1>2. CASE ~ Returned
  BY <1>2 DEF PointersTrue, InitsPatched
<1> QED
  BY <1>1, <1>2

\* Whatever RAM, code and symbols the executable has, if a section in front of seg_init
\* stays in the file, every pointer in the output - of a section to its data and line
\* entries, of the file header to the symbols, of a function to its first line entry -
\* points to what it pointed to in the input: the corrections that make_standalone sums
\* up before it writes are those by which each part moves when it is written.
THEOREM PointersKept ==
  ASSUME HeaderFirst PROVE Spec => []PointersTrue
<1>1. FileInv /\ TypeInv /\ PointerInv /\ [Next]_vars => (FileInv /\ TypeInv /\ PointerInv)'
  BY NextStandalone
<1> QED
  BY <1>1, InitStandalone, PointersHold, PTL DEF Spec

\* Under the same condition the word ___inits of seg_init, wherever it is in the
\* section, holds the address at which the start-up code finds the table.
THEOREM TableFound ==
  ASSUME HeaderFirst PROVE Spec => []InitsPatched
<1>1. FileInv /\ TypeInv /\ PointerInv /\ [Next]_vars => (FileInv /\ TypeInv /\ PointerInv)'
  BY NextStandalone
<1> QED
  BY <1>1, InitStandalone, PointersHold, PTL DEF Spec

-----------------------------------------------------------------------------
(* What the table holds.                                                   *)

\* The words of a section, and those of the sections of RAM that belong to a memory,
\* up to the n-th.
RamWords(s)   == {<<sect[s].addr + n - 1, sect[s].words[n]>> : n \in 1 .. Len(sect[s].words)}
RamUpto(m, n) == UNION {RamWords(s) : s \in {k \in Sect : k <= n /\ sect[k].kind = "ram" /\ MemoryOf(k) = m}}

CountsSuffice == \A m \in Memory : Suffices(init_base[m])

\* The lists hold the words of the sections that were scanned; then the table does.
TableInv ==
  /\ pc = "scan" =>
       /\ i \in 1 .. Behind
       /\ \A s \in Sect : s >= i => s_size[s] = OldSize(s)
       /\ \A m \in Memory : Cover(init_base[m]) = RamUpto(m, i - 1)
  /\ CountsSuffice => Restored

\* Before the scan nothing is in the lists.
LEMMA InitTableInv == Init => TableInv
<1> SUFFICES ASSUME Init PROVE TableInv
  OBVIOUS
<1>1. exe \in Inputs /\ pc = "scan" /\ i = 1
  BY DEF Init
<1>2. Len(sect) \in Nat /\ Sect = 1 .. Len(sect)
  BY <1>1, ExecutableParts
<1>3. i \in 1 .. Behind
  BY <1>1, <1>2 DEF Behind
<1>4. \A s \in Sect : s_size[s] = OldSize(s)
  BY DEF Init
<1>5. ASSUME NEW m \in Memory PROVE Cover(init_base[m]) = RamUpto(m, i - 1)
  <2>1. init_base[m] = <<>>
    BY DEF Init
  <2>2. {k \in Sect : k <= i - 1 /\ sect[k].kind = "ram" /\ MemoryOf(k) = m} = {}
    BY <1>1, <1>2
  <2> QED
    BY <2>1, <2>2 DEF Cover, RamUpto
<1>6. Restored
  BY <1>1 DEF Restored
<1> QED
  BY <1>3, <1>4, <1>5, <1>6 DEF TableInv

\* What the executable alone says of RAM.
LEMMA SameRam ==
  ASSUME UNCHANGED exe
  PROVE  \A m : RamOf(m)' = RamOf(m) /\ \A n : RamUpto(m, n)' = RamUpto(m, n)
<1>1. sect' = sect /\ Sect' = Sect
  BY DEF sect, Sect
<1>2. \A s : MemoryOf(s)' = MemoryOf(s) /\ RamWords(s)' = RamWords(s)
  BY <1>1 DEF MemoryOf, RamWords
<1> QED
  BY <1>1, <1>2 DEF RamOf, RamUpto

\* A section that leaves the file puts its words on a list (create_init_list).
LEMMA ScanTable ==
  ASSUME TypeInv, TableInv, Scan
  PROVE  TableInv'
<1>1. exe \in Inputs /\ pc = "scan" /\ pc' = "scan" /\ i \in Sect /\ i' = i + 1 /\ exe' = exe
  BY DEF TypeInv, Scan
<1>2. Len(sect) \in Nat /\ Sect = 1 .. Len(sect) /\ Behind = Len(sect) + 1
  BY <1>1, ExecutableParts DEF Behind
<1>3. /\ UNCHANGED <<Sect, Behind>> /\ \A s : OldSize(s)' = OldSize(s)
      /\ \A m, n : RamUpto(m, n)' = RamUpto(m, n)
  BY <1>1, SameExecutable, SameRam
<1>4. s_size[i] = OldSize(i) /\ \A s \in Sect : s > i => s_size[s] = OldSize(s)
  BY <1>1, <1>2 DEF TableInv
<1>5. ASSUME NEW m \in Memory
      PROVE  RamUpto(m, i) = RamUpto(m, i - 1)
                               \cup IF sect[i].kind = "ram" /\ MemoryOf(i) = m THEN RamWords(i) ELSE {}
  <2>1. {k \in Sect : k <= i /\ sect[k].kind = "ram" /\ MemoryOf(k) = m} =
          {k \in Sect : k <= i - 1 /\ sect[k].kind = "ram" /\ MemoryOf(k) = m}
            \cup IF sect[i].kind = "ram" /\ MemoryOf(i) = m THEN {i} ELSE {}
    <3>1. \A k \in Sect : k <= i <=> (k <= i - 1 \/ k = i)
      BY <1>1, <1>2
    <3>2. ~ (i <= i - 1)
      BY <1>1, <1>2
    <3> QED
      BY <1>1, <3>1, <3>2
  <2> QED
    BY <2>1 DEF RamUpto
<1>6. \A s \in Sect : s >= i + 1 => s_size'[s] = OldSize(s)
  <2>1. \A s \in Sect : s >= i + 1 => s # i /\ s_size[s] = OldSize(s)
    BY <1>1, <1>2, <1>4
  <2>2. CASE sect[i].kind = "ram" /\ s_size[i] # 0
    <3>1. s_size' = [s_size EXCEPT ![i] = 0]
      BY <2>2 DEF Scan, ToInitList
    <3> QED
      BY <2>1, <3>1 DEF TypeInv
  <2>3. CASE ~ (sect[i].kind = "ram" /\ s_size[i] # 0)
    <3>1. s_size' = s_size
      BY <2>3 DEF Scan
    <3> QED
      BY <2>1, <3>1
  <2> QED
    BY <2>2, <2>3
<1>7. ASSUME NEW m \in Memory PROVE Cover(init_base'[m]) = RamUpto(m, i)
  <2>1. Cover(init_base[m]) = RamUpto(m, i - 1) /\ init_base[m] \in Seq(RunSet)
        /\ DOMAIN init_base = Memory
    BY <1>1 DEF TableInv, TypeInv
  <2>2. CASE sect[i].kind = "ram" /\ s_size[i] # 0
    <3> DEFINE longer(q) == CreateInitList(q, sect[i].addr, sect[i].words)
    <3>1. init_base' = [init_base EXCEPT ![MemoryOf(i)] = longer(init_base[MemoryOf(i)])]
      BY <2>2 DEF Scan, ToInitList
    <3>2. sect[i].addr \in Nat /\ sect[i].words \in Seq(Nat)
      BY <1>1, ExecutableParts
    <3>3. Cover(longer(init_base[m])) = Cover(init_base[m]) \cup RamWords(i)
      BY <2>1, <3>2, Created DEF RamWords
    <3> HIDE DEF longer
    <3>4. CASE MemoryOf(i) = m
      <4>1. init_base'[m] = longer(init_base[m])
        BY <2>1, <3>1, <3>4
      <4> QED
        BY <1>5, <2>1, <2>2, <3>3, <3>4, <4>1
    <3>5. CASE MemoryOf(i) # m
      <4>1. init_base'[m] = init_base[m]
        BY <2>1, <3>1, <3>5
      <4> QED
        BY <1>5, <2>1, <3>5, <4>1
    <3> QED
      BY <3>4, <3>5
  <2>3. CASE ~ (sect[i].kind = "ram" /\ s_size[i] # 0)
    <3>1. init_base' = init_base
      BY <2>3 DEF Scan
    <3>2. sect[i].kind = "ram" => RamWords(i) = {}
      <4>1. SUFFICES ASSUME sect[i].kind = "ram" PROVE RamWords(i) = {}
        OBVIOUS
      <4>2. sect[i].words = <<>>
        BY <1>1, <1>4, <2>3, <4>1, SizesParts
      <4> QED
        BY <4>2 DEF RamWords
    <3> QED
      BY <1>5, <2>1, <3>1, <3>2
  <2> QED
    BY <2>2, <2>3
<1>8. i \in Nat /\ i + 1 \in 1 .. Behind /\ i' - 1 = i
  BY <1>1, <1>2
<1>9. Restored'
  BY <1>1 DEF Restored
<1>10. /\ i' \in 1 .. Behind'
       /\ \A s \in Sect' : s >= i' => s_size'[s] = OldSize(s)'
  BY <1>1, <1>3, <1>6, <1>8
<1>11. \A m \in Memory : Cover(init_base'[m]) = RamUpto(m, i - 1)'
  <2>1. (i - 1)' = i
    BY <1>8
  <2>2. \A m : RamUpto(m, i - 1)' = RamUpto(m, i)
    BY <1>3, <2>1 DEF RamUpto
  <2> QED
    BY <1>7, <2>2
<1> QED
  BY <1>9, <1>10, <1>11 DEF TableInv

\* The table made of the lists gives RAM back.
LEMMA CleanListTable ==
  ASSUME TypeInv, TypeInv', TableInv, CleanList
  PROVE  TableInv'
<1>1. exe \in Inputs /\ pc = "scan" /\ pc' = "headers" /\ i > Len(sect) /\ exe' = exe
  BY DEF TypeInv, CleanList
<1>2. Len(sect) \in Nat /\ Sect = 1 .. Len(sect) /\ Behind = Len(sect) + 1
  BY <1>1, ExecutableParts DEF Behind
<1>3. ASSUME NEW m \in Memory PROVE Cover(init_base[m]) = RamOf(m)
  <2>1. Cover(init_base[m]) = RamUpto(m, i - 1) /\ i \in 1 .. Behind
    BY <1>1 DEF TableInv
  <2>2. \A k \in Sect : k <= i - 1
    BY <1>1, <1>2, <2>1
  <2>3. RamUpto(m, i - 1) = RamOf(m)
    BY <2>2 DEF RamUpto, RamOf, RamWords
  <2> QED
    BY <2>1, <2>3
<1>4. ASSUME NEW m \in Memory
      PROVE  /\ init_base'[m] \in Seq(RunSet) /\ zeros'[m] \in Seq(ZeroSet)
             /\ Cover(zeros'[m]) \cup Cover(init_base'[m]) = RamOf(m)'
  <2>1. init_base[m] \in Seq(RunSet)
    BY DEF TypeInv
  <2>2. init_base'[m] = Kept(init_base[m]) /\ zeros'[m] = Zeros(init_base[m])
    BY DEF CleanList
  <2>3. /\ Kept(init_base[m]) \in Seq(RunSet) /\ Zeros(init_base[m]) \in Seq(ZeroSet)
        /\ Cover(Kept(init_base[m])) \cup Cover(Zeros(init_base[m])) = Cover(init_base[m])
    BY <2>1, Cleaned
  <2>4. RamOf(m)' = RamOf(m)
    BY <1>1, SameRam
  <2> QED
    BY <1>3, <2>2, <2>3, <2>4
<1>5. ASSUME CountsSuffice' PROVE Loaded(table)' = [m \in Memory |-> RamOf(m)]'
  <2> DEFINE zd == zeros'["dm"]
             zp == zeros'["pm"]
             kd == init_base'["dm"]
             kp == init_base'["pm"]
             t == table'
  <2>1. "dm" \in Memory /\ "pm" \in Memory /\ Memory = {"dm", "pm"}
    BY DEF Memory
  <2>2. /\ zd \in Seq(ZeroSet) /\ zp \in Seq(ZeroSet) /\ kd \in Seq(RunSet) /\ kp \in Seq(RunSet)
        /\ Cover(zd) \cup Cover(kd) = RamOf("dm")' /\ Cover(zp) \cup Cover(kp) = RamOf("pm")'
    BY <1>4, <2>1
  <2>3. Suffices(kd) /\ Suffices(kp)
    BY <1>5, <2>1 DEF CountsSuffice
  <2>4. t = ZeroTable(zd) \o ZeroTable(zp) \o CreateString(kd) \o CreateString(kp)
    BY DEF CleanList
  <2> HIDE DEF zd, zp, kd, kp, t
  <2>5. Loaded(t) = [dm |-> Cover(zd) \cup Cover(kd), pm |-> Cover(zp) \cup Cover(kp)]
    <3>1. zd \in Seq(ZeroSet) /\ zp \in Seq(ZeroSet) /\ kd \in Seq(RunSet) /\ kp \in Seq(RunSet)
      BY <2>2
    <3>2. Loaded(ZeroTable(zd) \o ZeroTable(zp) \o CreateString(kd) \o CreateString(kp)) =
            [dm |-> Cover(zd) \cup Cover(kd), pm |-> Cover(zp) \cup Cover(kp)]
      BY <2>3, <3>1, TableRead
    <3> QED
      BY <2>4, <3>2
  <2>6. Loaded(t) = [m \in Memory |-> RamOf(m)']
    <3> DEFINE d == RamOf("dm")'
               p == RamOf("pm")'
               f == [m \in Memory |-> RamOf(m)']
    <3>1. f["dm"] = d /\ f["pm"] = p
      BY <2>1
    <3>2. f = [m \in {"dm", "pm"} |-> f[m]]
      BY <2>1
    <3>3. Loaded(t) = [dm |-> d, pm |-> p]
      BY <2>2, <2>5
    <3> HIDE DEF d, p, f
    <3>4. f = [dm |-> d, pm |-> p]
      BY <3>1, <3>2
    <3> QED
      BY <3>3, <3>4 DEF f
  <2> QED
    BY <2>6 DEF t
<1>6. CountsSuffice' => Restored'
  BY <1>5 DEF Restored
<1> QED
  BY <1>1, <1>6 DEF TableInv

\* No step behind CleanList changes what the table was made of, or the table.
LEMMA SameTableInv ==
  ASSUME TableInv, UNCHANGED <<exe, init_base, table>>, pc' # "scan",
         pc \in {"scan", "stopped"} => pc' = "stopped"
  PROVE  TableInv'
<1>1. ASSUME CountsSuffice' PROVE Restored'
  <2>1. CountsSuffice
    BY <1>1 DEF CountsSuffice
  <2>2. CASE pc' = "stopped"
    BY <2>2 DEF Restored
  <2>3. CASE pc' # "stopped" /\ pc # "stopped"
    <3>1. Loaded(table) = [m \in Memory |-> RamOf(m)]
      BY <2>1, <2>3 DEF TableInv, Restored
    <3>2. \A m : RamOf(m)' = RamOf(m)
      BY SameRam
    <3> QED
      BY <3>1, <3>2 DEF Restored, Loaded
  <2> QED
    BY <2>2, <2>3
<1> QED
  BY <1>1 DEF TableInv

\* Every step keeps the table and what it was made from.
LEMMA NextTableInv ==
  ASSUME TypeInv, TypeInv', TableInv, [Next]_vars
  PROVE  TableInv'
<1>1. CASE Scan
  BY <1>1, ScanTable
<1>2. CASE CleanList
  BY <1>2, CleanListTable
<1>3. CASE SectionHeader \/ HeadersDone \/ SectionData \/ LineNumbers \/ CopySymbol \/ PatchInits
  <2>1. UNCHANGED <<exe, init_base, table>> /\ pc # "scan" /\ pc # "stopped" /\ pc' # "scan"
    BY <1>3 DEF SectionHeader, HeadersDone, SectionData, LineNumbers, CopySymbol, PatchInits, lists
  <2> QED
    BY <2>1, SameTableInv
<1>4. CASE CloseOutput \/ UnlinkInput \/ ReopenInput \/ CopyBack \/ Exit
  <2>1. UNCHANGED <<exe, init_base, table>> /\ pc # "scan" /\ pc # "stopped" /\ pc' # "scan"
    BY <1>4 DEF CloseOutput, UnlinkInput, ReopenInput, CopyBack, Exit, Rest, lists
  <2> QED
    BY <2>1, SameTableInv
<1>5. CASE Fatal \/ Interrupt
  <2>1. UNCHANGED <<exe, init_base, table>> /\ pc' = "stopped"
    BY <1>5 DEF Fatal, Interrupt, Rest, lists
  <2> QED
    BY <2>1, SameTableInv
<1>6. CASE UNCHANGED vars
  <2>1. UNCHANGED <<pc, i, exe, init_base, table, s_size>>
    BY <1>6 DEF vars, lists, sizes
  <2>2. CASE pc = "scan"
    <3>1. /\ \A s : OldSize(s)' = OldSize(s) /\ \A m, n : RamUpto(m, n)' = RamUpto(m, n)
          /\ Sect' = Sect /\ Behind' = Behind
      BY <2>1, SameExecutable, SameRam
    <3>2. \A m : RamUpto(m, i - 1)' = RamUpto(m, i - 1)
      BY <2>1, <3>1 DEF RamUpto
    <3>3. Restored'
      BY <2>1, <2>2 DEF Restored
    <3> QED
      BY <2>1, <2>2, <3>1, <3>2, <3>3 DEF TableInv
  <2>3. CASE pc # "scan"
    BY <2>1, <2>3, SameTableInv
  <2> QED
    BY <2>2, <2>3
<1> QED
  BY <1>1, <1>2, <1>3, <1>4, <1>5, <1>6 DEF Next, MakeStandalone

\* Whatever the sections of RAM hold, the table that mem21k makes gives every word of
\* them back to the start-up code, in its memory, and no other word a value, as long as
\* the words of a block can be counted by an unsigned short.
THEOREM TableRestores == Spec => [](CountsSuffice => Restored)
<1>1. Init => TypeInv /\ TableInv
  BY InitTypeInv, InitTableInv
<1>2. TypeInv /\ TableInv /\ [Next]_vars => (TypeInv /\ TableInv)'
  BY NextTypeInv, NextTableInv
<1>3. TableInv => (CountsSuffice => Restored)
  BY DEF TableInv
<1> QED
  BY <1>1, <1>2, <1>3, PTL DEF Spec
=============================================================================
