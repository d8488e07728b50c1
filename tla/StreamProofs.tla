---------------------------- MODULE StreamProofs ----------------------------
(***************************************************************************)
(* Whatever the sizes of the pieces in which a connection delivers its     *)
(* bytes, the readers of Stream take out what the senders put in.          *)
(***************************************************************************)
EXTENDS Stream, SequenceTheorems, FiniteSetTheorems, TLAPS

-----------------------------------------------------------------------------
(* Recursion and concatenation *)

\* A set that holds 0 and the successors of its members holds every number.
LEMMA NatInductionSet ==
    ASSUME NEW S, 0 \in S, \A n \in Nat : n \in S => n + 1 \in S
    PROVE  Nat \subseteq S
<1> DEFINE R == {p \in Nat \X Nat : p[1] < p[2]}
           T == Nat \ S
<1>1. SUFFICES ASSUME T # {} PROVE FALSE
  OBVIOUS
<1>2. PICK x \in T : \A y \in T : ~(<<y, x>> \in R)
  <2>1. IsWellFoundedOn(R, Nat)
    BY NatLessThanWellFounded DEF OpToRel
  <2>2. T \subseteq Nat
    OBVIOUS
  <2> HIDE DEF R, T
  <2> QED BY <1>1, <2>1, <2>2, WFMin, Zenon
<1>3. x - 1 \in Nat
  BY <1>2
<1>4. <<x - 1, x>> \in R
  BY <1>2, <1>3
<1>5. x - 1 \in S
  BY <1>2, <1>3, <1>4
<1>6. (x - 1) + 1 = x
  BY <1>2
<1> QED BY <1>2, <1>3, <1>5, <1>6

\* The loops of the readers, one round further.
Turn(kind, arg, s, n) ==
    CASE kind = "flatten" -> s \o arg[n]
      [] kind = "loop" -> Again(arg, s)
      [] kind = "array" -> BulkString(arg, s)
      [] kind = "number" -> 10 * s + DigitValue(arg[n])
      [] kind = "quoted" -> QuotedSymbol(s)
      [] kind = "tokens" -> NextToken(s)
      [] kind = "values" -> Element(arg[1], arg[2], arg[3], s, n)

\* f[n] is the loop's state after n rounds.
Runs(f, kind, arg, start, N) ==
    f = [n \in 0 .. N |-> IF n = 0 THEN start ELSE Turn(kind, arg, f[n - 1], n)]

\* Every loop has its states.
LEMMA RunsExist ==
    ASSUME NEW kind, NEW arg, NEW start, NEW N \in Nat
    PROVE  \E f : Runs(f, kind, arg, start, N)
<1> DEFINE S == {n \in Nat : \E f : Runs(f, kind, arg, start, n)}
<1>1. 0 \in S
  <2> DEFINE f == [n \in 0 .. 0 |-> start]
  <2>1. f = [n \in 0 .. 0 |-> IF n = 0 THEN start ELSE Turn(kind, arg, f[n - 1], n)]
    OBVIOUS
  <2> QED BY <2>1, Zenon DEF Runs
<1>2. ASSUME NEW n \in Nat, n \in S PROVE n + 1 \in S
  <2>1. PICK f : Runs(f, kind, arg, start, n)
    BY <1>2
  <2> DEFINE g == [i \in 0 .. n + 1 |-> IF i <= n THEN f[i] ELSE Turn(kind, arg, f[n], n + 1)]
             h == [i \in 0 .. n + 1 |-> IF i = 0 THEN start ELSE Turn(kind, arg, g[i - 1], i)]
  <2>2. ASSUME NEW i \in 0 .. n + 1 PROVE g[i] = h[i]
    <3>1. CASE i = 0
      BY <2>1, <3>1 DEF Runs
    <3>2. CASE i \in 1 .. n
      <4>1. g[i] = f[i] /\ g[i - 1] = f[i - 1]
        BY <3>2
      <4>2. f[i] = Turn(kind, arg, f[i - 1], i)
        BY <2>1, <3>2 DEF Runs
      <4> QED BY <3>2, <4>1, <4>2
    <3>3. CASE i = n + 1
      <4>1. i # 0 /\ ~(i <= n) /\ i - 1 = n /\ n \in 0 .. n + 1 /\ n <= n
        BY <3>3
      <4>2. g[i] = Turn(kind, arg, f[n], n + 1) /\ g[n] = f[n]
        BY <4>1
      <4>3. h[i] = Turn(kind, arg, g[n], n + 1)
        BY <3>3, <4>1
      <4> QED BY <4>2, <4>3
    <3> QED BY <3>1, <3>2, <3>3
  <2>3. g = h
    BY <2>2
  <2>4. Runs(g, kind, arg, start, n + 1)
    BY <2>3 DEF Runs
  <2> QED BY <2>4
<1>3. Nat \subseteq S
  <2> HIDE DEF S
  <2> QED BY <1>1, <1>2, NatInductionSet
<1> QED BY <1>3

\* The states in turn.
LEMMA RunsInTurn ==
    ASSUME NEW f, NEW kind, NEW arg, NEW start, NEW N \in Nat, Runs(f, kind, arg, start, N)
    PROVE  /\ f[0] = start
           /\ \A n \in 0 .. N : n + 1 \in 0 .. N => f[n + 1] = Turn(kind, arg, f[n], n + 1)
<1>1. \A n \in 0 .. N : f[n] = IF n = 0 THEN start ELSE Turn(kind, arg, f[n - 1], n)
  BY DEF Runs
<1>2. 0 \in 0 .. N
  OBVIOUS
<1>3. \A n \in 0 .. N : (n + 1) - 1 = n /\ n + 1 # 0
  OBVIOUS
<1> QED BY <1>1, <1>2, <1>3

\* f[i] is the concatenation of the first i of seqs, sequences of members of S.
Flattens(f, seqs, S) ==
    /\ f[0] = <<>>
    /\ \A i \in 0 .. Len(seqs) : f[i] \in Seq(S)
    /\ \A i \in 1 .. Len(seqs) : f[i] = f[i - 1] \o seqs[i]

\* How FlattenSeq comes about.
LEMMA FlattenRuns ==
    ASSUME NEW S, NEW seqs \in Seq(Seq(S))
    PROVE  \E f : Flattens(f, seqs, S) /\ FlattenSeq(seqs) = f[Len(seqs)]
<1> DEFINE N == Len(seqs)
           P(upto) == upto = [n \in 0 .. N |-> IF n = 0 THEN <<>> ELSE upto[n - 1] \o seqs[n]]
           flatten == CHOOSE upto : P(upto)
<1>1. N \in Nat /\ \A i \in 1 .. N : seqs[i] \in Seq(S)
  BY ElementOfSeq
<1>2. FlattenSeq(seqs) = flatten[N]
  BY Zenon DEF FlattenSeq
<1>3. \E f : P(f)
  <2>1. PICK g : Runs(g, "flatten", seqs, <<>>, N)
    BY <1>1, RunsExist, Zenon
  <2>2. g = [n \in 0 .. N |-> IF n = 0 THEN <<>> ELSE Turn("flatten", seqs, g[n - 1], n)]
    BY <2>1, Zenon DEF Runs
  <2>3. \A s, n : Turn("flatten", seqs, s, n) = s \o seqs[n]
    BY DEF Turn
  <2>4. P(g)
    BY <2>2, <2>3, Zenon
  <2> QED BY <2>4, Zenon
<1> HIDE DEF P
<1>4. P(flatten)
  BY <1>3, Zenon
<1> HIDE DEF flatten
<1>5. flatten[0] = <<>> /\ \A i \in 1 .. N : flatten[i] = flatten[i - 1] \o seqs[i]
  <2>1. \A n \in 0 .. N : flatten[n] = IF n = 0 THEN <<>> ELSE flatten[n - 1] \o seqs[n]
    BY <1>4, Zenon DEF P
  <2>2. 0 \in 0 .. N /\ \A i \in 1 .. N : i \in 0 .. N /\ i # 0
    BY <1>1
  <2> QED BY <2>1, <2>2, Zenon
<1>6. \A i \in 0 .. N : flatten[i] \in Seq(S)
  <2> DEFINE T == {i \in Nat : i \in 0 .. N => flatten[i] \in Seq(S)}
  <2>0. <<>> \in Seq(S) /\ 0 \in Nat
    OBVIOUS
  <2>1. 0 \in T
    BY <1>5, <2>0, Zenon
  <2>2. ASSUME NEW i \in Nat, i \in T PROVE i + 1 \in T
    <3>1. SUFFICES ASSUME i + 1 \in 0 .. N PROVE flatten[i + 1] \in Seq(S)
      OBVIOUS
    <3>2. i \in 0 .. N /\ i + 1 \in 1 .. N /\ (i + 1) - 1 = i
      BY <1>1, <3>1
    <3>3. flatten[i] \in Seq(S) /\ seqs[i + 1] \in Seq(S)
      BY <1>1, <2>2, <3>2
    <3>4. flatten[i + 1] = flatten[i] \o seqs[i + 1]
      BY <1>5, <3>2, Zenon
    <3> QED BY <3>3, <3>4, ConcatProperties
  <2>3. Nat \subseteq T
    <3> HIDE DEF T
    <3> QED BY <2>1, <2>2, NatInductionSet, Zenon
  <2> QED BY <2>3
<1>7. Flattens(flatten, seqs, S)
  BY <1>5, <1>6, Zenon DEF Flattens
<1> QED BY <1>2, <1>7, Zenon

\* The concatenation of a longer sequence.
LEMMA FlattenAppend ==
    ASSUME NEW S, NEW seqs \in Seq(Seq(S)), NEW s \in Seq(S)
    PROVE  /\ FlattenSeq(<<>>) = <<>>
           /\ FlattenSeq(seqs) \in Seq(S)
           /\ FlattenSeq(Append(seqs, s)) = FlattenSeq(seqs) \o s
<1> DEFINE N == Len(seqs)
           more == Append(seqs, s)
<1>1. N \in Nat /\ more \in Seq(Seq(S)) /\ Len(more) = N + 1
      /\ (\A i \in 1 .. N : more[i] = seqs[i]) /\ more[N + 1] = s
  BY AppendProperties
<1>2. FlattenSeq(<<>>) = <<>>
  <2>1. <<>> \in Seq(Seq(S)) /\ Len(<<>>) = 0
    OBVIOUS
  <2>2. PICK f : Flattens(f, <<>>, S) /\ FlattenSeq(<<>>) = f[Len(<<>>)]
    BY <2>1, FlattenRuns, Zenon
  <2> QED BY <2>1, <2>2, Zenon DEF Flattens
<1> HIDE DEF more
<1>3. PICK g : Flattens(g, more, S) /\ FlattenSeq(more) = g[Len(more)]
  BY <1>1, FlattenRuns, Zenon
<1>4. PICK f : Flattens(f, seqs, S) /\ FlattenSeq(seqs) = f[N]
  BY FlattenRuns, Zenon
<1>5. /\ f[0] = <<>> /\ (\A i \in 0 .. N : f[i] \in Seq(S))
      /\ \A i \in 1 .. N : f[i] = f[i - 1] \o seqs[i]
  BY <1>4, Zenon DEF Flattens
<1>6. g[0] = <<>> /\ \A i \in 1 .. N + 1 : g[i] = g[i - 1] \o more[i]
  BY <1>1, <1>3, Zenon DEF Flattens
<1> DEFINE T == {i \in Nat : i \in 0 .. N => f[i] = g[i]}
<1>7. Nat \subseteq T
  <2>1. 0 \in T
    BY <1>5, <1>6
  <2>2. ASSUME NEW i \in Nat, i \in T PROVE i + 1 \in T
    <3>1. SUFFICES ASSUME i + 1 \in 0 .. N PROVE f[i + 1] = g[i + 1]
      OBVIOUS
    <3>2. i \in 0 .. N /\ i + 1 \in 1 .. N /\ i + 1 \in 1 .. N + 1 /\ (i + 1) - 1 = i
      BY <1>1, <3>1
    <3>3. f[i] = g[i] /\ more[i + 1] = seqs[i + 1]
      BY <1>1, <2>2, <3>2
    <3>4. f[i + 1] = f[i] \o seqs[i + 1] /\ g[i + 1] = g[i] \o more[i + 1]
      BY <1>5, <1>6, <3>2, Zenon
    <3> QED BY <3>3, <3>4, Zenon
  <2> HIDE DEF T
  <2> QED BY <2>1, <2>2, NatInductionSet, Zenon
<1>8. N \in 0 .. N /\ N + 1 \in 1 .. N + 1 /\ (N + 1) - 1 = N
  BY <1>1
<1>9. f[N] = g[N]
  BY <1>1, <1>7, <1>8
<1>10. g[N + 1] = g[N] \o s
  BY <1>1, <1>6, <1>8, Zenon
<1>11. FlattenSeq(more) = g[N + 1] /\ FlattenSeq(seqs) \in Seq(S)
  BY <1>1, <1>3, <1>4, <1>5, <1>8, Zenon
<1> QED BY <1>2, <1>4, <1>9, <1>10, <1>11, Zenon DEF more

\* The first n of a row of sequences, end to end.
Flat(f, n) == FlattenSeq([i \in 1 .. n |-> f[i]])

\* One more sequence is appended to those before it.
LEMMA FlatMore ==
    ASSUME NEW S, NEW f, NEW n \in Nat, \A i \in 1 .. n + 1 : f[i] \in Seq(S)
    PROVE  Flat(f, n) \in Seq(S) /\ Flat(f, n + 1) = Flat(f, n) \o f[n + 1]
<1> DEFINE a == [i \in 1 .. n |-> f[i]]
           b == [i \in 1 .. n + 1 |-> f[i]]
           c == Append(a, f[n + 1])
<1>1. \A i \in 1 .. n : i \in 1 .. n + 1
  OBVIOUS
<1>2. a \in Seq(Seq(S)) /\ Len(a) = n
  BY <1>1, IsASeq
<1>3. b \in Seq(Seq(S)) /\ Len(b) = n + 1
  BY IsASeq
<1>4. n + 1 \in 1 .. n + 1 /\ f[n + 1] \in Seq(S)
  OBVIOUS
<1>5. c \in Seq(Seq(S)) /\ Len(c) = n + 1 /\ (\A i \in 1 .. n : c[i] = a[i]) /\ c[n + 1] = f[n + 1]
  <2> HIDE DEF a
  <2> QED BY <1>2, <1>4, AppendProperties
<1>6. \A i \in 1 .. n + 1 : b[i] = c[i]
  <2>1. \A i \in 1 .. n + 1 : i = n + 1 \/ i \in 1 .. n
    OBVIOUS
  <2>2. \A i \in 1 .. n : a[i] = f[i] /\ b[i] = f[i]
    BY <1>1
  <2>3. b[n + 1] = f[n + 1]
    BY <1>4
  <2> HIDE DEF a, b, c
  <2> QED BY <1>5, <2>1, <2>2, <2>3
<1>7. b = c
  <2> HIDE DEF a, b, c
  <2> QED BY <1>3, <1>5, <1>6, SeqEqual
<1>8. FlattenSeq(a) \in Seq(S) /\ FlattenSeq(c) = FlattenSeq(a) \o f[n + 1]
  <2> DEFINE d == f[n + 1]
  <2>1. d \in Seq(S)
    BY <1>4
  <2>2. FlattenSeq(a) \in Seq(S) /\ FlattenSeq(Append(a, d)) = FlattenSeq(a) \o d
    <3> HIDE DEF a, d
    <3> QED BY <1>2, <2>1, FlattenAppend
  <2> QED BY <2>2
<1>9. FlattenSeq(b) = FlattenSeq(a) \o f[n + 1]
  <2> HIDE DEF a, b, c
  <2> QED BY <1>7, <1>8
<1> QED BY <1>8, <1>9, Zenon DEF Flat

\* No sequences, end to end, are empty.
LEMMA FlatNone ==
    ASSUME NEW f
    PROVE  Flat(f, 0) = <<>>
<1>1. [i \in 1 .. 0 |-> f[i]] = <<>>
  OBVIOUS
<1>2. <<>> \in Seq(Seq({})) /\ <<>> \in Seq({})
  OBVIOUS
<1>3. FlattenSeq(<<>>) = <<>>
  BY <1>2, FlattenAppend, Zenon
<1> QED BY <1>1, <1>3, Zenon DEF Flat

-----------------------------------------------------------------------------
(* Where the frames of a stream are *)

\* Frames of bytes of a set, of which a reader makes items of a set.
FramesOf(Symbol, Item) == [bytes : Seq(Symbol), gives : Seq(Item), last : BOOLEAN]

\* The bytes of the first j frames, how many they are, and what is made of them.
Part(frames, j) == BytesOf(SubSeq(frames, 1, j))

Offset(frames, j) == Len(Part(frames, j))

Gives(frames, j) == FlattenSeq([i \in 1 .. j |-> frames[i].gives])

\* The fields of the frames of a stream.
LEMMA FramesTyped ==
    ASSUME NEW Symbol, NEW Item, NEW frames \in Seq(FramesOf(Symbol, Item))
    PROVE  \A j \in 1 .. Len(frames) :
              /\ frames[j].bytes \in Seq(Symbol) /\ frames[j].gives \in Seq(Item)
              /\ frames[j].last \in BOOLEAN
<1>1. \A j \in 1 .. Len(frames) : frames[j] \in FramesOf(Symbol, Item)
  BY ElementOfSeq
<1> QED BY <1>1 DEF FramesOf

\* The frames follow each other.
LEMMA PartsJoin ==
    ASSUME NEW Symbol, NEW Item, NEW frames \in Seq(FramesOf(Symbol, Item))
    PROVE  /\ Part(frames, 0) = <<>> /\ Gives(frames, 0) = <<>>
           /\ Part(frames, Len(frames)) = BytesOf(frames)
           /\ \A j \in 0 .. Len(frames) : Part(frames, j) \in Seq(Symbol)
           /\ \A j \in 0 .. (Len(frames) - 1) :
                 /\ Part(frames, j + 1) = Part(frames, j) \o frames[j + 1].bytes
                 /\ Gives(frames, j + 1) = Gives(frames, j) \o frames[j + 1].gives
<1> DEFINE N == Len(frames)
           f == [i \in 1 .. N |-> frames[i].bytes]
           g == [i \in 1 .. N |-> frames[i].gives]
<1>1. N \in Nat
  OBVIOUS
<1>2. \A i \in 1 .. N : frames[i].bytes \in Seq(Symbol) /\ frames[i].gives \in Seq(Item)
  BY FramesTyped
<1>3. \A i \in 1 .. N : f[i] = frames[i].bytes /\ g[i] = frames[i].gives
  OBVIOUS
<1>4. ASSUME NEW j \in 0 .. N
      PROVE  Part(frames, j) = Flat(f, j) /\ Gives(frames, j) = Flat(g, j)
  <2> DEFINE part == SubSeq(frames, 1, j)
  <2>1. Len(part) = j /\ \A i \in 1 .. j : part[i] = frames[i]
    BY <1>1, <1>4
  <2>2. \A i \in 1 .. j : i \in 1 .. N
    BY <1>1, <1>4
  <2> HIDE DEF N, part
  <2>3. [i \in 1 .. Len(part) |-> part[i].bytes] = [i \in 1 .. j |-> f[i]]
    BY <2>1, <2>2
  <2>4. [i \in 1 .. j |-> frames[i].gives] = [i \in 1 .. j |-> g[i]]
    BY <2>2
  <2> HIDE DEF f, g
  <2>5. Part(frames, j) = FlattenSeq([i \in 1 .. Len(part) |-> part[i].bytes])
    BY Zenon DEF Part, BytesOf, part
  <2>6. Part(frames, j) = Flat(f, j)
    BY <2>3, <2>5, Zenon DEF Flat
  <2>7. Gives(frames, j) = Flat(g, j)
    BY <2>4, Zenon DEF Flat, Gives
  <2> QED BY <2>6, <2>7
<1> HIDE DEF N, f, g
<1>5. Part(frames, 0) = <<>> /\ Gives(frames, 0) = <<>>
  <2>1. 0 \in 0 .. N
    BY <1>1
  <2> QED BY <1>4, <2>1, FlatNone
<1>6. Part(frames, N) = BytesOf(frames)
  <2>1. SubSeq(frames, 1, N) = frames
    BY DEF N
  <2> QED BY <2>1, Zenon DEF Part
<1>7. ASSUME NEW j \in 0 .. (N - 1)
      PROVE  /\ Part(frames, j) \in Seq(Symbol)
             /\ Part(frames, j + 1) = Part(frames, j) \o frames[j + 1].bytes
             /\ Gives(frames, j + 1) = Gives(frames, j) \o frames[j + 1].gives
  <2>1. j \in Nat /\ j \in 0 .. N /\ j + 1 \in 0 .. N /\ j + 1 \in 1 .. N
    BY <1>1
  <2>2. \A i \in 1 .. j + 1 : f[i] \in Seq(Symbol) /\ g[i] \in Seq(Item)
    <3>1. \A i \in 1 .. j + 1 : i \in 1 .. N
      BY <1>1, <2>1
    <3>2. ASSUME NEW i \in 1 .. j + 1 PROVE f[i] \in Seq(Symbol) /\ g[i] \in Seq(Item)
      <4>1. i \in 1 .. N
        BY <3>1
      <4> QED BY <1>2, <1>3, <4>1
    <3> QED BY <3>2
  <2>3. Flat(f, j) \in Seq(Symbol) /\ Flat(f, j + 1) = Flat(f, j) \o f[j + 1]
    BY <2>1, <2>2, FlatMore
  <2>4. Flat(g, j + 1) = Flat(g, j) \o g[j + 1]
    BY <2>1, <2>2, FlatMore
  <2>5. f[j + 1] = frames[j + 1].bytes /\ g[j + 1] = frames[j + 1].gives
    BY <1>3, <2>1
  <2>6. /\ Part(frames, j) = Flat(f, j) /\ Gives(frames, j) = Flat(g, j)
        /\ Part(frames, j + 1) = Flat(f, j + 1) /\ Gives(frames, j + 1) = Flat(g, j + 1)
    BY <1>4, <2>1
  <2> QED BY <2>3, <2>4, <2>5, <2>6
<1>8. ASSUME NEW j \in 0 .. N PROVE Part(frames, j) \in Seq(Symbol)
  <2>1. CASE j \in 0 .. (N - 1)
    BY <1>7, <2>1
  <2>2. CASE j = N /\ N # 0
    <3>1. N - 1 \in 0 .. (N - 1) /\ (N - 1) + 1 = N /\ N \in 1 .. N
      BY <1>1, <2>2
    <3>2. /\ Part(frames, N - 1) \in Seq(Symbol)
          /\ Part(frames, (N - 1) + 1) = Part(frames, N - 1) \o frames[(N - 1) + 1].bytes
      BY <1>7, <3>1, Zenon
    <3>3. Part(frames, N) = Part(frames, N - 1) \o frames[N].bytes
      BY <3>1, <3>2, Zenon
    <3>4. frames[N].bytes \in Seq(Symbol)
      BY <1>2, <3>1
    <3> QED BY <2>2, <3>2, <3>3, <3>4, ConcatProperties
  <2>3. CASE j = 0
    <3>1. <<>> \in Seq(Symbol)
      OBVIOUS
    <3> QED BY <1>5, <2>3, <3>1, Zenon
  <2> QED BY <1>1, <2>1, <2>2, <2>3
<1> QED BY <1>5, <1>6, <1>7, <1>8 DEF N

\* frames are laid end to end, none of them empty.
Laid(frames) ==
    /\ Len(frames) \in Nat
    /\ Offset(frames, 0) = 0
    /\ Offset(frames, Len(frames)) = Len(BytesOf(frames))
    /\ \A j \in 0 .. Len(frames) : Offset(frames, j) \in Nat
    /\ \A j \in 1 .. Len(frames) :
          /\ Len(frames[j].bytes) \in Nat \ {0}
          /\ Offset(frames, j) = Offset(frames, j - 1) + Len(frames[j].bytes)
    /\ \A j, k \in 0 .. Len(frames) : j <= k => Offset(frames, j) + (k - j) <= Offset(frames, k)

\* Frames that are not empty lie one behind the other.
LEMMA FramesLaid ==
    ASSUME NEW Symbol, NEW Item, NEW frames \in Seq(FramesOf(Symbol, Item)),
           \A j \in 1 .. Len(frames) : frames[j].bytes # <<>>
    PROVE  Laid(frames)
<1> DEFINE N == Len(frames)
           off(j) == Offset(frames, j)
<1>1. N \in Nat
  OBVIOUS
<1>2. \A j \in 1 .. N : frames[j].bytes \in Seq(Symbol) /\ Len(frames[j].bytes) \in Nat \ {0}
  <2>1. \A j \in 1 .. N : frames[j].bytes \in Seq(Symbol)
    BY FramesTyped
  <2> QED BY <2>1, EmptySeq, LenProperties
<1>3. off(0) = 0
  BY PartsJoin DEF Offset
<1>4. off(N) = Len(BytesOf(frames))
  BY PartsJoin DEF Offset
<1>5. \A j \in 0 .. N : Part(frames, j) \in Seq(Symbol) /\ off(j) \in Nat
  BY PartsJoin, LenProperties DEF Offset
<1>6. ASSUME NEW j \in 1 .. N PROVE off(j) = off(j - 1) + Len(frames[j].bytes)
  <2>1. j - 1 \in 0 .. (N - 1) /\ (j - 1) + 1 = j /\ j - 1 \in 0 .. N
    BY <1>1
  <2>2. Part(frames, (j - 1) + 1) = Part(frames, j - 1) \o frames[(j - 1) + 1].bytes
    BY <2>1, PartsJoin, Zenon
  <2>3. Part(frames, j) = Part(frames, j - 1) \o frames[j].bytes
    BY <2>1, <2>2, Zenon
  <2> QED BY <1>2, <1>5, <2>1, <2>3, ConcatProperties DEF Offset
<1> HIDE DEF N, off
<1>7. ASSUME NEW j \in 0 .. N, NEW k \in 0 .. N, j <= k PROVE off(j) + (k - j) <= off(k)
  <2> DEFINE S == {i \in Nat : j + i \in 0 .. N => off(j) + i <= off(j + i)}
  <2>1. 0 \in S
    BY <1>1, <1>5
  <2>2. ASSUME NEW i \in Nat, i \in S PROVE i + 1 \in S
    <3>1. SUFFICES ASSUME j + (i + 1) \in 0 .. N PROVE off(j) + (i + 1) <= off(j + (i + 1))
      OBVIOUS
    <3>2. j + i \in 0 .. N /\ j + (i + 1) \in 1 .. N /\ (j + (i + 1)) - 1 = j + i
      BY <1>1, <3>1
    <3>3. off(j) + i <= off(j + i)
      BY <2>2, <3>2
    <3>4. off(j + (i + 1)) = off(j + i) + Len(frames[j + (i + 1)].bytes)
      BY <1>6, <3>2
    <3>5. Len(frames[j + (i + 1)].bytes) \in Nat \ {0}
      BY <1>2, <3>2
    <3>6. off(j) \in Nat /\ off(j + i) \in Nat
      BY <1>5, <3>2
    <3> QED BY <3>3, <3>4, <3>5, <3>6
  <2>3. Nat \subseteq S
    <3> HIDE DEF S
    <3> QED BY <2>1, <2>2, NatInductionSet
  <2>4. k - j \in Nat /\ j + (k - j) = k
    BY <1>1, <1>7
  <2>5. k - j \in S
    BY <2>3, <2>4
  <2> QED BY <2>4, <2>5
<1>8. \A j, k \in 0 .. N : j <= k => off(j) + (k - j) <= off(k)
  BY <1>7
<1>9. \A j \in 1 .. N : /\ Len(frames[j].bytes) \in Nat \ {0}
                        /\ off(j) = off(j - 1) + Len(frames[j].bytes)
  BY <1>2, <1>6
<1>10. \A j \in 0 .. N : off(j) \in Nat
  BY <1>5
<1> QED BY <1>1, <1>3, <1>4, <1>8, <1>9, <1>10, Zenon DEF Laid, N, off

-----------------------------------------------------------------------------
(* The loops of the readers *)

\* What is in the buffer when m frames are taken and a bytes have arrived.
Rest(frames, m, a) == SubSeq(BytesOf(frames), Offset(frames, m) + 1, a)

\* A round makes of the frame what it should, and nothing of the bytes after it.
Whole(frame, round) ==
    IF frame.last THEN round.kind = "gives_up" /\ round.items = frame.gives
    ELSE round = Takes(frame.gives, Len(frame.bytes))

\* With m frames taken, a round on what has arrived makes the next frame of
\* it once all the bytes of that frame are there, and waits before.
Readable(reader, frames) ==
    \A m \in 0 .. (Len(frames) - 1) : \A a \in Offset(frames, m) .. Len(BytesOf(frames)) :
        IF a < Offset(frames, m + 1) THEN Round(reader, Rest(frames, m, a)) = Waits
        ELSE a < Offset(frames, m + 1) + MaxRead =>
                Whole(frames[m + 1], Round(reader, Rest(frames, m, a)))

\* Of a bytes, m frames are taken.
Holds(frames, buf, taken, stays, m, a) ==
    /\ m \in 0 .. Len(frames) /\ a \in 0 .. Len(BytesOf(frames)) /\ Offset(frames, m) <= a
    /\ \A i \in 1 .. (m - 1) : ~frames[i].last
    /\ taken = Gives(frames, m)
    /\ stays \in BOOLEAN
    /\ IF stays THEN (m # 0 => ~frames[m].last) /\ buf = Rest(frames, m, a)
       ELSE m # 0 /\ frames[m].last

Taken(frames, s, m, a) == Holds(frames, s.buffer, s.out, s.open, m, a)

\* No more than one read is past the frame that is due.
Near(frames, m, a) == m < Len(frames) => a < Offset(frames, m + 1) + MaxRead

\* The streams of this section.
Streams(Symbol, Item) ==
    {frames \in Seq(FramesOf(Symbol, Item)) : \A j \in 1 .. Len(frames) : frames[j].bytes # <<>>}

\* The end of a piece of a sequence.
LEMMA FromSubSeq ==
    ASSUME NEW S, NEW seq \in Seq(S), NEW o \in Nat, NEW len \in Nat, NEW a \in Nat,
           o + len <= a, a <= Len(seq)
    PROVE  From(SubSeq(seq, o + 1, a), len + 1) = SubSeq(seq, (o + len) + 1, a)
<1> DEFINE rest == SubSeq(seq, o + 1, a)
           left == SubSeq(rest, len + 1, Len(rest))
           right == SubSeq(seq, (o + len) + 1, a)
<1>1. rest \in Seq(S) /\ Len(rest) = a - o /\ \A i \in 1 .. (a - o) : rest[i] = seq[o + i]
  OBVIOUS
<1>2. right \in Seq(S) /\ Len(right) = a - (o + len)
      /\ \A i \in 1 .. (a - (o + len)) : right[i] = seq[(o + len) + i]
  OBVIOUS
<1> HIDE DEF rest, right
<1>3. left \in Seq(S) /\ Len(left) = a - (o + len)
      /\ \A i \in 1 .. (a - (o + len)) : left[i] = rest[len + i]
  BY <1>1
<1> HIDE DEF left
<1>4. \A i \in 1 .. (a - (o + len)) : left[i] = right[i]
  <2>1. \A i \in 1 .. (a - (o + len)) : len + i \in 1 .. (a - o) /\ o + (len + i) = (o + len) + i
    OBVIOUS
  <2> QED BY <1>1, <1>2, <1>3, <2>1
<1>5. left = right
  BY <1>2, <1>3, <1>4, SeqEqual
<1> QED BY <1>5 DEF From, left, right, rest

\* A round after which the loop goes on, and one that gives up.
LEMMA LoopGoesOn ==
    ASSUME NEW reader, NEW s, ~Ends(reader, s), Round(reader, s.buffer).kind = "takes"
    PROVE  /\ Again(reader, s).buffer = From(s.buffer, Round(reader, s.buffer).consumed + 1)
           /\ Again(reader, s).out = s.out \o Round(reader, s.buffer).items
           /\ Again(reader, s).open = TRUE
<1> DEFINE rest == From(s.buffer, Round(reader, s.buffer).consumed + 1)
           taken == s.out \o Round(reader, s.buffer).items
           next == Again(reader, s)
<1>1. next = GoesOn(rest, taken)
  BY DEF Again, After
<1> HIDE DEF rest, taken, next
<1>2. next.buffer = rest /\ next.out = taken /\ next.open = TRUE
  BY <1>1 DEF GoesOn
<1> QED BY <1>2 DEF rest, taken, next

\* A round that gives up keeps what it took and closes the connection.
LEMMA LoopStops ==
    ASSUME NEW reader, NEW s, ~Ends(reader, s), Round(reader, s.buffer).kind = "gives_up"
    PROVE  /\ Again(reader, s).out = s.out \o Round(reader, s.buffer).items
           /\ Again(reader, s).open = FALSE
<1> DEFINE rest == From(s.buffer, Round(reader, s.buffer).consumed + 1)
           taken == s.out \o Round(reader, s.buffer).items
           next == Again(reader, s)
<1>1. next = Stops(rest, taken)
  BY DEF Again, After
<1> HIDE DEF rest, taken, next
<1>2. next.out = taken /\ next.open = FALSE
  BY <1>1 DEF Stops
<1> QED BY <1>2 DEF rest, taken, next

\* A round takes the next frame.
LEMMA RoundTakes ==
    ASSUME NEW Symbol, NEW Item, NEW frames \in Streams(Symbol, Item), NEW reader,
           Readable(reader, frames),
           NEW s, NEW m, NEW a \in Nat \ {0}, Taken(frames, s, m, a), Near(frames, m, a),
           ~Ends(reader, s)
    PROVE  Taken(frames, Again(reader, s), m + 1, a) /\ Near(frames, m + 1, a)
<1> DEFINE N == Len(frames)
           bytes == BytesOf(frames)
           off(j) == Offset(frames, j)
           round == Round(reader, s.buffer)
<1>1. frames \in Seq(FramesOf(Symbol, Item)) /\ Laid(frames)
  BY FramesLaid DEF Streams
<1>2. bytes \in Seq(Symbol) /\ off(N) = Len(bytes) /\ off(0) = 0
  <2>1. N \in 0 .. N
    BY <1>1 DEF Laid
  <2> QED BY <1>1, <2>1, PartsJoin DEF Laid
<1>3. /\ N \in Nat /\ m \in 0 .. N /\ a \in 0 .. Len(bytes) /\ off(m) <= a
      /\ \A j \in 0 .. N : off(j) \in Nat
  BY <1>1 DEF Taken, Holds, Laid
<1>4. s.open /\ round.kind # "waits"
  BY DEF Ends
<1>5. s.buffer = Rest(frames, m, a) /\ (m # 0 => ~frames[m].last) /\ s.out = Gives(frames, m)
  BY <1>4 DEF Taken, Holds
<1>6. m # N
  <2> SUFFICES ASSUME m = N PROVE FALSE
    OBVIOUS
  <2>1. N # 0
    <3> SUFFICES ASSUME N = 0 PROVE FALSE
      OBVIOUS
    <3> QED BY <1>2, <1>3
  <2>2. s.buffer = <<>>
    <3>1. off(m) + 1 > a
      BY <1>2, <1>3
    <3> HIDE DEF bytes, off
    <3>2. SubSeq(bytes, off(m) + 1, a) = <<>>
      BY <1>2, <1>3, <3>1, SubSeqEmpty
    <3> QED BY <1>5, <3>2 DEF Rest, bytes, off
  <2>3. 0 \in 0 .. (N - 1) /\ 0 \in off(0) .. Len(bytes) /\ 0 < off(0 + 1)
    <3>1. 1 \in 1 .. N /\ 1 \in 0 .. N /\ 0 \in 0 .. N /\ 0 <= 1
      BY <1>3, <2>1
    <3>2. off(0) + (1 - 0) <= off(1)
      BY <1>1, <3>1 DEF Laid
    <3> QED BY <1>2, <1>3, <2>1, <3>1, <3>2
  <2>4. Round(reader, Rest(frames, 0, 0)) = Waits
    BY <2>3 DEF Readable
  <2>5. Rest(frames, 0, 0) = <<>>
    <3> HIDE DEF bytes, off
    <3>1. SubSeq(bytes, off(0) + 1, 0) = <<>>
      BY <1>2, SubSeqEmpty
    <3> QED BY <3>1 DEF Rest, bytes, off
  <2> QED BY <1>4, <2>2, <2>4, <2>5 DEF Waits
<1>7. m \in 0 .. (N - 1) /\ m + 1 \in 1 .. N /\ m + 1 \in 0 .. N /\ (m + 1) - 1 = m
  BY <1>3, <1>6
<1>8. a \in off(m) .. Len(bytes) /\ a < off(m + 1) + MaxRead
  BY <1>3, <1>7 DEF Near
<1>9. off(m + 1) <= a
  <2> SUFFICES ASSUME a < off(m + 1) PROVE FALSE
    BY <1>3, <1>7
  <2>1. Round(reader, Rest(frames, m, a)) = Waits
    BY <1>7, <1>8 DEF Readable
  <2> QED BY <1>4, <1>5, <2>1 DEF Waits
<1>10. Whole(frames[m + 1], round)
  <2>1. ~(a < off(m + 1))
    BY <1>3, <1>7, <1>9
  <2> QED BY <1>5, <1>7, <1>8, <2>1 DEF Readable
<1>11. Gives(frames, m + 1) = Gives(frames, m) \o frames[m + 1].gives
  BY <1>1, <1>7, PartsJoin
<1>12. \A i \in 1 .. ((m + 1) - 1) : ~frames[i].last
  <2>1. \A i \in 1 .. ((m + 1) - 1) : i \in 1 .. (m - 1) \/ (i = m /\ m # 0)
    BY <1>3
  <2> QED BY <1>5, <2>1 DEF Taken, Holds
<1>13. Near(frames, m + 1, a)
  <2> SUFFICES ASSUME m + 1 < N PROVE a < off((m + 1) + 1) + MaxRead
    BY DEF Near
  <2>1. (m + 1) + 1 \in 0 .. N /\ m + 1 <= (m + 1) + 1
    BY <1>3, <1>7
  <2>2. off(m + 1) + (((m + 1) + 1) - (m + 1)) <= off((m + 1) + 1)
    BY <1>1, <1>7, <2>1 DEF Laid
  <2>3. off(m + 1) \in Nat /\ off((m + 1) + 1) \in Nat
    BY <1>3, <1>7, <2>1
  <2> HIDE DEF off
  <2> QED BY <1>3, <1>8, <2>2, <2>3, StreamAssumption
<1>14. CASE frames[m + 1].last
  <2>1. round.kind = "gives_up" /\ round.items = frames[m + 1].gives
    BY <1>10, <1>14 DEF Whole
  <2>2. Again(reader, s).open = FALSE /\ Again(reader, s).out = s.out \o round.items
    <3>1. Round(reader, s.buffer).kind = "gives_up"
      BY <2>1
    <3>2. /\ Again(reader, s).out = s.out \o Round(reader, s.buffer).items
          /\ Again(reader, s).open = FALSE
      BY <3>1, LoopStops, Zenon
    <3> QED BY <3>2
  <2>3. Again(reader, s).out = Gives(frames, m + 1)
    BY <1>5, <1>11, <2>1, <2>2
  <2>4. m + 1 # 0
    BY <1>3
  <2>5. Holds(frames, Again(reader, s).buffer, Again(reader, s).out, FALSE, m + 1, a)
    BY <1>3, <1>7, <1>9, <1>12, <1>14, <2>3, <2>4 DEF Holds
  <2>6. Taken(frames, Again(reader, s), m + 1, a)
    BY <2>2, <2>5, Zenon DEF Taken
  <2> QED BY <1>13, <2>6
<1>15. CASE ~frames[m + 1].last
  <2> DEFINE len == Len(frames[m + 1].bytes)
  <2>1. round = Takes(frames[m + 1].gives, len)
    BY <1>10, <1>15 DEF Whole
  <2>2. len \in Nat /\ off(m + 1) = off(m) + len
    <3>1. len \in Nat /\ off(m + 1) = off((m + 1) - 1) + len
      BY <1>1, <1>7, Zenon DEF Laid
    <3> QED BY <1>7, <3>1, Zenon
  <2> HIDE DEF len
  <2>3. /\ Again(reader, s).open = TRUE
        /\ Again(reader, s).out = s.out \o frames[m + 1].gives
        /\ Again(reader, s).buffer = From(s.buffer, len + 1)
    <3>1. /\ round.kind = "takes" /\ round.items = frames[m + 1].gives
          /\ round.consumed = len
      BY <2>1 DEF Takes
    <3>2. /\ Again(reader, s).buffer = From(s.buffer, Round(reader, s.buffer).consumed + 1)
          /\ Again(reader, s).out = s.out \o Round(reader, s.buffer).items
          /\ Again(reader, s).open = TRUE
      BY <3>1, LoopGoesOn, Zenon
    <3> QED BY <3>1, <3>2, Zenon
  <2>4. From(s.buffer, len + 1) = Rest(frames, m + 1, a)
    <3> DEFINE o == off(m)
    <3>1. o \in Nat /\ o + len <= a /\ a <= Len(bytes) /\ a \in Nat
      BY <1>3, <1>9, <2>2
    <3>2. off(m + 1) = o + len
      BY <2>2
    <3> HIDE DEF bytes, off, o
    <3>3. From(SubSeq(bytes, o + 1, a), len + 1) = SubSeq(bytes, (o + len) + 1, a)
      <4>1. bytes \in Seq(Symbol) /\ len \in Nat
        BY <1>2, <2>2
      <4> QED BY <3>1, <4>1, FromSubSeq
    <3>4. s.buffer = SubSeq(bytes, o + 1, a)
      BY <1>5, Zenon DEF Rest, bytes, off, o
    <3>5. Rest(frames, m + 1, a) = SubSeq(bytes, (o + len) + 1, a)
      BY <3>2, Zenon DEF Rest, bytes, off
    <3> QED BY <3>3, <3>4, <3>5, Zenon
  <2>5. Again(reader, s).out = Gives(frames, m + 1) /\ Again(reader, s).buffer = Rest(frames, m + 1, a)
    BY <1>5, <1>11, <2>3, <2>4
  <2>6. Holds(frames, Again(reader, s).buffer, Again(reader, s).out, TRUE, m + 1, a)
    BY <1>3, <1>7, <1>9, <1>12, <1>15, <2>5 DEF Holds
  <2>7. Taken(frames, Again(reader, s), m + 1, a)
    BY <2>3, <2>6, Zenon DEF Taken
  <2> QED BY <1>13, <2>7
<1> QED BY <1>14, <1>15

\* The loop on a buffer ends, with all the frames taken that are whole.
LEMMA LoopTakes ==
    ASSUME NEW Symbol, NEW Item, NEW frames \in Streams(Symbol, Item), NEW reader,
           Readable(reader, frames),
           NEW s, NEW m, NEW a \in Nat \ {0}, Taken(frames, s, m, a), Near(frames, m, a),
           s = GoesOn(Rest(frames, m, a), Gives(frames, m))
    PROVE  \E k : /\ Taken(frames, Reader(reader, s.buffer, s.out), k, a) /\ Near(frames, k, a)
                  /\ Ends(reader, Reader(reader, s.buffer, s.out))
<1> DEFINE N == Len(s.buffer)
           P(f) == f = [k \in 0 .. N |-> IF k = 0 THEN GoesOn(s.buffer, s.out)
                                         ELSE Again(reader, f[k - 1])]
           after == CHOOSE f : P(f)
           end == CHOOSE k \in 0 .. N : Ends(reader, after[k])
<1>1. Reader(reader, s.buffer, s.out) = after[end]
  BY DEF Reader, LoopEnd
<1>2. s.buffer = Rest(frames, m, a) /\ s.out = Gives(frames, m)
  BY SMT DEF GoesOn
<1>3. GoesOn(s.buffer, s.out) = s
  BY <1>2, Zenon
<1>4. frames \in Seq(FramesOf(Symbol, Item)) /\ Laid(frames) /\ BytesOf(frames) \in Seq(Symbol)
  <2>1. frames \in Seq(FramesOf(Symbol, Item)) /\ Laid(frames)
    BY FramesLaid DEF Streams
  <2>2. Len(frames) \in 0 .. Len(frames)
    BY <2>1 DEF Laid
  <2> QED BY <2>1, <2>2, PartsJoin
<1>5. /\ m \in 0 .. Len(frames) /\ a \in 0 .. Len(BytesOf(frames)) /\ Offset(frames, m) \in Nat
      /\ Offset(frames, m) <= a
  BY <1>4 DEF Taken, Holds, Laid
<1>6. N \in Nat /\ N = a - Offset(frames, m)
  <2> DEFINE bytes == BytesOf(frames)
             o == Offset(frames, m)
  <2>1. bytes \in Seq(Symbol) /\ o \in Nat /\ o <= a /\ a <= Len(bytes)
    BY <1>4, <1>5
  <2>2. s.buffer = SubSeq(bytes, o + 1, a)
    BY <1>2 DEF Rest
  <2> HIDE DEF bytes, o
  <2>3. Len(SubSeq(bytes, o + 1, a)) = a - o
    BY <2>1
  <2> QED BY <2>1, <2>2, <2>3 DEF o
<1> HIDE DEF N
<1>7. Runs(after, "loop", reader, s, N)
  <2>1. \A f : P(f) <=> Runs(f, "loop", reader, s, N)
    BY <1>3 DEF Runs, Turn
  <2>2. \E f : Runs(f, "loop", reader, s, N)
    BY <1>6, RunsExist
  <2> HIDE DEF P
  <2>3. \E f : P(f)
    BY <2>1, <2>2
  <2>4. P(after)
    BY <2>3
  <2> QED BY <2>1, <2>4
<1>8. after[0] = s /\ \A k \in 0 .. N : k + 1 \in 0 .. N => after[k + 1] = Again(reader, after[k])
  <2> HIDE DEF after
  <2>1. /\ after[0] = s
        /\ \A k \in 0 .. N : k + 1 \in 0 .. N => after[k + 1] = Turn("loop", reader, after[k], k + 1)
    BY <1>6, <1>7, RunsInTurn
  <2> QED BY <2>1 DEF Turn
<1> HIDE DEF P, after
<1> DEFINE Right(k, i) == Taken(frames, after[k], i, a) /\ Near(frames, i, a)
           S == {k \in Nat : k \in 0 .. N =>
                   \E i \in 0 .. Len(frames) : Right(k, i) /\ (Ends(reader, after[k]) \/ m + k <= i)}
<1>9. 0 \in S
  BY <1>5, <1>8
<1>10. ASSUME NEW k \in Nat, k \in S PROVE k + 1 \in S
  <2>1. SUFFICES ASSUME k + 1 \in 0 .. N
                 PROVE  \E i \in 0 .. Len(frames) :
                           Right(k + 1, i) /\ (Ends(reader, after[k + 1]) \/ m + (k + 1) <= i)
    OBVIOUS
  <2>2. k \in 0 .. N
    BY <1>6, <2>1
  <2>3. PICK i \in 0 .. Len(frames) : Right(k, i) /\ (Ends(reader, after[k]) \/ m + k <= i)
    BY <1>10, <2>2
  <2>4. after[k + 1] = Again(reader, after[k])
    BY <1>8, <2>1, <2>2
  <2>5. CASE Ends(reader, after[k])
    <3>1. after[k + 1] = after[k]
      BY <2>4, <2>5 DEF Again
    <3> QED BY <2>3, <2>5, <3>1
  <2>6. CASE ~Ends(reader, after[k])
    <3>1. Taken(frames, Again(reader, after[k]), i + 1, a) /\ Near(frames, i + 1, a)
      <4>1. Taken(frames, after[k], i, a) /\ Near(frames, i, a)
        BY <2>3
      <4> HIDE DEF Right, S
      <4> QED BY <2>6, <4>1, RoundTakes, Zenon
    <3>2. i + 1 \in 0 .. Len(frames)
      BY <3>1 DEF Taken, Holds
    <3>3. m + (k + 1) <= i + 1
      BY <1>4, <1>5, <2>3, <2>6 DEF Laid
    <3> QED BY <2>4, <3>1, <3>2, <3>3
  <2> QED BY <2>5, <2>6
<1>11. Nat \subseteq S
  <2> HIDE DEF S
  <2> QED BY <1>9, <1>10, NatInductionSet
<1>12. \E k \in 0 .. N : Ends(reader, after[k])
  <2>1. N \in 0 .. N
    BY <1>6
  <2> SUFFICES ASSUME ~Ends(reader, after[N]) PROVE FALSE
    BY <2>1
  <2>2. PICK i \in 0 .. Len(frames) : Right(N, i) /\ m + N <= i
    BY <1>6, <1>11, <2>1
  <2>3. Taken(frames, Again(reader, after[N]), i + 1, a)
    BY <2>2, RoundTakes
  <2>4. i + 1 \in 0 .. Len(frames) /\ Offset(frames, i + 1) <= a
    BY <2>3 DEF Taken, Holds
  <2>5. Offset(frames, m) + ((i + 1) - m) <= Offset(frames, i + 1) /\ Offset(frames, i + 1) \in Nat
    <3>1. m <= i + 1
      BY <1>5, <1>6, <2>2
    <3> QED BY <1>4, <1>5, <2>4, <3>1 DEF Laid
  <2> QED BY <1>4, <1>5, <1>6, <2>2, <2>4, <2>5 DEF Laid
<1>13. end \in 0 .. N /\ Ends(reader, after[end])
  BY <1>12
<1> HIDE DEF end
<1>14. \E i : Taken(frames, after[end], i, a) /\ Near(frames, i, a)
  BY <1>6, <1>11, <1>13
<1> QED BY <1>1, <1>13, <1>14, Zenon

-----------------------------------------------------------------------------
(* Connections *)

\* The streams a sender may write to a reader.
Written(reader) ==
    CASE reader = "command" -> Commands
      [] reader = "reply" -> Replies
      [] reader = "message" -> Messages

\* What has arrived is taken up to the frame that is not whole yet, which is in
\* the buffer; a reader that gave up did so at a last frame.
InTurn(frames, m) ==
    /\ Holds(frames, buffer, out, open, m, arrived)
    /\ open /\ m < Len(frames) => arrived < Offset(frames, m + 1)

StreamInv(reader) ==
    /\ stream.reader = "nobody" => arrived = 0 /\ buffer = <<>> /\ out = <<>> /\ ~open
    /\ stream.reader = reader =>
          stream.frames \in Written(reader) /\ \E m : InTurn(stream.frames, m)

\* Two pieces of a sequence that touch.
LEMMA JoinSubSeq ==
    ASSUME NEW S, NEW seq \in Seq(S), NEW o \in Nat, NEW b \in Nat, NEW a \in Nat,
           o <= b, b <= a, a <= Len(seq)
    PROVE  SubSeq(seq, o + 1, b) \o SubSeq(seq, b + 1, a) = SubSeq(seq, o + 1, a)
<1>1. o + 1 \in 1 .. Len(seq) + 1 /\ b \in (o + 1) - 1 .. Len(seq) /\ a \in b .. Len(seq)
  OBVIOUS
<1>2. \A m \in 1 .. Len(seq) + 1 : \A k \in m - 1 .. Len(seq) : \A n \in k .. Len(seq) :
         SubSeq(seq, m, k) \o SubSeq(seq, k + 1, n) = SubSeq(seq, m, n)
  BY ConcatAdjacentSubSeq
<1> QED BY <1>1, <1>2, Zenon

\* A new connection has taken nothing.
LEMMA ConnectInv ==
    ASSUME NEW reader \in {"command", "reply", "message"}, NEW Symbol, NEW Item,
           Written(reader) \subseteq Streams(Symbol, Item),
           StreamInv(reader), Connect
    PROVE  StreamInv(reader)'
<1>1. arrived = 0 /\ buffer = <<>> /\ out = <<>> /\ arrived' = 0 /\ buffer' = <<>> /\ out' = <<>>
  BY DEF Connect, StreamInv
<1>2. stream'.reader # "nobody"
  BY DEF Connect
<1>3. ASSUME stream'.reader = reader
      PROVE  stream'.frames \in Written(reader) /\ \E m : InTurn(stream.frames, m)'
  <2>1. stream'.frames \in Written(reader)
    BY <1>3 DEF Connect, Written
  <2> DEFINE frames == stream'.frames
  <2>2. frames \in Streams(Symbol, Item)
    BY <2>1
  <2> HIDE DEF frames
  <2>3. frames \in Seq(FramesOf(Symbol, Item)) /\ Laid(frames)
    BY <2>2, FramesLaid DEF Streams
  <2>4. Gives(frames, 0) = <<>> /\ BytesOf(frames) \in Seq(Symbol) /\ Offset(frames, 0) = 0
    <3>1. Len(frames) \in 0 .. Len(frames)
      BY <2>3 DEF Laid
    <3> QED BY <2>3, <3>1, PartsJoin DEF Laid
  <2>5. Rest(frames, 0, 0) = <<>>
    <3> DEFINE bytes == BytesOf(frames)
               o == Offset(frames, 0)
    <3>1. bytes \in Seq(Symbol) /\ o = 0
      BY <2>4
    <3> HIDE DEF bytes, o
    <3>2. SubSeq(bytes, o + 1, 0) = <<>>
      BY <3>1, SubSeqEmpty
    <3> QED BY <3>2, Zenon DEF Rest, bytes, o
  <2>6. Holds(frames, <<>>, <<>>, TRUE, 0, 0)
    BY <2>3, <2>4, <2>5 DEF Holds, Laid
  <2>7. 0 < Len(frames) => 0 < Offset(frames, 0 + 1)
    <3> SUFFICES ASSUME 0 < Len(frames) PROVE 0 < Offset(frames, 1)
      OBVIOUS
    <3>1. 0 \in 0 .. Len(frames) /\ 1 \in 0 .. Len(frames)
      BY <2>3 DEF Laid
    <3>2. Offset(frames, 0) + (1 - 0) <= Offset(frames, 1) /\ Offset(frames, 1) \in Nat
      BY <2>3, <3>1 DEF Laid
    <3> QED BY <2>4, <3>2
  <2>8. open' = TRUE
    BY DEF Connect
  <2>9. InTurn(stream.frames, 0)'
    BY <1>1, <2>6, <2>7, <2>8, Zenon DEF InTurn, frames
  <2> QED BY <2>1, <2>9
<1> QED BY <1>2, <1>3 DEF StreamInv

\* A read takes the frames it makes whole.
LEMMA ArriveInv ==
    ASSUME NEW reader \in {"command", "reply", "message"}, NEW Symbol, NEW Item,
           Written(reader) \subseteq Streams(Symbol, Item),
           \A frames \in Written(reader) : Readable(reader, frames),
           StreamInv(reader), NEW n \in 1 .. (Len(BytesOf(stream.frames)) - arrived), Arrive(n)
    PROVE  StreamInv(reader)'
<1>1. stream' = stream
  BY DEF Arrive
<1>2. open /\ stream.reader # "nobody"
  BY DEF Arrive, StreamInv
<1>3. CASE stream.reader # reader
  BY <1>1, <1>2, <1>3 DEF StreamInv
<1>4. CASE stream.reader = reader
  <2> DEFINE frames == stream.frames
             bytes == BytesOf(frames)
             a == arrived + n
  <2>1. frames \in Streams(Symbol, Item) /\ Readable(reader, frames) /\ frames \in Written(reader)
    BY <1>4 DEF StreamInv
  <2>2. PICK m : InTurn(frames, m)
    BY <1>4 DEF StreamInv
  <2>3. arrived' = a /\ n <= MaxRead /\ a <= Len(bytes)
    BY DEF Arrive
  <2>4. PICK read : /\ read = Reader(reader, buffer \o SubSeq(bytes, arrived + 1, arrived + n), out)
                    /\ buffer' = read.buffer /\ out' = read.out /\ open' = read.open
    BY <1>4 DEF Arrive
  <2> HIDE DEF frames
  <2>5. frames \in Seq(FramesOf(Symbol, Item)) /\ Laid(frames) /\ bytes \in Seq(Symbol)
    <3>1. frames \in Seq(FramesOf(Symbol, Item)) /\ Laid(frames)
      BY <2>1, FramesLaid DEF Streams
    <3>2. Len(frames) \in 0 .. Len(frames)
      BY <3>1 DEF Laid
    <3> QED BY <3>1, <3>2, PartsJoin
  <2>6. /\ m \in 0 .. Len(frames) /\ arrived \in 0 .. Len(bytes) /\ Offset(frames, m) <= arrived
        /\ Offset(frames, m) \in Nat /\ Len(frames) \in Nat /\ Len(bytes) \in Nat
        /\ buffer = Rest(frames, m, arrived) /\ out = Gives(frames, m)
    <3>1. Holds(frames, buffer, out, open, m, arrived)
      BY <2>2 DEF InTurn
    <3> QED BY <1>2, <2>5, <3>1 DEF Holds, Laid
  <2>7. n \in Nat /\ a \in Nat \ {0} /\ a \in 0 .. Len(bytes) /\ Offset(frames, m) <= a
    BY <2>3, <2>6 DEF frames
  <2> HIDE DEF bytes
  <2>8. buffer \o SubSeq(bytes, arrived + 1, arrived + n) = Rest(frames, m, a)
    <3> DEFINE o == Offset(frames, m)
    <3>1. o \in Nat /\ o <= arrived /\ arrived \in Nat /\ arrived <= a /\ a \in Nat /\ a <= Len(bytes)
      BY <2>6, <2>7
    <3>2. buffer = SubSeq(bytes, o + 1, arrived)
      BY <2>6, Zenon DEF Rest, bytes
    <3>3. Rest(frames, m, a) = SubSeq(bytes, o + 1, a)
      BY Zenon DEF Rest, bytes
    <3> HIDE DEF o, a
    <3>4. SubSeq(bytes, o + 1, arrived) \o SubSeq(bytes, arrived + 1, a) = SubSeq(bytes, o + 1, a)
      BY <2>5, <3>1, JoinSubSeq
    <3> QED BY <3>2, <3>3, <3>4, Zenon DEF a
  <2> HIDE DEF a
  <2> DEFINE s == GoesOn(Rest(frames, m, a), Gives(frames, m))
  <2>9. s.buffer = Rest(frames, m, a) /\ s.out = Gives(frames, m) /\ s.open = TRUE
    BY DEF GoesOn
  <2>10. Taken(frames, s, m, a)
    <3>1. /\ \A i \in 1 .. (m - 1) : ~frames[i].last
          /\ m # 0 => ~frames[m].last
      BY <1>2, <2>2 DEF InTurn, Holds
    <3>2. Holds(frames, Rest(frames, m, a), Gives(frames, m), TRUE, m, a)
      BY <2>6, <2>7, <3>1 DEF Holds, bytes
    <3> HIDE DEF s
    <3> QED BY <2>9, <3>2, Zenon DEF Taken
  <2>11. Near(frames, m, a)
    <3> SUFFICES ASSUME m < Len(frames) PROVE a < Offset(frames, m + 1) + MaxRead
      BY DEF Near
    <3>1. arrived < Offset(frames, m + 1)
      BY <1>2, <2>2 DEF InTurn
    <3>2. Offset(frames, m + 1) \in Nat
      <4>1. m + 1 \in 0 .. Len(frames)
        BY <2>6
      <4> QED BY <2>5, <4>1 DEF Laid
    <3> QED BY <2>3, <2>6, <2>7, <3>1, <3>2, StreamAssumption DEF a
  <2>12. PICK k : Taken(frames, read, k, a) /\ Near(frames, k, a) /\ Ends(reader, read)
    <3>1. read = Reader(reader, s.buffer, s.out)
      <4> HIDE DEF s
      <4> QED BY <2>4, <2>6, <2>8, <2>9, Zenon
    <3>2. \E k : /\ Taken(frames, Reader(reader, s.buffer, s.out), k, a) /\ Near(frames, k, a)
                 /\ Ends(reader, Reader(reader, s.buffer, s.out))
      <4> HIDE DEF s
      <4>1. s = GoesOn(Rest(frames, m, a), Gives(frames, m))
        BY DEF s
      <4> QED BY <2>1, <2>7, <2>10, <2>11, <4>1, LoopTakes
    <3> QED BY <3>1, <3>2
  <2>13. Holds(frames, buffer', out', open', k, arrived')
    BY <2>3, <2>4, <2>12, Zenon DEF Taken
  <2>14. open' /\ k < Len(frames) => arrived' < Offset(frames, k + 1)
    <3> SUFFICES ASSUME open', k < Len(frames), ~(a < Offset(frames, k + 1)) PROVE FALSE
      BY <2>3
    <3>1. k \in 0 .. (Len(frames) - 1) /\ a \in Offset(frames, k) .. Len(BytesOf(frames))
      <4>1. k \in 0 .. Len(frames) /\ a \in 0 .. Len(BytesOf(frames)) /\ Offset(frames, k) <= a
        BY <2>12 DEF Taken, Holds
      <4>2. Offset(frames, k) \in Nat
        BY <2>5, <4>1 DEF Laid
      <4> QED BY <2>6, <4>1, <4>2 DEF bytes
    <3>2. buffer' = Rest(frames, k, a)
      BY <2>3, <2>13, Zenon DEF Holds
    <3>3. Round(reader, Rest(frames, k, a)).kind = "waits"
      <4>1. read.open /\ read.buffer = Rest(frames, k, a)
        BY <2>4, <3>2, Zenon
      <4> QED BY <2>12, <4>1 DEF Ends
    <3>4. a < Offset(frames, k + 1) + MaxRead
      BY <2>12 DEF Near
    <3>5. Whole(frames[k + 1], Round(reader, Rest(frames, k, a)))
      BY <2>1, <3>1, <3>4 DEF Readable
    <3> QED BY <3>3, <3>5 DEF Whole, Takes
  <2>15. InTurn(frames, k)'
    <3>1. frames' = frames
      BY <1>1 DEF frames
    <3> QED BY <2>13, <2>14, <3>1 DEF InTurn
  <2>16. stream'.reader # "nobody" /\ stream'.frames = frames
    BY <1>1, <1>2 DEF frames
  <2>17. stream'.frames \in Written(reader) /\ \E i : InTurn(stream.frames, i)'
    BY <2>1, <2>15, <2>16 DEF frames
  <2> QED BY <2>16, <2>17 DEF StreamInv
<1> QED BY <1>3, <1>4

\* A connection that ends leaves nothing behind for the next one.
LEMMA DisconnectInv ==
    ASSUME NEW reader \in {"command", "reply", "message"}, Disconnect
    PROVE  StreamInv(reader)'
<1>1. stream'.reader = "nobody"
  BY DEF Disconnect, Nobody
<1> QED BY <1>1 DEF Disconnect, StreamInv

\* The connections that one reader has to serve can all be read.
Served(reader, Symbol, Item) ==
    \A frames \in Written(reader) : frames \in Streams(Symbol, Item) /\ Readable(reader, frames)

\* At the start nobody is connected.
LEMMA InitInv ==
    ASSUME NEW reader, reader # "nobody", Init
    PROVE  StreamInv(reader)
BY DEF Init, StreamInv, Nobody

\* Every step of Stream keeps what the reader has taken in turn.
LEMMA NextInv ==
    ASSUME NEW Symbol, NEW Item, NEW reader \in {"command", "reply", "message"},
           Served(reader, Symbol, Item), StreamInv(reader), [Next]_vars
    PROVE  StreamInv(reader)'
<1>1. CASE Connect
  BY <1>1, ConnectInv DEF Served
<1>2. CASE \E n \in 1 .. (Len(BytesOf(stream.frames)) - arrived) : Arrive(n)
  BY <1>2, ArriveInv DEF Served
<1>3. CASE Disconnect
  BY <1>3, DisconnectInv
<1>4. CASE UNCHANGED vars
  BY <1>4 DEF vars, StreamInv, InTurn, Holds, Written
<1> QED BY <1>1, <1>2, <1>3, <1>4 DEF Next

\* Then what was taken is what is due, and the reader has given up where it
\* should.
LEMMA InTurnIntact ==
    ASSUME NEW Symbol, NEW Item, NEW reader \in {"command", "reply", "message"},
           Served(reader, Symbol, Item), StreamInv(reader), stream.reader = reader
    PROVE  out = Due /\ open = ~HangsUp
<1> DEFINE frames == stream.frames
           bytes == BytesOf(frames)
<1>1. frames \in Streams(Symbol, Item) /\ \E m : InTurn(frames, m)
  BY DEF StreamInv, Served
<1>2. PICK m : InTurn(frames, m)
  BY <1>1
<1> HIDE DEF frames
<1>3. Laid(frames) /\ frames \in Seq(FramesOf(Symbol, Item))
  BY <1>1, FramesLaid DEF Streams
<1>4. /\ m \in 0 .. Len(frames) /\ arrived \in 0 .. Len(bytes) /\ Offset(frames, m) <= arrived
      /\ Len(frames) \in Nat /\ Len(bytes) \in Nat
      /\ out = Gives(frames, m) /\ open \in BOOLEAN
      /\ \A i \in 1 .. (m - 1) : ~frames[i].last
  <2>1. Holds(frames, buffer, out, open, m, arrived)
    BY <1>2 DEF InTurn
  <2>2. Len(frames) \in Nat /\ Len(bytes) \in Nat
    <3>1. Len(frames) \in Nat
      BY <1>3 DEF Laid
    <3>2. Len(frames) \in 0 .. Len(frames)
      BY <3>1
    <3> QED BY <1>3, <3>1, <3>2 DEF Laid
  <2> QED BY <2>1, <2>2 DEF Holds
<1>5. /\ open => (m # 0 => ~frames[m].last)
      /\ open => (m < Len(frames) => arrived < Offset(frames, m + 1))
      /\ ~open => m # 0 /\ frames[m].last
  BY <1>2, Zenon DEF InTurn, Holds
<1> HIDE DEF bytes
<1>6. \A j \in 0 .. Len(frames) : Offset(frames, j) \in Nat
  BY <1>3 DEF Laid
<1>7. \A j, k \in 0 .. Len(frames) : j <= k => Offset(frames, j) + (k - j) <= Offset(frames, k)
  BY <1>3 DEF Laid
<1>8. WholeFrames = 1 .. m
  <2>1. ASSUME NEW j \in 1 .. Len(frames)
        PROVE  (Offset(frames, j) <= arrived /\ \A i \in 1 .. (j - 1) : ~frames[i].last) <=> j <= m
    <3>1. CASE j <= m
      <4>1. Offset(frames, j) <= arrived
        <5>1. j \in 0 .. Len(frames) /\ m \in 0 .. Len(frames)
          BY <1>4
        <5>2. Offset(frames, j) + (m - j) <= Offset(frames, m)
          BY <1>7, <3>1, <5>1
        <5> QED BY <1>4, <1>6, <3>1, <5>1, <5>2
      <4>2. \A i \in 1 .. (j - 1) : i \in 1 .. (m - 1)
        BY <1>4, <3>1
      <4>3. \A i \in 1 .. (j - 1) : ~frames[i].last
        BY <1>4, <4>2
      <4> QED BY <3>1, <4>1, <4>3
    <3>2. CASE ~(j <= m)
      <4>1. CASE open
        <5>1. m + 1 \in 0 .. Len(frames) /\ j \in 0 .. Len(frames) /\ m + 1 <= j /\ m < Len(frames)
          BY <1>4, <3>2
        <5>2. Offset(frames, m + 1) + (j - (m + 1)) <= Offset(frames, j)
          BY <1>7, <5>1
        <5>3. arrived < Offset(frames, m + 1)
          BY <1>5, <4>1, <5>1
        <5>4. ~(Offset(frames, j) <= arrived)
          BY <1>4, <1>6, <5>1, <5>2, <5>3
        <5> QED BY <3>2, <5>4
      <4>2. CASE ~open
        <5>1. m \in 1 .. (j - 1) /\ frames[m].last
          BY <1>4, <1>5, <3>2, <4>2
        <5> QED BY <3>2, <5>1
      <4> QED BY <4>1, <4>2
    <3> QED BY <3>1, <3>2
  <2>2. WholeFrames = {j \in 1 .. Len(frames) :
                         /\ Offset(frames, j) <= arrived
                         /\ \A i \in 1 .. (j - 1) : ~frames[i].last}
    BY Zenon DEF WholeFrames, Offset, Part, frames
  <2>3. \A j : j \in 1 .. m <=> j \in 1 .. Len(frames) /\ j <= m
    BY <1>4
  <2> QED BY <2>1, <2>2, <2>3
<1>9. Cardinality(WholeFrames) = m
  <2>1. Cardinality(1 .. m) = m
    <3>1. Cardinality(1 .. m) = IF 1 > m THEN 0 ELSE m - 1 + 1
      BY <1>4, FS_Interval
    <3> QED BY <1>4, <3>1
  <2> QED BY <1>8, <2>1
<1>10. out = Due
  BY <1>4, <1>9, Zenon DEF Due, Gives, frames
<1>11. open = ~HangsUp
  <2>1. HangsUp <=> \E j \in 1 .. m : frames[j].last
    BY <1>8, Zenon DEF HangsUp, frames
  <2>2. open <=> ~HangsUp
    <3>1. CASE open
      <4>1. \A j \in 1 .. m : j \in 1 .. (m - 1) \/ (j = m /\ m # 0)
        BY <1>4
      <4> QED BY <1>4, <1>5, <2>1, <3>1, <4>1
    <3>2. CASE ~open
      <4>1. m \in 1 .. m
        BY <1>4, <1>5, <3>2
      <4> QED BY <1>5, <2>1, <3>2, <4>1
    <3> QED BY <3>1, <3>2
  <2> QED BY <1>4, <2>2, Zenon DEF HangsUp
<1> QED BY <1>10, <1>11

-----------------------------------------------------------------------------
(* Frames that can be told apart from what follows them *)

\* Short of its last byte the frame makes the reader wait, and with it the
\* reader takes it, whatever one read has brought after it.
Clear(reader, Symbol, frame) ==
    /\ \A n \in 0 .. (Len(frame.bytes) - 1) : Round(reader, SubSeq(frame.bytes, 1, n)) = Waits
    /\ \A rest \in Seq(Symbol) :
          Len(rest) < MaxRead => Whole(frame, Round(reader, frame.bytes \o rest))

\* The bytes of a frame are in the stream after the ones of the frames before.
LEMMA PartIsPrefix ==
    ASSUME NEW Symbol, NEW Item, NEW frames \in Streams(Symbol, Item), NEW j \in 0 .. Len(frames)
    PROVE  \A i \in 1 .. Offset(frames, j) : BytesOf(frames)[i] = Part(frames, j)[i]
<1> DEFINE N == Len(frames)
           p(k) == Part(frames, k)
           off(k) == Offset(frames, k)
           S == {d \in Nat : j + d \in 0 .. N => \A i \in 1 .. off(j) : p(j + d)[i] = p(j)[i]}
<1>1. frames \in Seq(FramesOf(Symbol, Item)) /\ Laid(frames) /\ N \in Nat
  <2>1. frames \in Seq(FramesOf(Symbol, Item)) /\ Laid(frames)
    BY FramesLaid DEF Streams
  <2> QED BY <2>1 DEF Laid
<1>2. \A k \in 0 .. N : p(k) \in Seq(Symbol) /\ off(k) \in Nat /\ off(k) = Len(p(k))
  BY <1>1, PartsJoin DEF Laid, Offset
<1>3. \A k \in 0 .. (N - 1) : p(k + 1) = p(k) \o frames[k + 1].bytes
  BY <1>1, PartsJoin
<1>4. \A k \in 0 .. N : j <= k => off(j) <= off(k)
  <2>1. \A k \in 0 .. N : j <= k => off(j) + (k - j) <= off(k)
    BY <1>1 DEF Laid
  <2> HIDE DEF off
  <2> QED BY <1>1, <1>2, <2>1
<1>5. \A k \in 1 .. N : frames[k].bytes \in Seq(Symbol)
  BY <1>1, FramesTyped
<1> HIDE DEF p, off, N
<1>6. j \in 0 .. N
  BY DEF N
<1>7. 0 \in S
  <2>1. j + 0 = j
    BY <1>1, <1>6
  <2> QED BY <2>1
<1>8. ASSUME NEW d \in Nat, d \in S PROVE d + 1 \in S
  <2> SUFFICES ASSUME j + (d + 1) \in 0 .. N, NEW i \in 1 .. off(j)
               PROVE  p(j + (d + 1))[i] = p(j)[i]
    OBVIOUS
  <2> DEFINE k == j + d
             b == frames[k + 1].bytes
  <2>1. k \in 0 .. N /\ k \in 0 .. (N - 1) /\ j + (d + 1) = k + 1 /\ k + 1 \in 1 .. N /\ j <= k
    BY <1>1, <1>6
  <2>2. p(k)[i] = p(j)[i]
    BY <1>8, <2>1
  <2>3. i \in 1 .. off(k) /\ p(k) \in Seq(Symbol) /\ off(k) = Len(p(k)) /\ b \in Seq(Symbol)
    BY <1>2, <1>4, <1>5, <1>6, <2>1
  <2> HIDE DEF k
  <2>4. p(k + 1) = p(k) \o b
    BY <1>3, <2>1, Zenon
  <2> HIDE DEF b
  <2>5. (p(k) \o b)[i] = p(k)[i]
    BY <2>3
  <2> QED BY <2>1, <2>2, <2>4, <2>5, Zenon
<1>9. Nat \subseteq S
  <2> HIDE DEF S
  <2> QED BY <1>7, <1>8, NatInductionSet
<1>10. N - j \in S /\ j + (N - j) = N /\ N \in 0 .. N
  <2>1. N - j \in Nat /\ j + (N - j) = N /\ N \in 0 .. N
    BY <1>1, <1>6
  <2> HIDE DEF S
  <2> QED BY <1>9, <2>1
<1>11. \A i \in 1 .. off(j) : p(N)[i] = p(j)[i]
  BY <1>10
<1>12. p(N) = BytesOf(frames)
  BY <1>1, PartsJoin DEF p, N
<1> QED BY <1>11, <1>12 DEF p, off

\* The bytes of frame m + 1 stand behind those of the first m.
LEMMA FrameAt ==
    ASSUME NEW Symbol, NEW Item, NEW frames \in Streams(Symbol, Item), NEW m \in 0 .. (Len(frames) - 1)
    PROVE  /\ frames[m + 1].bytes \in Seq(Symbol) /\ Offset(frames, m) \in Nat
           /\ Offset(frames, m + 1) = Offset(frames, m) + Len(frames[m + 1].bytes)
           /\ Offset(frames, m + 1) <= Len(BytesOf(frames))
           /\ BytesOf(frames) \in Seq(Symbol)
           /\ \A i \in 1 .. Len(frames[m + 1].bytes) :
                 BytesOf(frames)[Offset(frames, m) + i] = frames[m + 1].bytes[i]
<1> DEFINE o == Offset(frames, m)
           next == Offset(frames, m + 1)
           all == BytesOf(frames)
           bytes == frames[m + 1].bytes
<1>1. frames \in Seq(FramesOf(Symbol, Item)) /\ Laid(frames)
  BY FramesLaid DEF Streams
<1>2. Len(frames) \in Nat
  BY <1>1 DEF Laid
<1>3. /\ m \in 0 .. Len(frames) /\ m + 1 \in 0 .. Len(frames) /\ m + 1 \in 1 .. Len(frames)
      /\ (m + 1) - 1 = m /\ Len(frames) \in 0 .. Len(frames) /\ m + 1 <= Len(frames)
  BY <1>2
<1>4. bytes \in Seq(Symbol) /\ Len(bytes) \in Nat /\ all \in Seq(Symbol) /\ Len(all) \in Nat
  <2>1. bytes \in Seq(Symbol)
    BY <1>1, <1>3, FramesTyped
  <2>2. all \in Seq(Symbol)
    BY <1>1, <1>3, PartsJoin
  <2> QED BY <2>1, <2>2, LenProperties
<1>5. o \in Nat /\ next \in Nat /\ next <= Len(all)
  <2>1. o \in Nat /\ next \in Nat
    BY <1>1, <1>3 DEF Laid
  <2>2. Offset(frames, Len(frames)) = Len(all)
    BY <1>1 DEF Laid
  <2>3. next + (Len(frames) - (m + 1)) <= Offset(frames, Len(frames))
    BY <1>1, <1>3 DEF Laid
  <2> HIDE DEF o, next, all
  <2> QED BY <1>2, <1>3, <1>4, <2>1, <2>2, <2>3
<1>6. next = o + Len(bytes)
  <2>1. \A j \in 1 .. Len(frames) :
           Offset(frames, j) = Offset(frames, j - 1) + Len(frames[j].bytes)
    BY <1>1 DEF Laid
  <2>2. Offset(frames, m + 1) = Offset(frames, (m + 1) - 1) + Len(frames[m + 1].bytes)
    BY <1>3, <2>1, Zenon
  <2> QED BY <1>3, <2>2, Zenon
<1>7. \A i \in 1 .. Len(bytes) : all[o + i] = bytes[i]
  <2> DEFINE p == Part(frames, m)
             q == Part(frames, m + 1)
  <2>1. p \in Seq(Symbol) /\ Len(p) = o
    BY <1>1, <1>3, PartsJoin DEF Offset
  <2>2. q = p \o bytes
    BY <1>1, PartsJoin
  <2>3. \A i \in 1 .. next : all[i] = q[i]
    BY <1>3, PartIsPrefix
  <2> HIDE DEF p, q, o, next, all, bytes
  <2>4. \A i \in 1 .. Len(bytes) : o + i \in 1 .. next
    BY <1>4, <1>5, <1>6
  <2>5. \A i \in 1 .. Len(bytes) : (p \o bytes)[o + i] = bytes[i]
    BY <1>4, <1>5, <2>1
  <2> QED BY <2>2, <2>3, <2>4, <2>5, Zenon
<1> QED BY <1>4, <1>5, <1>6, <1>7

\* What has arrived of the frame that is due.
LEMMA RestOfFrame ==
    ASSUME NEW Symbol, NEW Item, NEW frames \in Streams(Symbol, Item),
           NEW m \in 0 .. (Len(frames) - 1), NEW a \in Offset(frames, m) .. Len(BytesOf(frames))
    PROVE  IF a < Offset(frames, m + 1)
           THEN a - Offset(frames, m) \in 0 .. (Len(frames[m + 1].bytes) - 1)
                /\ Rest(frames, m, a) = SubSeq(frames[m + 1].bytes, 1, a - Offset(frames, m))
           ELSE \E rest \in Seq(Symbol) : /\ Len(rest) = a - Offset(frames, m + 1)
                                          /\ Rest(frames, m, a) = frames[m + 1].bytes \o rest
<1> DEFINE o == Offset(frames, m)
           next == Offset(frames, m + 1)
           all == BytesOf(frames)
           bytes == frames[m + 1].bytes
<1>1. bytes \in Seq(Symbol) /\ Len(bytes) \in Nat /\ all \in Seq(Symbol) /\ Len(all) \in Nat
  BY FrameAt, LenProperties
<1>2. o \in Nat /\ next \in Nat /\ next <= Len(all) /\ next = o + Len(bytes)
  <2>1. o \in Nat /\ next <= Len(all) /\ next = o + Len(bytes)
    BY FrameAt
  <2> HIDE DEF o, next, all, bytes
  <2> QED BY <1>1, <2>1
<1>3. \A i \in 1 .. Len(bytes) : all[o + i] = bytes[i]
  BY FrameAt
<1>4. a \in o .. Len(all) /\ a \in Nat
  BY <1>1, <1>2
<1> DEFINE read == SubSeq(all, o + 1, a)
<1>5. Rest(frames, m, a) = read
  BY Zenon DEF Rest
<1> HIDE DEF o, next, all, bytes
<1>6. read \in Seq(Symbol) /\ Len(read) = a - o /\ \A i \in 1 .. (a - o) : read[i] = all[o + i]
  BY <1>1, <1>2, <1>4
<1>7. CASE a < next
  <2> DEFINE n == a - o
             begin == SubSeq(bytes, 1, n)
  <2>1. n \in Nat /\ n \in 0 .. (Len(bytes) - 1) /\ n <= Len(bytes)
    BY <1>1, <1>2, <1>4, <1>7
  <2>2. Len(read) = n /\ \A i \in 1 .. n : read[i] = all[o + i]
    BY <1>6
  <2> HIDE DEF n, read
  <2>3. begin \in Seq(Symbol) /\ Len(begin) = n /\ \A i \in 1 .. n : begin[i] = bytes[i]
    BY <1>1, <2>1
  <2> HIDE DEF begin
  <2>4. \A i \in 1 .. n : i \in 1 .. Len(bytes)
    BY <1>1, <2>1
  <2>5. begin = read
    BY <1>3, <1>6, <2>2, <2>3, <2>4, SeqEqual
  <2> QED BY <1>5, <1>7, <2>1, <2>5, Zenon DEF n, begin, o, next, bytes
<1>8. CASE ~(a < next)
  <2> DEFINE rest == SubSeq(all, next + 1, a)
             begin == SubSeq(all, o + 1, next)
  <2>1. next <= a /\ o <= next /\ a <= Len(all)
    BY <1>1, <1>2, <1>4, <1>8
  <2>2. begin \o rest = read
    <3>1. all \in Seq(Symbol) /\ o \in Nat /\ next \in Nat /\ a \in Nat
      BY <1>1, <1>2, <1>4, Zenon
    <3> QED BY <2>1, <3>1, JoinSubSeq
  <2>3. rest \in Seq(Symbol) /\ Len(rest) = a - next
    BY <1>1, <1>2, <1>4, <2>1
  <2>4. begin \in Seq(Symbol) /\ Len(begin) = Len(bytes)
        /\ \A i \in 1 .. Len(bytes) : begin[i] = all[o + i]
    BY <1>1, <1>2, <1>4, <2>1
  <2> HIDE DEF begin, rest, read
  <2>5. begin = bytes
    BY <1>1, <1>3, <2>4, SeqEqual
  <2>6. Rest(frames, m, a) = bytes \o rest
    BY <1>5, <2>2, <2>5, Zenon
  <2> QED BY <1>8, <2>3, <2>6, Zenon DEF next, bytes
<1> QED BY <1>7, <1>8, Zenon

\* Streams of such frames can be read.
LEMMA ClearReadable ==
    ASSUME NEW Symbol, NEW Item, NEW frames \in Streams(Symbol, Item), NEW reader,
           \A j \in 1 .. Len(frames) : Clear(reader, Symbol, frames[j])
    PROVE  Readable(reader, frames)
<1> SUFFICES ASSUME NEW m \in 0 .. (Len(frames) - 1),
                    NEW a \in Offset(frames, m) .. Len(BytesOf(frames))
             PROVE  IF a < Offset(frames, m + 1) THEN Round(reader, Rest(frames, m, a)) = Waits
                    ELSE a < Offset(frames, m + 1) + MaxRead =>
                            Whole(frames[m + 1], Round(reader, Rest(frames, m, a)))
  BY Zenon DEF Readable
<1> DEFINE frame == frames[m + 1]
           next == Offset(frames, m + 1)
           o == Offset(frames, m)
           held == Rest(frames, m, a)
<1>1. Clear(reader, Symbol, frame)
  <2>1. Len(frames) \in Nat
    BY DEF Streams
  <2>2. m + 1 \in 1 .. Len(frames)
    BY <2>1
  <2> QED BY <2>2, Zenon
<1>2. IF a < next THEN a - o \in 0 .. (Len(frame.bytes) - 1) /\ held = SubSeq(frame.bytes, 1, a - o)
      ELSE \E rest \in Seq(Symbol) : Len(rest) = a - next /\ held = frame.bytes \o rest
  BY RestOfFrame, Zenon
<1> HIDE DEF frame, held
<1>3. CASE a < next
  BY <1>1, <1>2, <1>3, Zenon DEF Clear, frame, held
<1>4. CASE ~(a < next)
  <2> SUFFICES ASSUME a < next + MaxRead PROVE Whole(frame, Round(reader, held))
    BY <1>4, Zenon DEF frame, held
  <2>1. PICK rest \in Seq(Symbol) : Len(rest) = a - next /\ held = frame.bytes \o rest
    BY <1>2, <1>4, Zenon
  <2>2. Len(rest) < MaxRead
    <3>1. next \in Int /\ a \in Int
      <4>1. Laid(frames) /\ Len(frames) \in Nat
        BY FramesLaid DEF Streams
      <4>2. m + 1 \in 0 .. Len(frames) /\ m \in 0 .. Len(frames) /\ Len(frames) \in 0 .. Len(frames)
        BY <4>1
      <4> QED BY <4>1, <4>2 DEF Laid
    <3> HIDE DEF next
    <3> QED BY <2>1, <3>1, StreamAssumption
  <2> QED BY <1>1, <2>1, <2>2, Zenon DEF Clear
<1> QED BY <1>3, <1>4

\* A reader is served by streams of frames each of which is clear to it.
LEMMA ServedIf ==
    ASSUME NEW reader, NEW Symbol, NEW Item, NEW Family,
           Written(reader) \subseteq Seq(Family),
           \A frame \in Family : /\ frame \in FramesOf(Symbol, Item) /\ frame.bytes # <<>>
                                 /\ Clear(reader, Symbol, frame)
    PROVE  Served(reader, Symbol, Item)
<1>1. SUFFICES ASSUME NEW frames \in Seq(Family)
               PROVE  frames \in Streams(Symbol, Item) /\ Readable(reader, frames)
  BY Zenon DEF Served
<1>2. Family \subseteq FramesOf(Symbol, Item)
  BY Zenon
<1>3. frames \in Seq(FramesOf(Symbol, Item))
  BY <1>2, SeqMonotonic
<1>4. \A j \in 1 .. Len(frames) : frames[j] \in Family
  BY ElementOfSeq
<1>5. frames \in Streams(Symbol, Item)
  BY <1>3, <1>4, Zenon DEF Streams
<1>6. \A j \in 1 .. Len(frames) : Clear(reader, Symbol, frames[j])
  BY <1>4, Zenon
<1> QED BY <1>5, <1>6, ClearReadable

-----------------------------------------------------------------------------
(* The length-prefixed frames of Protocol *)

Byte == 0 .. 255

\* The lengths that fit in the header.
Length == {n \in Nat : n <= 4294967295}

\* ntohl undoes htonl, whose results are bytes.
LEMMA NetworkOrder ==
    ASSUME NEW len \in Length
    PROVE  htonl(len) \in Seq(Byte) /\ Len(htonl(len)) = 4 /\ ntohl(htonl(len)) = len
<1> DEFINE a == len \div 16777216
           b == (len \div 65536) % 256
           c == (len \div 256) % 256
           d == len % 256
<1>1. len \in Nat /\ len <= 4294967295
  BY SMT DEF Length
<1>2. /\ a \in 0 .. 255 /\ b \in 0 .. 255 /\ c \in 0 .. 255 /\ d \in 0 .. 255
      /\ a * 16777216 + b * 65536 + c * 256 + d = len
  <2> DEFINE q1 == len \div 256
             q2 == len \div 65536
  <2>1. q1 \in Nat /\ d \in 0 .. 255 /\ len = 256 * q1 + d
    BY <1>1, SMT
  <2>2. q2 \in Nat /\ q2 = q1 \div 256 /\ c \in 0 .. 255 /\ q1 = 256 * q2 + c
    BY <1>1, SMT
  <2>3. a \in Nat /\ a <= 255 /\ a = q2 \div 256 /\ b \in 0 .. 255 /\ q2 = 256 * a + b
    BY <1>1, SMT
  <2> HIDE DEF q1, q2, a, b, c, d
  <2> QED BY <2>1, <2>2, <2>3, SMT
<1> HIDE DEF a, b, c, d
<1>3. htonl(len) = <<a, b, c, d>>
  BY SMT DEF htonl, a, b, c, d
<1>4. <<a, b, c, d>> \in Seq(Byte) /\ Len(<<a, b, c, d>>) = 4
  BY <1>2 DEF Byte
<1>5. ntohl(<<a, b, c, d>>) = a * 16777216 + b * 65536 + c * 256 + d
  BY SMT DEF ntohl
<1> QED BY <1>2, <1>3, <1>4, <1>5, SMT

\* What the reader makes of the first n bytes of a frame and what follows it.
Expected(message, n) ==
    IF n < HeaderSize THEN [kind |-> "wait"]
    ELSE IF Len(message) > MaxMessage THEN [kind |-> "refused"]
    ELSE IF n < HeaderSize + Len(message) THEN [kind |-> "wait"]
    ELSE [kind |-> "ok", message |-> message, consumed |-> HeaderSize + Len(message)]

\* However much of a frame and of what comes after it has arrived,
\* read_message waits until the frame is whole, then returns the payload that
\* was encoded and leaves the bytes after the frame; a payload above the limit
\* is refused as soon as its header is there (protocol.cpp:9-80).
THEOREM FramesReadBack ==
    ASSUME NEW message \in Seq(Byte), Len(message) \in Length, NEW after \in Seq(Byte),
           NEW n \in 0 .. Len(encode(message) \o after)
    PROVE  read_message(SubSeq(encode(message) \o after, 1, n)) = Expected(message, n)
<1> DEFINE L == Len(message)
           h == htonl(L)
           all == encode(message) \o after
           bytes == SubSeq(all, 1, n)
<1>1. h \in Seq(Byte) /\ Len(h) = 4 /\ ntohl(h) = L
  BY NetworkOrder
<1>2. L \in Nat
  OBVIOUS
<1> HIDE DEF h
<1>3. encode(message) = h \o message
  BY DEF encode, h
<1>4. /\ encode(message) \in Seq(Byte) /\ Len(encode(message)) = 4 + L
      /\ \A i \in 1 .. 4 : encode(message)[i] = h[i]
      /\ \A i \in 1 .. L : encode(message)[4 + i] = message[i]
  <2> HIDE DEF L
  <2>1. message \in Seq(Byte) /\ L = Len(message)
    BY DEF L
  <2>2. /\ h \o message \in Seq(Byte) /\ Len(h \o message) = Len(h) + Len(message)
        /\ \A i \in 1 .. Len(h) + Len(message) :
              (h \o message)[i] = IF i <= Len(h) THEN h[i] ELSE message[i - Len(h)]
    BY <1>1, ConcatProperties, Zenon
  <2>3. \A i \in 1 .. L : (4 + i) \in 1 .. 4 + L /\ ~(4 + i <= 4) /\ (4 + i) - 4 = i
    BY <1>2
  <2>4. \A i \in 1 .. 4 : i \in 1 .. 4 + L
    BY <1>2
  <2> HIDE DEF h
  <2> QED BY <1>1, <1>3, <2>1, <2>2, <2>3, <2>4
<1> HIDE DEF L
<1>5. /\ all \in Seq(Byte) /\ Len(all) = 4 + L + Len(after) /\ Len(after) \in Nat
      /\ \A i \in 1 .. 4 + L : all[i] = encode(message)[i]
  <2> DEFINE e == encode(message)
  <2>1. e \in Seq(Byte) /\ Len(e) = 4 + L
    BY <1>4
  <2> HIDE DEF e
  <2>2. /\ e \o after \in Seq(Byte) /\ Len(e \o after) = Len(e) + Len(after)
        /\ \A i \in 1 .. Len(e) + Len(after) :
              (e \o after)[i] = IF i <= Len(e) THEN e[i] ELSE after[i - Len(e)]
    BY <2>1, ConcatProperties, Zenon
  <2>3. Len(after) \in Nat
    OBVIOUS
  <2>4. \A i \in 1 .. 4 + L : i \in 1 .. Len(e) + Len(after) /\ i <= Len(e)
    BY <1>2, <2>1, <2>3
  <2>5. all = e \o after
    BY DEF e
  <2> HIDE DEF all
  <2>6. \A i \in 1 .. 4 + L : all[i] = e[i]
    BY <2>2, <2>4, <2>5
  <2>7. Len(all) = 4 + L + Len(after)
    BY <2>1, <2>2, <2>5
  <2>8. all \in Seq(Byte)
    BY <2>2, <2>5, Zenon
  <2> QED BY <2>3, <2>6, <2>7, <2>8 DEF e
<1> HIDE DEF all
<1>6. n \in 0 .. Len(all)
  BY DEF all
<1>7. Len(bytes) = n /\ n \in Nat /\ \A i \in 1 .. n : bytes[i] = all[i]
  BY <1>5, <1>6
<1> HIDE DEF bytes
<1>8. ASSUME n >= 4 PROVE ntohl(bytes) = L
  <2>1. \A i \in 1 .. 4 : bytes[i] = h[i]
    BY <1>2, <1>4, <1>5, <1>7, <1>8
  <2>2. bytes[1] = h[1] /\ bytes[2] = h[2] /\ bytes[3] = h[3] /\ bytes[4] = h[4]
    BY <2>1
  <2> QED BY <1>1, <2>2, SMT DEF ntohl
<1>9. ASSUME n >= 4 + L PROVE SubSeq(bytes, 5, 4 + L) = message
  <2>1. \A i \in 1 .. L : bytes[4 + i] = message[i]
    BY <1>2, <1>4, <1>5, <1>7, <1>9
  <2>2. bytes \in Seq(Byte)
    BY <1>5, <1>6 DEF bytes
  <2>3. /\ SubSeq(bytes, 5, 4 + L) \in Seq(Byte)
        /\ Len(SubSeq(bytes, 5, 4 + L)) = L
        /\ \A i \in 1 .. L : SubSeq(bytes, 5, 4 + L)[i] = bytes[4 + i]
    BY <1>2, <1>7, <1>9, <2>2
  <2> DEFINE s == SubSeq(bytes, 5, 4 + L)
  <2>4. s \in Seq(Byte) /\ Len(s) = Len(message) /\ \A i \in 1 .. Len(s) : s[i] = message[i]
    BY <2>1, <2>3 DEF L
  <2> HIDE DEF s
  <2>5. s = message
    BY <2>4
  <2> QED BY <2>5 DEF s
<1>10. read_message(bytes) = Expected(message, n)
  <2>1. Len(message) = L
    BY DEF L
  <2>2. CASE n < 4
    BY <1>7, <2>2 DEF read_message, Expected, HeaderSize
  <2>3. CASE n >= 4 /\ L > MaxMessage
    <3>1. ~(n < 4)
      BY <1>7, <2>3
    <3> QED BY <1>7, <1>8, <2>1, <2>3, <3>1 DEF read_message, Expected, HeaderSize
  <2>4. CASE n >= 4 /\ ~(L > MaxMessage) /\ n < 4 + L
    <3>1. ~(n < 4)
      BY <1>7, <2>4
    <3> QED BY <1>7, <1>8, <2>1, <2>4, <3>1 DEF read_message, Expected, HeaderSize
  <2>5. CASE n >= 4 /\ ~(L > MaxMessage) /\ n >= 4 + L
    <3>1. ~(n < 4) /\ ~(n < 4 + L)
      BY <1>2, <1>7, <2>5
    <3>2. 4 + 1 = 5
      OBVIOUS
    <3>3. ntohl(bytes) = L /\ SubSeq(bytes, 4 + 1, 4 + L) = message /\ Len(bytes) = n
      BY <1>7, <1>8, <1>9, <2>5, <3>2
    <3> DEFINE ok == [kind |-> "ok", message |-> message, consumed |-> 4 + L]
    <3>4. read_message(bytes) = ok
      BY <2>5, <3>1, <3>3, Zenon DEF read_message, HeaderSize
    <3>5. Expected(message, n) = ok
      BY <2>1, <2>5, <3>1, Zenon DEF Expected, HeaderSize
    <3> QED BY <3>4, <3>5, Zenon
  <2> QED BY <1>2, <1>7, <2>2, <2>3, <2>4, <2>5
<1> QED BY <1>10 DEF bytes, all

\* What a sender may write to read_message: any payload within the limit, or
\* the header of one that is longer.
MessageFrame ==
    {LengthPrefixed(message) : message \in {m \in Seq(Byte) : Len(m) \in Length /\ Len(m) <= MaxMessage}}
      \cup {Closing(Frame(htonl(len), <<>>)) : len \in {l \in Length : l > MaxMessage}}

\* read_message waits for a whole message and takes just that
\* (protocol.cpp:55-81).
LEMMA MessageClear ==
    ASSUME NEW message \in Seq(Byte), Len(message) \in Length, Len(message) <= MaxMessage
    PROVE  /\ LengthPrefixed(message) \in FramesOf(Byte, Seq(Byte))
           /\ LengthPrefixed(message).bytes # <<>>
           /\ Clear("message", Byte, LengthPrefixed(message))
<1> DEFINE bytes == encode(message)
           L == Len(message)
<1>1. bytes \in Seq(Byte) /\ Len(bytes) = 4 + L /\ L \in Nat
  <2>1. htonl(L) \in Seq(Byte) /\ Len(htonl(L)) = 4
    BY NetworkOrder
  <2>2. encode(message) = htonl(L) \o message
    BY DEF encode
  <2> HIDE DEF L
  <2>3. htonl(L) \o message \in Seq(Byte) /\ Len(htonl(L) \o message) = Len(htonl(L)) + Len(message)
    BY <2>1, ConcatProperties, Zenon
  <2> QED BY <2>1, <2>2, <2>3 DEF L
<1>2. \A n \in 0 .. Len(bytes) : SubSeq(bytes, 1, n) = SubSeq(bytes \o <<>>, 1, n)
  <2> HIDE DEF bytes
  <2>1. bytes \o <<>> = bytes
    BY <1>1, ConcatEmptySeq
  <2> QED BY <2>1
<1>3. LengthPrefixed(message) = [bytes |-> bytes, gives |-> <<message>>, last |-> FALSE]
  BY DEF LengthPrefixed, Frame
<1>4. ASSUME NEW n \in 0 .. (Len(bytes) - 1) PROVE Round("message", SubSeq(bytes, 1, n)) = Waits
  <2>1. <<>> \in Seq(Byte) /\ bytes \o <<>> = bytes
    <3> HIDE DEF bytes
    <3> QED BY <1>1, ConcatEmptySeq
  <2>2. n \in 0 .. Len(encode(message) \o <<>>)
    BY <1>1, <2>1
  <2>3. read_message(SubSeq(bytes, 1, n)) = Expected(message, n)
    <3>1. read_message(SubSeq(encode(message) \o <<>>, 1, n)) = Expected(message, n)
      BY <2>1, <2>2, FramesReadBack, Zenon
    <3> QED BY <2>1, <3>1, Zenon
  <2>4. n \in Nat /\ n < 4 + L /\ ~(L > MaxMessage)
    BY <1>1, StreamAssumption
  <2>5. Expected(message, n).kind = "wait"
    BY <2>4 DEF Expected, HeaderSize
  <2> HIDE DEF bytes
  <2> QED BY <2>3, <2>5 DEF Round, ReadMessages
<1>5. ASSUME NEW rest \in Seq(Byte)
      PROVE  Round("message", bytes \o rest) = Takes(<<message>>, Len(bytes))
  <2> DEFINE all == bytes \o rest
  <2>1. all \in Seq(Byte) /\ Len(all) = 4 + L + Len(rest) /\ Len(rest) \in Nat
    <3> HIDE DEF bytes, L
    <3> QED BY <1>1, ConcatProperties
  <2>2. Len(all) \in 0 .. Len(encode(message) \o rest) /\ SubSeq(all, 1, Len(all)) = all
    BY <2>1, SubSeqFull
  <2>3. read_message(SubSeq(all, 1, Len(all))) = Expected(message, Len(all))
    BY <2>2, FramesReadBack
  <2>4. Expected(message, Len(all)) = [kind |-> "ok", message |-> message, consumed |-> 4 + L]
    <3>1. ~(Len(all) < 4) /\ ~(L > MaxMessage) /\ ~(Len(all) < 4 + L)
      BY <1>1, <2>1, StreamAssumption
    <3> HIDE DEF all
    <3> QED BY <3>1 DEF Expected, HeaderSize
  <2>5. read_message(all) = [kind |-> "ok", message |-> message, consumed |-> Len(bytes)]
    BY <1>1, <2>2, <2>3, <2>4, Zenon
  <2> HIDE DEF bytes, all
  <2>6. Round("message", all) = Takes(<<message>>, Len(bytes))
    BY <2>5 DEF Round, ReadMessages
  <2> QED BY <2>6 DEF all
<1> HIDE DEF bytes
<1>6. Clear("message", Byte, LengthPrefixed(message))
  BY <1>3, <1>4, <1>5 DEF Clear, Whole
<1>7. <<message>> \in Seq(Seq(Byte))
  OBVIOUS
<1> QED BY <1>1, <1>3, <1>6, <1>7 DEF FramesOf

\* A header with a length above the limit is refused once it is there
\* (protocol.cpp:65-70).
LEMMA OversizeClear ==
    ASSUME NEW len \in Length, len > MaxMessage
    PROVE  /\ Closing(Frame(htonl(len), <<>>)) \in FramesOf(Byte, Seq(Byte))
           /\ Closing(Frame(htonl(len), <<>>)).bytes # <<>>
           /\ Clear("message", Byte, Closing(Frame(htonl(len), <<>>)))
<1> DEFINE bytes == htonl(len)
           frame == Closing(Frame(bytes, <<>>))
<1>1. bytes \in Seq(Byte) /\ Len(bytes) = 4 /\ ntohl(bytes) = len
  BY NetworkOrder
<1> HIDE DEF bytes
<1>2. frame = [bytes |-> bytes, gives |-> <<>>, last |-> TRUE]
  <2> DEFINE plain == Frame(bytes, <<>>)
  <2>1. plain = [bytes |-> bytes, gives |-> <<>>, last |-> FALSE]
    BY Zenon DEF Frame
  <2> HIDE DEF plain
  <2>2. plain.bytes = bytes /\ plain.gives = <<>>
    BY <2>1
  <2> QED BY <2>2, Zenon DEF plain, Closing
<1>3. ASSUME NEW n \in 0 .. (Len(bytes) - 1) PROVE Round("message", SubSeq(bytes, 1, n)) = Waits
  <2> DEFINE begin == SubSeq(bytes, 1, n)
  <2>1. Len(begin) < 4
    BY <1>1
  <2> HIDE DEF begin
  <2>2. read_message(begin).kind = "wait"
    BY <2>1 DEF read_message, HeaderSize
  <2>3. Round("message", begin) = Waits
    BY <2>2 DEF Round, ReadMessages
  <2> QED BY <2>3 DEF begin
<1>4. ASSUME NEW rest \in Seq(Byte) PROVE Round("message", bytes \o rest) = GivesUp(<<>>, 0)
  <2> DEFINE all == bytes \o rest
  <2>1. /\ all \in Seq(Byte) /\ Len(all) = 4 + Len(rest) /\ Len(rest) \in Nat
        /\ \A i \in 1 .. 4 : all[i] = bytes[i]
    <3>1. /\ all \in Seq(Byte) /\ Len(all) = Len(bytes) + Len(rest)
          /\ \A i \in 1 .. Len(bytes) + Len(rest) :
                all[i] = IF i <= Len(bytes) THEN bytes[i] ELSE rest[i - Len(bytes)]
      BY <1>1, ConcatProperties, Zenon
    <3> HIDE DEF all
    <3>2. Len(rest) \in Nat
      OBVIOUS
    <3> QED BY <1>1, <3>1, <3>2
  <2> HIDE DEF all
  <2>2. all[1] = bytes[1] /\ all[2] = bytes[2] /\ all[3] = bytes[3] /\ all[4] = bytes[4]
    BY <2>1
  <2>3. ntohl(all) = len
    BY <1>1, <2>2 DEF ntohl
  <2>4. ~(Len(all) < 4)
    BY <2>1
  <2>5. read_message(all).kind = "refused"
    BY <2>3, <2>4 DEF read_message, HeaderSize
  <2>6. Round("message", all) = GivesUp(<<>>, 0)
    BY <2>5 DEF Round, ReadMessages
  <2> QED BY <2>6 DEF all
<1> HIDE DEF frame
<1>5. Clear("message", Byte, frame)
  BY <1>2, <1>3, <1>4 DEF Clear, Whole, GivesUp
<1>6. frame \in FramesOf(Byte, Seq(Byte)) /\ frame.bytes # <<>>
  <2>1. bytes # <<>> /\ <<>> \in Seq(Seq(Byte))
    BY <1>1
  <2> QED BY <1>1, <1>2, <2>1 DEF FramesOf
<1> QED BY <1>5, <1>6 DEF frame, bytes

\* Every payload of every length up to the limit, in streams of any number of
\* frames cut into reads in any way, is returned by read_message exactly when
\* its last byte has arrived, and a connection is given up exactly at a length
\* above the limit (protocol.cpp:9-86).
THEOREM MessagesIntact ==
    ASSUME Messages \subseteq Seq(MessageFrame)
    PROVE  Spec => []MessagesArriveIntact
<1>1. Served("message", Byte, Seq(Byte))
  <2>1. ASSUME NEW frame \in MessageFrame
        PROVE  /\ frame \in FramesOf(Byte, Seq(Byte)) /\ frame.bytes # <<>>
               /\ Clear("message", Byte, frame)
    <3>1. CASE \E message \in {m \in Seq(Byte) : Len(m) \in Length /\ Len(m) <= MaxMessage} :
                  frame = LengthPrefixed(message)
      BY <3>1, MessageClear
    <3>2. CASE \E len \in {l \in Length : l > MaxMessage} : frame = Closing(Frame(htonl(len), <<>>))
      BY <3>2, OversizeClear
    <3> QED BY <3>1, <3>2 DEF MessageFrame
  <2>2. Written("message") = Messages
    BY DEF Written
  <2> QED BY <2>1, <2>2, ServedIf, Zenon
<1>2. Init => StreamInv("message")
  BY InitInv
<1>3. StreamInv("message") /\ [Next]_vars => StreamInv("message")'
  BY <1>1, NextInv
<1>4. StreamInv("message") => MessagesArriveIntact
  BY <1>1, InTurnIntact DEF MessagesArriveIntact
<1> QED BY <1>2, <1>3, <1>4, PTL DEF Spec

-----------------------------------------------------------------------------
(* Recursive functions *)

\* What the recursive functions of the model are defined on, the size that
\* their arguments lose, and their bodies.
Arguments(kind) == IF kind = "decimal" THEN Nat ELSE Seq(Alphabet)

Size(kind, x) == IF kind = "decimal" THEN x ELSE Len(x)

Body(kind, f, x) ==
    CASE kind = "decimal" -> (IF x < 10 THEN <<Digits[x + 1]>>
                              ELSE f[x \div 10] \o <<Digits[(x % 10) + 1]>>)
      [] kind = "value" -> ReadValue(f, x)
      [] kind = "lines" -> (IF x = <<>> THEN <<>> ELSE <<GetLine(x).token>> \o f[GetLine(x).rest])
      [] kind = "response" -> Serialized(f, x)

\* A value takes a byte at least.
Took(value) == value.ok => value.consumed \in Nat \ {0}

\* The results on which a body may rely.
Sound(kind, v) == kind = "value" => Took(v)

Smaller(kind, n) == {x \in Arguments(kind) : Size(kind, x) < n}

\* f and g have the same results, sound ones, on what is smaller than n.
Same(kind, f, g, n) == \A x \in Smaller(kind, n) : f[x] = g[x] /\ Sound(kind, f[x])

\* A body only looks at results for smaller arguments.
Recursive(kind) ==
    /\ \A x \in Arguments(kind) : Size(kind, x) \in Nat
    /\ \A f, g : \A x \in Arguments(kind) :
          Same(kind, f, g, Size(kind, x)) => /\ Body(kind, f, x) = Body(kind, g, x)
                                             /\ Sound(kind, Body(kind, f, x))

\* g is the function as far as the arguments smaller than n.
Upto(kind, g, n) == g = [x \in Smaller(kind, n) |-> Body(kind, g, x)]

\* A recursive function exists on the arguments below any size.
LEMMA UptoExists ==
    ASSUME NEW kind, Recursive(kind), NEW n \in Nat
    PROVE  \E g : Upto(kind, g, n) /\ Same(kind, g, g, n)
<1> DEFINE S == {k \in Nat : \E g : Upto(kind, g, k) /\ Same(kind, g, g, k)}
<1>1. \A x \in Arguments(kind) : Size(kind, x) \in Nat
  BY DEF Recursive
<1>2. 0 \in S
  <2>1. Smaller(kind, 0) = {}
    BY <1>1 DEF Smaller
  <2> DEFINE g == [x \in Smaller(kind, 0) |-> 0]
  <2>2. g = [x \in Smaller(kind, 0) |-> Body(kind, g, x)]
    BY <2>1
  <2>3. Upto(kind, g, 0) /\ Same(kind, g, g, 0)
    BY <2>1, <2>2, Zenon DEF Upto, Same
  <2> QED BY <2>3
<1>3. ASSUME NEW k \in Nat, k \in S PROVE k + 1 \in S
  <2>1. PICK g : Upto(kind, g, k) /\ Same(kind, g, g, k)
    BY <1>3
  <2> DEFINE h == [x \in Smaller(kind, k + 1) |-> Body(kind, g, x)]
  <2>2. ASSUME NEW x \in Smaller(kind, k + 1)
        PROVE  Body(kind, h, x) = Body(kind, g, x) /\ Sound(kind, h[x])
    <3>1. x \in Arguments(kind) /\ Size(kind, x) \in Nat /\ Size(kind, x) <= k
      BY <1>1 DEF Smaller
    <3>2. ASSUME NEW y \in Smaller(kind, Size(kind, x))
          PROVE  g[y] = h[y] /\ Sound(kind, g[y])
      <4>1. y \in Smaller(kind, k) /\ y \in Smaller(kind, k + 1)
        BY <1>1, <3>1 DEF Smaller
      <4>2. g[y] = Body(kind, g, y)
        BY <2>1, <4>1, Zenon DEF Upto
      <4>3. h[y] = Body(kind, g, y)
        BY <4>1
      <4> QED BY <2>1, <4>1, <4>2, <4>3, Zenon DEF Same
    <3>3. Same(kind, g, h, Size(kind, x))
      BY <3>2, Zenon DEF Same
    <3>4. Body(kind, g, x) = Body(kind, h, x) /\ Sound(kind, Body(kind, g, x))
      BY <3>1, <3>3, Zenon DEF Recursive
    <3> QED BY <3>4
  <2>3. h = [x \in Smaller(kind, k + 1) |-> Body(kind, h, x)]
    <3> HIDE DEF h
    <3>1. h = [x \in Smaller(kind, k + 1) |-> Body(kind, g, x)]
      BY Zenon DEF h
    <3> QED BY <2>2, <3>1
  <2> HIDE DEF h
  <2>4. Upto(kind, h, k + 1) /\ Same(kind, h, h, k + 1)
    BY <2>2, <2>3, Zenon DEF Upto, Same
  <2> QED BY <2>4
<1>4. Nat \subseteq S
  <2> HIDE DEF S
  <2> QED BY <1>2, <1>3, NatInductionSet
<1> QED BY <1>4

\* Two of them agree where both are defined.
LEMMA UptoSame ==
    ASSUME NEW kind, Recursive(kind), NEW f, NEW g, NEW n \in Nat, NEW m \in Nat, n <= m,
           Upto(kind, f, n), Upto(kind, g, m)
    PROVE  Same(kind, f, g, n)
<1> DEFINE S == {k \in Nat : k <= n => Same(kind, f, g, k)}
<1>1. \A x \in Arguments(kind) : Size(kind, x) \in Nat
  BY DEF Recursive
<1>2. 0 \in S
  <2>1. Smaller(kind, 0) = {}
    BY <1>1 DEF Smaller
  <2> QED BY <2>1 DEF Same
<1>3. ASSUME NEW k \in Nat, k \in S PROVE k + 1 \in S
  <2> SUFFICES ASSUME k + 1 <= n, NEW x \in Smaller(kind, k + 1)
               PROVE  f[x] = g[x] /\ Sound(kind, f[x])
    BY DEF Same
  <2>1. Same(kind, f, g, k)
    BY <1>3
  <2>2. x \in Arguments(kind) /\ Size(kind, x) \in Nat /\ Size(kind, x) <= k
    BY <1>1 DEF Smaller
  <2>3. Same(kind, f, g, Size(kind, x))
    <3>1. \A y \in Smaller(kind, Size(kind, x)) : y \in Smaller(kind, k)
      BY <1>1, <2>2 DEF Smaller
    <3> QED BY <2>1, <3>1, Zenon DEF Same
  <2>4. Body(kind, f, x) = Body(kind, g, x) /\ Sound(kind, Body(kind, f, x))
    BY <2>2, <2>3, Zenon DEF Recursive
  <2>5. x \in Smaller(kind, n) /\ x \in Smaller(kind, m)
    BY <2>2 DEF Smaller
  <2>6. f[x] = Body(kind, f, x) /\ g[x] = Body(kind, g, x)
    BY <2>5, Zenon DEF Upto
  <2> QED BY <2>4, <2>6, Zenon
<1>4. n \in S
  <2> HIDE DEF S
  <2> QED BY <1>2, <1>3, NatInductionSet
<1> QED BY <1>4

\* Every such body has its function.
LEMMA RecursionExists ==
    ASSUME NEW kind, Recursive(kind)
    PROVE  \E f : f = [x \in Arguments(kind) |-> Body(kind, f, x)]
<1> DEFINE part(n) == CHOOSE g : Upto(kind, g, n) /\ Same(kind, g, g, n)
           f == [x \in Arguments(kind) |-> part(Size(kind, x) + 1)[x]]
<1>1. \A x \in Arguments(kind) : Size(kind, x) \in Nat
  BY DEF Recursive
<1>2. ASSUME NEW n \in Nat PROVE Upto(kind, part(n), n)
  BY UptoExists, Zenon
<1> HIDE DEF part
<1>3. ASSUME NEW x \in Arguments(kind) PROVE f[x] = Body(kind, f, x)
  <2> DEFINE n == Size(kind, x)
             g == part(n + 1)
  <2>1. n \in Nat /\ n + 1 \in Nat
    BY <1>1
  <2>2. Upto(kind, g, n + 1)
    BY <1>2, <2>1
  <2>3. ASSUME NEW y \in Smaller(kind, n) PROVE g[y] = f[y] /\ Sound(kind, g[y])
    <3> DEFINE m == Size(kind, y)
    <3>1. y \in Arguments(kind) /\ m \in Nat /\ m + 1 \in Nat /\ m + 1 <= n + 1
      BY <1>1, <2>1 DEF Smaller
    <3>2. f[y] = part(m + 1)[y]
      BY <3>1
    <3>3. y \in Smaller(kind, m + 1)
      BY <3>1 DEF Smaller
    <3> HIDE DEF m, n, f, g
    <3>4. Upto(kind, part(m + 1), m + 1)
      BY <1>2, <3>1
    <3>5. Same(kind, part(m + 1), g, m + 1)
      BY <2>1, <2>2, <3>1, <3>4, UptoSame, Zenon
    <3>6. part(m + 1)[y] = g[y] /\ Sound(kind, part(m + 1)[y])
      BY <3>3, <3>5, Zenon DEF Same
    <3> QED BY <3>2, <3>6, Zenon
  <2>4. f[x] = g[x]
    OBVIOUS
  <2> HIDE DEF f, g
  <2>5. Same(kind, g, f, Size(kind, x))
    BY <2>3, Zenon DEF Same, n
  <2>6. Body(kind, g, x) = Body(kind, f, x)
    BY <2>5, Zenon DEF Recursive
  <2>7. g[x] = Body(kind, g, x)
    <3>1. x \in Smaller(kind, n + 1)
      BY <2>1 DEF Smaller
    <3> QED BY <2>2, <3>1, Zenon DEF Upto
  <2> QED BY <2>4, <2>6, <2>7, Zenon
<1>4. f = [x \in Arguments(kind) |-> Body(kind, f, x)]
  <2> DEFINE h == [x \in Arguments(kind) |-> Body(kind, f, x)]
  <2>1. \A x \in Arguments(kind) : f[x] = h[x]
    BY <1>3
  <2>2. f = [x \in Arguments(kind) |-> f[x]] /\ h = [x \in Arguments(kind) |-> h[x]]
    OBVIOUS
  <2> HIDE DEF f, h
  <2>3. f = h
    BY <2>1, <2>2
  <2> QED BY <2>3 DEF h
<1> HIDE DEF f
<1> QED BY <1>4

-----------------------------------------------------------------------------
(* Numbers in decimal *)

\* Decimal calls itself with smaller numbers only.
LEMMA DecimalRecursive == Recursive("decimal")
<1>1. \A x \in Arguments("decimal") : Size("decimal", x) \in Nat
  BY DEF Arguments, Size
<1>2. ASSUME NEW f, NEW g, NEW x \in Arguments("decimal"), Same("decimal", f, g, Size("decimal", x))
      PROVE  Body("decimal", f, x) = Body("decimal", g, x)
  <2>1. x \in Nat /\ Size("decimal", x) = x
    BY DEF Arguments, Size
  <2>2. CASE x < 10
    BY <2>2 DEF Body
  <2>3. CASE ~(x < 10)
    <3>1. x \div 10 \in Nat /\ x \div 10 < x
      BY <2>1, <2>3
    <3>2. x \div 10 \in Smaller("decimal", x)
      BY <3>1 DEF Smaller, Arguments, Size
    <3>3. f[x \div 10] = g[x \div 10]
      BY <1>2, <2>1, <3>2 DEF Same
    <3> QED BY <2>3, <3>3 DEF Body
  <2> QED BY <2>2, <2>3
<1> QED BY <1>1, <1>2 DEF Recursive, Sound

\* std::to_string, digit by digit.
LEMMA DecimalDigits ==
    \A n \in Nat : Decimal[n] = IF n < 10 THEN <<Digits[n + 1]>>
                                ELSE Decimal[n \div 10] \o <<Digits[(n % 10) + 1]>>
<1> DEFINE P(f) == f = [n \in Nat |-> IF n < 10 THEN <<Digits[n + 1]>>
                                      ELSE f[n \div 10] \o <<Digits[(n % 10) + 1]>>]
<1>1. Decimal = CHOOSE f : P(f)
  BY Zenon DEF Decimal
<1>2. \E f : P(f)
  <2>1. PICK f : f = [x \in Arguments("decimal") |-> Body("decimal", f, x)]
    BY DecimalRecursive, RecursionExists
  <2>2. Arguments("decimal") = Nat
    BY DEF Arguments
  <2>3. \A x \in Nat : Body("decimal", f, x) = IF x < 10 THEN <<Digits[x + 1]>>
                                  ELSE f[x \div 10] \o <<Digits[(x % 10) + 1]>>
    BY DEF Body
  <2>4. [x \in Nat |-> Body("decimal", f, x)]
          = [n \in Nat |-> IF n < 10 THEN <<Digits[n + 1]>>
                           ELSE f[n \div 10] \o <<Digits[(n % 10) + 1]>>]
    BY <2>3
  <2> QED BY <2>1, <2>2, <2>4, Zenon
<1> HIDE DEF P
<1>3. P(Decimal)
  BY <1>1, <1>2, Zenon
<1> DEFINE B(n) == IF n < 10 THEN <<Digits[n + 1]>>
                   ELSE Decimal[n \div 10] \o <<Digits[(n % 10) + 1]>>
<1>4. Decimal = [n \in Nat |-> B(n)]
  BY <1>3, Zenon DEF P
<1> HIDE DEF B
<1>5. \A n \in Nat : Decimal[n] = B(n)
  BY <1>4, Zenon
<1> QED BY <1>5, Zenon DEF B

Digit == {"0", "1", "2", "3", "4", "5", "6", "7", "8", "9"}

\* The ten digits, their values, and what they are not.
LEMMA DigitFacts ==
    /\ \A i \in 0 .. 9 : Digits[i + 1] \in Digit /\ DigitValue(Digits[i + 1]) = i
    /\ \A ch : IsDigit(ch) <=> ch \in Digit
    /\ \A ch \in Digit : ~IsSpace(ch) /\ ch \in Alphabet /\ ch # CR /\ ch # LF /\ ch \notin {"-", "+"}
                         /\ DigitValue(ch) \in 0 .. 9
<1>1. \A i \in 0 .. 9 : Digits[i + 1] \in Digit
  BY DEF Digits, Digit
<1>2. ASSUME NEW i \in 0 .. 9 PROVE DigitValue(Digits[i + 1]) = i
  <2>1. \A j \in 1 .. 10 : Digits[j] = Digits[i + 1] => j = i + 1
    BY DEF Digits
  <2>2. i + 1 \in 1 .. 10
    OBVIOUS
  <2>3. (CHOOSE j \in 1 .. 10 : Digits[j] = Digits[i + 1]) = i + 1
    BY <2>1, <2>2
  <2>4. DigitValue(Digits[i + 1]) = (i + 1) - 1
    BY <2>3, Zenon DEF DigitValue
  <2> QED BY <2>4
<1>3. \A ch : IsDigit(ch) <=> ch \in Digit
  <2>1. DOMAIN Digits = 1 .. 10
    BY DEF Digits
  <2>2. Range(Digits) = {Digits[i] : i \in 1 .. 10}
    BY <2>1 DEF Range
  <2>3. {Digits[i] : i \in 1 .. 10} = Digit
    BY DEF Digits, Digit
  <2> QED BY <2>2, <2>3 DEF IsDigit
<1>4. \A ch \in Digit : \E i \in 0 .. 9 : ch = Digits[i + 1]
  BY DEF Digits, Digit
<1>5. Digit \subseteq Alphabet
  BY AlphabetAssumption, Zenon DEF Digit
<1>6. \A ch \in Digit : ch \notin {"CR", "LF", "SP", "TAB", "-", "+"}
  BY DEF Digit
<1>7. \A ch \in Digit : ~IsSpace(ch) /\ ch # CR /\ ch # LF /\ ch \notin {"-", "+"}
  BY <1>6 DEF IsSpace, CR, LF, SP, TAB
<1>8. \A ch \in Digit : DigitValue(ch) \in 0 .. 9
  BY <1>2, <1>4, Zenon
<1> QED BY <1>1, <1>2, <1>3, <1>5, <1>7, <1>8, Zenon

\* Number is a loop over the digits.
LEMMA NumberRuns ==
    ASSUME NEW digits, Len(digits) \in Nat
    PROVE  \E f : Runs(f, "number", digits, 0, Len(digits)) /\ Number(digits) = f[Len(digits)]
<1> DEFINE N == Len(digits)
           P(f) == f = [i \in 0 .. N |-> IF i = 0 THEN 0 ELSE 10 * f[i - 1] + DigitValue(digits[i])]
<1>1. \A f : P(f) <=> Runs(f, "number", digits, 0, N)
  BY DEF Runs, Turn
<1>2. \E f : P(f)
  <2> HIDE DEF P
  <2> QED BY <1>1, RunsExist
<1>3. Number(digits) = (CHOOSE f : P(f))[N]
  BY Zenon DEF Number
<1> HIDE DEF P
<1>4. P(CHOOSE f : P(f))
  BY <1>2, Zenon
<1> QED BY <1>1, <1>3, <1>4, Zenon

\* The number of some digits and one more.
LEMMA NumberAppend ==
    ASSUME NEW d \in Seq(Digit), NEW c \in Digit
    PROVE  Number(<<>>) = 0 /\ Number(d \o <<c>>) = 10 * Number(d) + DigitValue(c)
<1> DEFINE N == Len(d)
           e == d \o <<c>>
<1>1. N \in Nat /\ Len(e) = N + 1 /\ e[N + 1] = c /\ \A i \in 1 .. N : e[i] = d[i]
  OBVIOUS
<1>2. PICK f : Runs(f, "number", d, 0, N) /\ Number(d) = f[N]
  BY <1>1, NumberRuns
<1>3. PICK g : Runs(g, "number", e, 0, N + 1) /\ Number(e) = g[N + 1]
  <2> HIDE DEF e
  <2>1. Len(e) \in Nat
    BY <1>1
  <2>2. \E g : Runs(g, "number", e, 0, Len(e)) /\ Number(e) = g[Len(e)]
    BY <2>1, NumberRuns
  <2> QED BY <1>1, <2>2
<1> HIDE DEF N, e
<1>4. /\ f[0] = 0
      /\ \A i \in 0 .. N : i + 1 \in 0 .. N => f[i + 1] = 10 * f[i] + DigitValue(d[i + 1])
  BY <1>1, <1>2, RunsInTurn DEF Turn
<1>5. /\ g[0] = 0
      /\ \A i \in 0 .. N + 1 : i + 1 \in 0 .. N + 1 => g[i + 1] = 10 * g[i] + DigitValue(e[i + 1])
  <2>1. N + 1 \in Nat
    BY <1>1
  <2> DEFINE M == N + 1
  <2> HIDE DEF M
  <2>2. M \in Nat /\ Runs(g, "number", e, 0, M)
    BY <1>3, <2>1 DEF M
  <2>3. /\ g[0] = 0
        /\ \A i \in 0 .. M : i + 1 \in 0 .. M => g[i + 1] = Turn("number", e, g[i], i + 1)
    BY <2>2, RunsInTurn
  <2>4. /\ g[0] = 0
        /\ \A i \in 0 .. M : i + 1 \in 0 .. M => g[i + 1] = 10 * g[i] + DigitValue(e[i + 1])
    BY <2>3 DEF Turn
  <2> QED BY <2>4 DEF M
<1> DEFINE S == {i \in Nat : i <= N => g[i] = f[i]}
<1>6. 0 \in S
  BY <1>4, <1>5
<1>7. ASSUME NEW i \in Nat, i \in S PROVE i + 1 \in S
  <2> SUFFICES ASSUME i + 1 <= N PROVE g[i + 1] = f[i + 1]
    OBVIOUS
  <2>1. i \in 0 .. N /\ i + 1 \in 0 .. N /\ i \in 0 .. N + 1 /\ i + 1 \in 0 .. N + 1 /\ i + 1 \in 1 .. N
    BY <1>1
  <2>2. g[i] = f[i] /\ e[i + 1] = d[i + 1]
    BY <1>1, <1>7, <2>1
  <2>3. f[i + 1] = 10 * f[i] + DigitValue(d[i + 1])
    BY <1>4, <2>1, Zenon
  <2>4. g[i + 1] = 10 * g[i] + DigitValue(e[i + 1])
    BY <1>5, <2>1, Zenon
  <2> QED BY <2>2, <2>3, <2>4, Zenon
<1>8. N \in S
  <2> HIDE DEF S
  <2> QED BY <1>1, <1>6, <1>7, NatInductionSet
<1>9. g[N] = f[N]
  BY <1>1, <1>8
<1>10. g[N + 1] = 10 * g[N] + DigitValue(e[N + 1])
  <2>1. N \in 0 .. N + 1 /\ N + 1 \in 0 .. N + 1
    BY <1>1
  <2> QED BY <1>5, <2>1, Zenon
<1>11. Number(e) = 10 * Number(d) + DigitValue(c)
  BY <1>1, <1>2, <1>3, <1>9, <1>10, Zenon
<1>12. Number(<<>>) = 0
  <2>1. Len(<<>>) = 0 /\ Len(<<>>) \in Nat
    OBVIOUS
  <2>2. PICK h : Runs(h, "number", <<>>, 0, 0) /\ Number(<<>>) = h[0]
    BY <2>1, NumberRuns
  <2> QED BY <2>2, RunsInTurn
<1> QED BY <1>11, <1>12 DEF e

\* The digits of a number stand for it.
LEMMA DecimalText ==
    ASSUME NEW n \in Nat
    PROVE  Decimal[n] \in Seq(Digit) /\ Decimal[n] # <<>> /\ Number(Decimal[n]) = n
<1> DEFINE P(i) == Decimal[i] \in Seq(Digit) /\ Decimal[i] # <<>> /\ Number(Decimal[i]) = i
           S == {k \in Nat : \A i \in Nat : i < k => P(i)}
<1>1. 0 \in S
  OBVIOUS
<1>2. ASSUME NEW k \in Nat, k \in S PROVE P(k)
  <2>1. CASE k < 10
    <3> DEFINE c == Digits[k + 1]
    <3>1. k \in 0 .. 9
      BY <2>1
    <3>2. c \in Digit /\ DigitValue(c) = k
      BY <3>1, DigitFacts
    <3>3. Decimal[k] = <<c>>
      BY <2>1, DecimalDigits, Zenon
    <3> HIDE DEF c
    <3>4. <<c>> \in Seq(Digit) /\ <<c>> # <<>> /\ <<>> \in Seq(Digit) /\ <<>> \o <<c>> = <<c>>
      BY <3>2
    <3>5. Number(<<>> \o <<c>>) = 10 * Number(<<>>) + DigitValue(c) /\ Number(<<>>) = 0
      BY <3>2, <3>4, NumberAppend, Zenon
    <3>6. Number(<<>> \o <<c>>) = 10 * 0 + k
      BY <3>2, <3>5, Zenon
    <3>7. Number(<<c>>) = 10 * 0 + k
      BY <3>4, <3>6, Zenon
    <3>8. 10 * 0 + k = k
      OBVIOUS
    <3> QED BY <3>3, <3>4, <3>7, <3>8, Zenon
  <2>2. CASE ~(k < 10)
    <3> DEFINE q == k \div 10
               r == k % 10
               c == Digits[r + 1]
               d == Decimal[q]
    <3>1. q \in Nat /\ q < k /\ r \in 0 .. 9 /\ 10 * q + r = k
      BY <2>2
    <3>2. c \in Digit /\ DigitValue(c) = r
      BY <3>1, DigitFacts
    <3>3. d \in Seq(Digit) /\ d # <<>> /\ Number(d) = q
      BY <1>2, <3>1
    <3>4. Decimal[k] = d \o <<c>>
      BY <2>2, DecimalDigits, Zenon
    <3> HIDE DEF q, r, c, d
    <3>5. d \o <<c>> \in Seq(Digit) /\ d \o <<c>> # <<>>
      BY <3>2, <3>3
    <3>6. Number(d \o <<c>>) = 10 * Number(d) + DigitValue(c)
      BY <3>2, <3>3, NumberAppend, Zenon
    <3>7. Number(d \o <<c>>) = 10 * q + r
      BY <3>2, <3>3, <3>6, Zenon
    <3> QED BY <3>1, <3>4, <3>5, <3>7, Zenon
  <2> QED BY <2>1, <2>2
<1> HIDE DEF P
<1>3. ASSUME NEW k \in Nat, k \in S PROVE k + 1 \in S
  <2>1. \A i \in Nat : i < k + 1 => i < k \/ i = k
    OBVIOUS
  <2>2. P(k)
    BY <1>2, <1>3
  <2> QED BY <1>3, <2>1, <2>2
<1>4. n + 1 \in S
  <2> HIDE DEF S
  <2> QED BY <1>1, <1>3, NatInductionSet
<1>5. P(n)
  BY <1>4
<1> QED BY <1>5 DEF P

\* The least member of a set of numbers.
LEMMA LeastIs ==
    ASSUME NEW S, NEW i \in S, i \in Int, \A j \in S : j \in Int /\ i <= j
    PROVE  Min(S) = i
<1>1. \A x \in S : (\A y \in S : x =< y) => x = i
  OBVIOUS
<1>2. \A y \in S : i =< y
  OBVIOUS
<1> QED BY <1>1, <1>2, Zenon DEF Min

\* An element of a set with none of the set before it is its minimum.
LEMMA FirstIs ==
    ASSUME NEW N \in Nat, NEW i \in 1 .. N, NEW S \in SUBSET (1 .. N), i \in S,
           \A j \in 1 .. (i - 1) : j \notin S
    PROVE  S # {} /\ Min(S) = i
<1>1. \A j \in S : j \in Int /\ i <= j
  OBVIOUS
<1>2. i \in Int /\ S # {}
  OBVIOUS
<1> QED BY <1>1, <1>2, LeastIs, Zenon

\* What std::stoi makes of digits.
LEMMA DigitsRead ==
    ASSUME NEW text \in Seq(Digit), text # <<>>
    PROVE  IsNumber(text) /\ stoi(text) = Number(text)
<1> DEFINE N == Len(text)
<1>1. N \in Nat /\ N >= 1 /\ 1 \in 1 .. N /\ \A i \in 1 .. N : text[i] \in Digit
  OBVIOUS
<1>2. SkipSpace(text) = text
  <2> DEFINE I == {i \in 1 .. N : NotSpace(text[i])}
  <2>1. 1 \in I
    BY <1>1, DigitFacts DEF NotSpace
  <2>2. I # {} /\ Min(I) = 1
    <3>1. I \in SUBSET (1 .. N) /\ \A j \in 1 .. (1 - 1) : j \notin I
      OBVIOUS
    <3> HIDE DEF I
    <3> QED BY <1>1, <2>1, <3>1, FirstIs
  <2>3. SelectInSeq(text, NotSpace) = 1
    BY <2>2, Zenon DEF SelectInSeq
  <2>4. From(text, 1) = text
    BY SubSeqFull DEF From
  <2> QED BY <2>3, <2>4 DEF SkipSpace
<1>3. UnsignedPart(text) = text
  <2>1. Head(text) = text[1]
    BY <1>1
  <2>2. Head(text) \notin {"-", "+"}
    BY <1>1, <2>1, DigitFacts
  <2> QED BY <2>2 DEF UnsignedPart, Signed
<1>4. LeadingDigits(text) = text
  <2>1. {i \in 1 .. N : NotDigit(text[i])} = {}
    BY <1>1, DigitFacts DEF NotDigit
  <2>2. SelectInSeq(text, NotDigit) = 0
    BY <2>1, Zenon DEF SelectInSeq
  <2> QED BY <2>2 DEF LeadingDigits
<1>5. NumberDigits(text) = text
  BY <1>2, <1>3, <1>4, Zenon DEF NumberDigits
<1>6. text[1] # "-"
  BY <1>1, DigitFacts
<1>7. stoi(text) = Number(text)
  BY <1>2, <1>5, <1>6, Zenon DEF stoi
<1> QED BY <1>5, <1>7, Zenon DEF IsNumber

\* std::stoi undoes std::to_string.
LEMMA NumberRead ==
    ASSUME NEW n \in Nat
    PROVE  /\ to_string(n) \in Seq(Digit) /\ to_string(n) # <<>>
           /\ IsNumber(to_string(n)) /\ stoi(to_string(n)) = n
           /\ n <= IntMax => IsInt(to_string(n))
<1> DEFINE text == to_string(n)
<1>1. text = Decimal[n]
  BY DEF to_string
<1>2. text \in Seq(Digit) /\ text # <<>> /\ Number(text) = n
  BY <1>1, DecimalText, Zenon
<1> HIDE DEF text
<1>3. IsNumber(text) /\ stoi(text) = n
  BY <1>2, DigitsRead, Zenon
<1>4. n <= IntMax => IsInt(text)
  <2>1. n >= -IntMax - 1
    BY DEF IntMax
  <2> QED BY <1>3, <2>1, Zenon DEF IsInt
<1> QED BY <1>2, <1>3, <1>4 DEF text

-----------------------------------------------------------------------------
(* Lines *)

\* find_crlf finds a CR LF that none comes before (resp.cpp:14-21).
LEMMA CrlfIs ==
    ASSUME NEW buf, Len(buf) \in Nat, NEW start \in Nat \ {0}, NEW p \in start .. (Len(buf) - 1),
           buf[p] = CR /\ buf[p + 1] = LF,
           \A i \in start .. (p - 1) : ~(buf[i] = CR /\ buf[i + 1] = LF)
    PROVE  find_crlf(buf, start) = p
<1> DEFINE at == {i \in start .. (Len(buf) - 1) : buf[i] = CR /\ buf[i + 1] = LF}
<1>1. p \in at /\ p \in Int
  OBVIOUS
<1>2. \A i \in at : i \in Int /\ p <= i
  OBVIOUS
<1>3. find_crlf(buf, start) = IF at = {} THEN Npos ELSE Min(at)
  BY Zenon DEF find_crlf
<1> HIDE DEF at
<1>4. Min(at) = p
  BY <1>1, <1>2, LeastIs, Zenon
<1> QED BY <1>1, <1>3, <1>4

\* find_crlf finds nothing where there is no CR LF (resp.cpp:14-21).
LEMMA NoCrlf ==
    ASSUME NEW buf, NEW start,
           \A i \in start .. (Len(buf) - 1) : ~(buf[i] = CR /\ buf[i + 1] = LF)
    PROVE  find_crlf(buf, start) = Npos
<1> DEFINE at == {i \in start .. (Len(buf) - 1) : buf[i] = CR /\ buf[i + 1] = LF}
<1>1. at = {}
  OBVIOUS
<1> QED BY <1>1, Zenon DEF find_crlf

\* After position pos, as far as it goes, buf holds text.
Continues(buf, pos, text) == \A i \in 1 .. Len(text) : pos + i <= Len(buf) => buf[pos + i] = text[i]

\* No line ends inside text.
OneLine(text) == \A i \in 1 .. (Len(text) - 1) : ~(text[i] = CR /\ text[i + 1] = LF)

\* A line after a mark: its end is found once it is there.
LEMMA LineRead ==
    ASSUME NEW S, NEW buf \in Seq(S), NEW text \in Seq(S), OneLine(text),
           NEW pos \in 1 .. Len(buf), buf[pos] # CR, Continues(buf, pos, text \o EOL)
    PROVE  IF pos + Len(text) + 2 <= Len(buf)
           THEN /\ find_crlf(buf, pos) = pos + Len(text) + 1
                /\ SubSeq(buf, pos + 1, pos + Len(text)) = text
           ELSE find_crlf(buf, pos) = Npos
<1> DEFINE D == Len(text)
           L == Len(buf)
           t == text \o EOL
           e == pos + D + 1
<1>1. D \in Nat /\ L \in Nat /\ pos \in Nat /\ pos >= 1 /\ pos <= L
  OBVIOUS
<1>2. /\ Len(t) = D + 2 /\ t[D + 1] = CR /\ t[D + 2] = LF
      /\ \A i \in 1 .. D : t[i] = text[i]
  BY DEF EOL
<1>3. CR # LF
  BY DEF CR, LF
<1> HIDE DEF D, L, t
<1>4. \A i \in 1 .. D + 2 : pos + i <= L => buf[pos + i] = t[i]
  BY <1>2 DEF Continues, t, L
<1>5. ASSUME NEW i \in pos .. (L - 1), i # e PROVE ~(buf[i] = CR /\ buf[i + 1] = LF) \/ i > e
  <2> DEFINE k == i - pos
  <2>1. k \in Nat /\ i = pos + k /\ i + 1 = pos + (k + 1) /\ i + 1 <= L /\ i \in Nat
    BY <1>1
  <2>2. CASE k = 0
    BY <2>1, <2>2
  <2>3. CASE k \in 1 .. (D - 1)
    <3>1. k \in 1 .. D + 2 /\ k + 1 \in 1 .. D + 2 /\ k \in 1 .. D /\ k + 1 \in 1 .. D
      BY <1>1, <2>3
    <3>2. buf[i] = text[k] /\ buf[i + 1] = text[k + 1]
      <4>1. pos + k <= L /\ pos + (k + 1) <= L
        BY <1>1, <2>1
      <4> HIDE DEF k
      <4>2. buf[pos + k] = t[k] /\ buf[pos + (k + 1)] = t[k + 1]
        BY <1>4, <3>1, <4>1, Zenon
      <4> QED BY <1>2, <2>1, <3>1, <4>2, Zenon
    <3> QED BY <2>3, <3>2 DEF OneLine, D
  <2>4. CASE k = D /\ D # 0
    <3>1. D + 1 \in 1 .. D + 2 /\ pos + (D + 1) <= L /\ i + 1 = pos + (D + 1)
      BY <1>1, <2>1, <2>4
    <3>2. buf[i + 1] = CR
      BY <1>2, <1>4, <3>1
    <3> QED BY <1>3, <3>2
  <2>5. CASE k > D + 1
    BY <1>1, <2>1, <2>5
  <2> QED BY <1>1, <1>5, <2>1, <2>2, <2>3, <2>4, <2>5
<1>6. CASE pos + D + 2 <= L
  <2>1. e \in pos .. (L - 1) /\ e \in Nat /\ e + 1 = pos + (D + 2) /\ e = pos + (D + 1)
    BY <1>1, <1>6
  <2>2. buf[e] = CR /\ buf[e + 1] = LF
    <3>1. D + 1 \in 1 .. D + 2 /\ D + 2 \in 1 .. D + 2 /\ pos + (D + 1) <= L /\ pos + (D + 2) <= L
      BY <1>1, <1>6
    <3> QED BY <1>2, <1>4, <2>1, <3>1
  <2>3. \A i \in pos .. (e - 1) : i \in pos .. (L - 1) /\ i # e /\ ~(i > e)
    BY <1>1, <2>1
  <2>4. \A i \in pos .. (e - 1) : ~(buf[i] = CR /\ buf[i + 1] = LF)
    BY <1>5, <2>3
  <2>5. find_crlf(buf, pos) = e
    <3>1. pos \in Nat \ {0} /\ Len(buf) \in Nat /\ e \in pos .. (Len(buf) - 1)
      BY <1>1, <2>1 DEF L
    <3> HIDE DEF e
    <3> QED BY <2>2, <2>4, <3>1, CrlfIs
  <2>6. SubSeq(buf, pos + 1, pos + D) = text
    <3> DEFINE line == SubSeq(buf, pos + 1, pos + D)
    <3>1. line \in Seq(S) /\ Len(line) = D /\ \A i \in 1 .. D : line[i] = buf[pos + i]
      BY <1>1, <1>6 DEF L
    <3>2. \A i \in 1 .. D : i \in 1 .. D + 2 /\ pos + i <= L
      BY <1>1, <1>6
    <3> HIDE DEF line
    <3>3. \A i \in 1 .. D : line[i] = text[i]
      BY <1>2, <1>4, <3>1, <3>2, Zenon
    <3>4. line = text
      BY <3>1, <3>3, SeqEqual DEF D
    <3> QED BY <3>4 DEF line
  <2> QED BY <1>6, <2>5, <2>6 DEF D, L, e
<1>7. CASE ~(pos + D + 2 <= L)
  <2>1. \A i \in pos .. (L - 1) : i # e /\ ~(i > e)
    BY <1>1, <1>7
  <2>2. \A i \in pos .. (Len(buf) - 1) : ~(buf[i] = CR /\ buf[i + 1] = LF)
    BY <1>5, <2>1 DEF L
  <2>3. find_crlf(buf, pos) = Npos
    BY <2>2, NoCrlf
  <2> QED BY <1>7, <2>3 DEF D, L
<1> QED BY <1>6, <1>7 DEF D, L

\* u is s and then t.
Joins(u, s, t, S) ==
    /\ s \in Seq(S) /\ t \in Seq(S) /\ u \in Seq(S)
    /\ Len(s) \in Nat /\ Len(t) \in Nat /\ Len(u) = Len(s) + Len(t)
    /\ \A i \in 1 .. Len(s) : u[i] = s[i]
    /\ \A i \in 1 .. Len(t) : u[Len(s) + i] = t[i]

\* The symbols of a concatenation.
LEMMA ConcatJoins ==
    ASSUME NEW S, NEW s \in Seq(S), NEW t \in Seq(S)
    PROVE  Joins(s \o t, s, t, S)
<1>1. /\ s \o t \in Seq(S) /\ Len(s \o t) = Len(s) + Len(t)
      /\ \A i \in 1 .. Len(s) + Len(t) : (s \o t)[i] = IF i <= Len(s) THEN s[i] ELSE t[i - Len(s)]
  BY ConcatProperties, Zenon
<1>2. Len(s) \in Nat /\ Len(t) \in Nat
  OBVIOUS
<1>3. \A i \in 1 .. Len(s) : i \in 1 .. Len(s) + Len(t) /\ i <= Len(s)
  BY <1>2
<1>4. \A i \in 1 .. Len(t) : /\ Len(s) + i \in 1 .. Len(s) + Len(t) /\ ~(Len(s) + i <= Len(s))
                             /\ (Len(s) + i) - Len(s) = i
  BY <1>2
<1>5. \A i \in 1 .. Len(s) : (s \o t)[i] = s[i]
  BY <1>1, <1>3, Zenon
<1>6. \A i \in 1 .. Len(t) : (s \o t)[Len(s) + i] = t[i]
  BY <1>1, <1>4, Zenon
<1> QED BY <1>1, <1>2, <1>5, <1>6, Zenon DEF Joins

\* The symbols of RESP headers; none of the type marks is a CR.
LEMMA MarksInAlphabet ==
    /\ CR \in Alphabet /\ LF \in Alphabet /\ SP \in Alphabet /\ DQ \in Alphabet
    /\ "*" \in Alphabet /\ "$" \in Alphabet /\ EOL \in Seq(Alphabet)
    /\ "*" # CR /\ "$" # CR
<1>1. CR \in Alphabet /\ LF \in Alphabet /\ SP \in Alphabet /\ DQ \in Alphabet
  BY AlphabetAssumption, Zenon
<1>2. "*" \in Alphabet /\ "$" \in Alphabet
  BY AlphabetAssumption, Zenon
<1> QED BY <1>1, <1>2 DEF EOL, CR

\* A length or a count, as a line.
LEMMA NumberLine ==
    ASSUME NEW n \in Nat
    PROVE  /\ to_string(n) \in Seq(Alphabet) /\ OneLine(to_string(n))
           /\ Len(to_string(n)) \in Nat \ {0}
           /\ to_string(n) \o EOL \in Seq(Alphabet)
<1> DEFINE d == to_string(n)
<1>1. d \in Seq(Digit) /\ d # <<>>
  BY NumberRead
<1> HIDE DEF d
<1>2. Digit \subseteq Alphabet /\ \A ch \in Digit : ch # CR
  BY DigitFacts
<1>3. d \in Seq(Alphabet)
  BY <1>1, <1>2, SeqMonotonic
<1>4. Len(d) \in Nat \ {0} /\ \A i \in 1 .. Len(d) : d[i] \in Digit
  BY <1>1
<1>5. OneLine(d)
  BY <1>2, <1>4 DEF OneLine
<1>6. d \o EOL \in Seq(Alphabet)
  BY <1>3, MarksInAlphabet, ConcatJoins DEF Joins
<1> QED BY <1>3, <1>4, <1>5, <1>6 DEF d

\* u is a mark, a line and what follows it.
IsHeaded(u, mark, line, rest) ==
    /\ u \in Seq(Alphabet) /\ Len(u) = Len(line) + 3 + Len(rest)
    /\ u[1] = mark
    /\ Len(line \o EOL) = Len(line) + 2
    /\ \A i \in 1 .. Len(line) + 2 : u[1 + i] = (line \o EOL)[i]
    /\ \A i \in 1 .. Len(rest) : u[(Len(line) + 3) + i] = rest[i]

\* The symbols of a header line and of what follows it.
LEMMA HeadBytes ==
    ASSUME NEW mark \in Alphabet, NEW line \in Seq(Alphabet), NEW rest \in Seq(Alphabet)
    PROVE  IsHeaded(<<mark>> \o line \o EOL \o rest, mark, line, rest)
<1> DEFINE one == <<mark>>
           head == line \o EOL
           y == one \o line \o EOL
           u == y \o rest
           D == Len(line)
<1>1. /\ one \in Seq(Alphabet) /\ Len(one) = 1 /\ one[1] = mark /\ 1 \in 1 .. 1
      /\ EOL \in Seq(Alphabet) /\ Len(EOL) = 2 /\ D \in Nat
  BY MarksInAlphabet DEF EOL
<1>2. y = one \o head
  <2> HIDE DEF one
  <2> QED BY <1>1, ConcatAssociative
<1>3. head \in Seq(Alphabet) /\ Len(head) = D + 2
  <2>1. Joins(head, line, EOL, Alphabet)
    BY <1>1, ConcatJoins
  <2> HIDE DEF head
  <2> QED BY <1>1, <2>1 DEF Joins
<1> HIDE DEF one, head, D
<1>4. /\ y \in Seq(Alphabet) /\ Len(y) = D + 3 /\ y[1] = mark
      /\ \A i \in 1 .. D + 2 : y[1 + i] = head[i]
  <2>1. Joins(one \o head, one, head, Alphabet)
    BY <1>1, <1>3, ConcatJoins
  <2>2. Joins(y, one, head, Alphabet)
    BY <1>2, <2>1
  <2> HIDE DEF y
  <2>3. /\ y \in Seq(Alphabet) /\ Len(y) = 1 + (D + 2)
        /\ \A i \in 1 .. 1 : y[i] = one[i]
        /\ \A i \in 1 .. D + 2 : y[1 + i] = head[i]
    BY <1>1, <1>3, <2>2 DEF Joins
  <2>4. y[1] = mark
    BY <1>1, <2>3, Zenon
  <2> QED BY <1>1, <2>3, <2>4
<1> HIDE DEF y
<1>5. /\ u \in Seq(Alphabet) /\ Len(u) = D + 3 + Len(rest)
      /\ \A i \in 1 .. D + 3 : u[i] = y[i]
      /\ \A i \in 1 .. Len(rest) : u[(D + 3) + i] = rest[i]
  <2>1. Joins(u, y, rest, Alphabet)
    BY <1>4, ConcatJoins
  <2> HIDE DEF u
  <2> QED BY <1>4, <2>1 DEF Joins
<1>6. u[1] = mark /\ \A i \in 1 .. D + 2 : u[1 + i] = head[i]
  <2>1. 1 \in 1 .. D + 3 /\ \A i \in 1 .. D + 2 : 1 + i \in 1 .. D + 3
    BY <1>1
  <2> QED BY <1>4, <1>5, <2>1, Zenon
<1> HIDE DEF u
<1>7. IsHeaded(u, mark, line, rest)
  BY <1>3, <1>5, <1>6, Zenon DEF IsHeaded, D, head
<1> QED BY <1>7 DEF u, y, one

\* The buffer holds, from pos on, as much of it as there is.
HeadAt(buf, pos, mark, line, rest, u) ==
    /\ buf \in Seq(Alphabet) /\ line \in Seq(Alphabet) /\ rest \in Seq(Alphabet)
    /\ IsHeaded(u, mark, line, rest) /\ OneLine(line) /\ mark # CR
    /\ pos \in 1 .. Len(buf) /\ Continues(buf, pos - 1, u)

\* Then its line is found once that is there.
HeadFound(buf, pos, mark, line, rest) ==
    /\ buf[pos] = mark
    /\ IF pos + Len(line) + 2 <= Len(buf)
       THEN /\ find_crlf(buf, pos) = pos + Len(line) + 1
            /\ SubSeq(buf, pos + 1, pos + Len(line)) = line
            /\ Continues(buf, pos + Len(line) + 2, rest)
       ELSE find_crlf(buf, pos) = Npos

\* The header line at a position of a buffer is found once it is whole
\* (resp.cpp:84-91).
LEMMA HeadRead ==
    ASSUME NEW buf, NEW pos, NEW mark, NEW line, NEW rest, NEW u,
           HeadAt(buf, pos, mark, line, rest, u)
    PROVE  HeadFound(buf, pos, mark, line, rest)
<1> DEFINE D == Len(line)
           L == Len(buf)
           head == line \o EOL
<1>0. /\ buf \in Seq(Alphabet) /\ line \in Seq(Alphabet) /\ rest \in Seq(Alphabet)
      /\ IsHeaded(u, mark, line, rest) /\ OneLine(line) /\ mark # CR
      /\ pos \in 1 .. Len(buf) /\ Continues(buf, pos - 1, u)
  BY Zenon DEF HeadAt
<1>1. D \in Nat /\ L \in Nat /\ pos \in Nat /\ pos <= L /\ pos >= 1 /\ Len(rest) \in Nat
  BY <1>0
<1>2. /\ u[1] = mark /\ Len(head) = D + 2 /\ Len(u) = D + 3 + Len(rest)
      /\ \A i \in 1 .. D + 2 : u[1 + i] = head[i]
      /\ \A i \in 1 .. Len(rest) : u[(D + 3) + i] = rest[i]
  BY <1>0, Zenon DEF IsHeaded
<1> HIDE DEF D, L, head
<1>3. ASSUME NEW i \in 1 .. D + 3 + Len(rest), (pos - 1) + i <= L PROVE buf[(pos - 1) + i] = u[i]
  BY <1>0, <1>2, <1>3 DEF Continues, L
<1>4. buf[pos] = mark
  <2>1. 1 \in 1 .. D + 3 + Len(rest) /\ (pos - 1) + 1 = pos /\ (pos - 1) + 1 <= L
    BY <1>1
  <2>2. buf[(pos - 1) + 1] = u[1]
    BY <1>3, <2>1
  <2> QED BY <1>2, <2>1, <2>2, Zenon
<1>5. Continues(buf, pos, head)
  <2> SUFFICES ASSUME NEW i \in 1 .. D + 2, pos + i <= L PROVE buf[pos + i] = head[i]
    BY <1>2 DEF Continues, L
  <2>1. 1 + i \in 1 .. D + 3 + Len(rest) /\ (pos - 1) + (1 + i) = pos + i
    BY <1>1
  <2>2. buf[(pos - 1) + (1 + i)] = u[1 + i]
    BY <1>3, <2>1
  <2>3. u[1 + i] = head[i]
    BY <1>2, Zenon
  <2> QED BY <2>1, <2>2, <2>3, Zenon
<1>6. Continues(buf, pos + D + 2, rest)
  <2> SUFFICES ASSUME NEW i \in 1 .. Len(rest), (pos + D + 2) + i <= L
               PROVE  buf[(pos + D + 2) + i] = rest[i]
    BY DEF Continues, L
  <2>1. (D + 3) + i \in 1 .. D + 3 + Len(rest) /\ (pos - 1) + ((D + 3) + i) = (pos + D + 2) + i
    BY <1>1
  <2>2. buf[(pos - 1) + ((D + 3) + i)] = u[(D + 3) + i]
    BY <1>3, <2>1
  <2>3. u[(D + 3) + i] = rest[i]
    BY <1>2, Zenon
  <2> QED BY <2>1, <2>2, <2>3, Zenon
<1>7. IF pos + D + 2 <= L
      THEN find_crlf(buf, pos) = pos + D + 1 /\ SubSeq(buf, pos + 1, pos + D) = line
      ELSE find_crlf(buf, pos) = Npos
  <2>1. buf[pos] # CR
    BY <1>0, <1>4
  <2> QED BY <1>0, <1>5, <2>1, LineRead, Zenon DEF D, L, head
<1> QED BY <1>4, <1>6, <1>7, Zenon DEF HeadFound, D, L

\* A bulk string is headed by its length.
LEMMA BulkBytes ==
    ASSUME NEW word \in Seq(Alphabet)
    PROVE  /\ IsHeaded(bulk_string(word), "$", to_string(Len(word)), word \o EOL)
           /\ Joins(word \o EOL, word, EOL, Alphabet)
           /\ Len(bulk_string(word)) = Len(to_string(Len(word))) + Len(word) + 5
<1> DEFINE d == to_string(Len(word))
           x == <<"$">> \o d \o EOL
           rest == word \o EOL
           b == bulk_string(word)
<1>1. Len(word) \in Nat
  OBVIOUS
<1>2. d \in Seq(Alphabet) /\ Len(d) \in Nat
  BY <1>1, NumberLine
<1>3. <<"$">> \in Seq(Alphabet) /\ EOL \in Seq(Alphabet) /\ Len(EOL) = 2 /\ "$" \in Alphabet
  BY MarksInAlphabet DEF EOL
<1>4. Joins(rest, word, EOL, Alphabet)
  BY <1>3, ConcatJoins
<1>5. rest \in Seq(Alphabet) /\ Len(rest) = Len(word) + 2
  <2> HIDE DEF rest
  <2> QED BY <1>3, <1>4 DEF Joins
<1> HIDE DEF d
<1>6. x \in Seq(Alphabet)
  <2> DEFINE one == <<"$">>
             y == one \o d
  <2>0. one \in Seq(Alphabet)
    BY <1>3
  <2> HIDE DEF one
  <2>1. Joins(y, one, d, Alphabet)
    BY <1>2, <2>0, ConcatJoins
  <2>2. y \in Seq(Alphabet)
    BY <2>1 DEF Joins
  <2> HIDE DEF y
  <2>3. Joins(y \o EOL, y, EOL, Alphabet)
    BY <1>3, <2>2, ConcatJoins
  <2>4. y \o EOL \in Seq(Alphabet)
    BY <2>3, Zenon DEF Joins
  <2> QED BY <2>4 DEF y, one
<1>7. b = x \o rest
  <2>1. b = x \o word \o EOL
    BY Zenon DEF bulk_string, d
  <2> HIDE DEF x, b
  <2> QED BY <1>3, <1>6, <2>1, ConcatAssociative
<1>8. IsHeaded(x \o rest, "$", d, rest)
  <2> HIDE DEF rest
  <2> QED BY <1>2, <1>3, <1>5, HeadBytes
<1> HIDE DEF x, rest, b
<1>9. IsHeaded(b, "$", d, rest)
  BY <1>7, <1>8, Zenon
<1>10. Len(b) = Len(d) + Len(word) + 5
  BY <1>1, <1>2, <1>5, <1>9 DEF IsHeaded
<1> QED BY <1>4, <1>9, <1>10, Zenon DEF b, d, rest

\* A bulk string is a text of one symbol at least.
LEMMA BulkTyped ==
    ASSUME NEW word \in Seq(Alphabet)
    PROVE  /\ bulk_string(word) \in Seq(Alphabet) /\ bulk_string(word) # <<>>
           /\ Len(bulk_string(word)) \in Nat /\ Len(bulk_string(word)) >= 1
<1> DEFINE b == bulk_string(word)
           d == to_string(Len(word))
           rest == word \o EOL
<1>1. Len(word) \in Nat /\ Len(d) \in Nat
  BY NumberLine
<1>2. IsHeaded(b, "$", d, rest) /\ Len(b) = Len(d) + Len(word) + 5
  BY BulkBytes
<1> HIDE DEF b, d, rest
<1>3. b \in Seq(Alphabet)
  BY <1>2, Zenon DEF IsHeaded
<1>4. b # <<>> /\ Len(b) \in Nat /\ Len(b) >= 1
  BY <1>1, <1>2, <1>3
<1> QED BY <1>3, <1>4 DEF b

-----------------------------------------------------------------------------
(* Arrays of bulk strings *)

\* Words whose lengths, and whose number, std::stoi can read.
Words == {words \in Seq(Seq(Alphabet)) :
            /\ words # <<>> /\ Len(words) <= IntMax
            /\ \A i \in 1 .. Len(words) : Len(words[i]) <= IntMax}

\* The bulk strings of words, as frames.
Parts(words) == [i \in 1 .. Len(words) |-> Frame(bulk_string(words[i]), <<>>)]

\* The bulk strings of an array, as the frames of a stream.
LEMMA PartsFrames ==
    ASSUME NEW words \in Words
    PROVE  /\ Parts(words) \in Streams(Alphabet, {}) /\ Len(Parts(words)) = Len(words)
           /\ BytesOf(Parts(words)) = FlattenSeq(BulkStringsOf(words))
           /\ Len(words) \in Nat \ {0}
           /\ \A i \in 1 .. Len(words) :
                 /\ words[i] \in Seq(Alphabet) /\ Len(words[i]) <= IntMax
                 /\ Parts(words)[i].bytes = bulk_string(words[i])
<1> DEFINE fs == Parts(words)
           K == Len(words)
<1>1. K \in Nat \ {0} /\ \A i \in 1 .. K : words[i] \in Seq(Alphabet) /\ Len(words[i]) <= IntMax
  BY DEF Words
<1> HIDE DEF K
<1>2. fs = [i \in 1 .. K |-> Frame(bulk_string(words[i]), <<>>)]
  BY DEF Parts, K
<1>3. ASSUME NEW i \in 1 .. K
      PROVE  /\ Frame(bulk_string(words[i]), <<>>) \in FramesOf(Alphabet, {})
             /\ Frame(bulk_string(words[i]), <<>>).bytes = bulk_string(words[i])
             /\ bulk_string(words[i]) # <<>>
  <2> DEFINE b == bulk_string(words[i])
  <2>2. b \in Seq(Alphabet) /\ b # <<>>
    BY <1>1, BulkTyped
  <2> HIDE DEF b
  <2>3. <<>> \in Seq({})
    OBVIOUS
  <2> QED BY <2>2, <2>3 DEF FramesOf, Frame, b
<1> HIDE DEF fs
<1>4. fs \in Seq(FramesOf(Alphabet, {})) /\ Len(fs) = K
      /\ \A i \in 1 .. K : fs[i] = Frame(bulk_string(words[i]), <<>>)
  BY <1>1, <1>2, <1>3
<1>5. \A i \in 1 .. K : fs[i].bytes = bulk_string(words[i]) /\ fs[i].bytes # <<>>
  BY <1>3, <1>4
<1>6. BytesOf(fs) = FlattenSeq(BulkStringsOf(words))
  <2>1. [i \in 1 .. Len(fs) |-> fs[i].bytes] = [i \in 1 .. Len(words) |-> bulk_string(words[i])]
    BY <1>4, <1>5 DEF K
  <2> QED BY <2>1, Zenon DEF BytesOf, BulkStringsOf
<1>7. fs \in Streams(Alphabet, {})
  BY <1>4, <1>5 DEF Streams
<1> QED BY <1>1, <1>4, <1>5, <1>6, <1>7 DEF fs, K

\* One element more of a sequence.
LEMMA SubSeqMore ==
    ASSUME NEW S, NEW s \in Seq(S), NEW k \in 0 .. (Len(s) - 1)
    PROVE  Append(SubSeq(s, 1, k), s[k + 1]) = SubSeq(s, 1, k + 1)
<1> DEFINE ch == s[k + 1]
           part == SubSeq(s, 1, k)
           longer == Append(part, ch)
           wider == SubSeq(s, 1, k + 1)
<1>1. part \in Seq(S) /\ Len(part) = k /\ \A j \in 1 .. k : part[j] = s[j]
  OBVIOUS
<1>2. wider \in Seq(S) /\ Len(wider) = k + 1 /\ \A j \in 1 .. k + 1 : wider[j] = s[j]
  OBVIOUS
<1>3. ch \in S
  OBVIOUS
<1> HIDE DEF part, wider, ch
<1>4. longer \in Seq(S) /\ Len(longer) = k + 1
      /\ longer[k + 1] = ch /\ \A j \in 1 .. k : longer[j] = part[j]
  BY <1>1, <1>3
<1> HIDE DEF longer
<1>5. ASSUME NEW j \in 1 .. k + 1 PROVE longer[j] = wider[j]
  <2>1. j \in 1 .. k \/ j = k + 1
    OBVIOUS
  <2> QED BY <1>1, <1>2, <1>4, <2>1, Zenon DEF ch
<1>6. longer = wider
  BY <1>2, <1>4, <1>5, SeqEqual
<1> QED BY <1>6 DEF longer, wider, part, ch

\* An array of bulk strings is headed by their number.
LEMMA ArrayBytes ==
    ASSUME NEW words \in Words
    PROVE  IsHeaded(array(BulkStringsOf(words)), "*", to_string(Len(words)), BytesOf(Parts(words)))
<1> DEFINE K == Len(words)
           d == to_string(K)
           all == BytesOf(Parts(words))
<1>1. /\ Parts(words) \in Streams(Alphabet, {}) /\ Len(Parts(words)) = K /\ K \in Nat
      /\ all = FlattenSeq(BulkStringsOf(words))
  BY PartsFrames
<1>2. all \in Seq(Alphabet)
  <2> DEFINE fs == Parts(words)
  <2> HIDE DEF fs, K
  <2>1. fs \in Seq(FramesOf(Alphabet, {})) /\ K \in 0 .. Len(fs)
    BY <1>1 DEF Streams, fs
  <2>2. BytesOf(fs) \in Seq(Alphabet)
    BY <2>1, PartsJoin
  <2> QED BY <2>2 DEF fs
<1>3. d \in Seq(Alphabet) /\ "*" \in Alphabet
  BY <1>1, NumberLine, MarksInAlphabet
<1>4. Len(BulkStringsOf(words)) = K
  BY <1>1 DEF BulkStringsOf
<1>5. array(BulkStringsOf(words)) = <<"*">> \o d \o EOL \o all
  BY <1>1, <1>4, Zenon DEF array
<1> HIDE DEF d, all
<1>6. IsHeaded(<<"*">> \o d \o EOL \o all, "*", d, all)
  BY <1>2, <1>3, HeadBytes
<1> QED BY <1>5, <1>6, Zenon DEF d, all

-----------------------------------------------------------------------------
(* Frames and their beginnings *)

\* A frame is clear when every buffer that holds nothing else before it, and
\* no more than one read beside it, is read so.
LEMMA ClearIf ==
    ASSUME NEW Symbol, NEW reader, NEW frame, frame.bytes \in Seq(Symbol),
           \A buf \in Seq(Symbol) : Continues(buf, 0, frame.bytes) =>
              IF Len(frame.bytes) <= Len(buf)
              THEN Len(buf) < Len(frame.bytes) + MaxRead => Whole(frame, Round(reader, buf))
              ELSE Round(reader, buf) = Waits
    PROVE  Clear(reader, Symbol, frame)
<1> DEFINE bytes == frame.bytes
<1>0. bytes \in Seq(Symbol) /\ Len(bytes) \in Nat /\ MaxRead \in Nat
  BY StreamAssumption
<1> HIDE DEF bytes
<1>1. ASSUME NEW n \in 0 .. (Len(bytes) - 1) PROVE Round(reader, SubSeq(bytes, 1, n)) = Waits
  <2> DEFINE begin == SubSeq(bytes, 1, n)
  <2>1. begin \in Seq(Symbol) /\ Len(begin) = n /\ \A i \in 1 .. n : begin[i] = bytes[i]
    BY <1>0
  <2> HIDE DEF begin
  <2>2. Continues(begin, 0, bytes) /\ ~(Len(bytes) <= Len(begin))
    BY <1>0, <2>1 DEF Continues
  <2> QED BY <2>1, <2>2, Zenon DEF bytes, begin
<1>2. ASSUME NEW rest \in Seq(Symbol), Len(rest) < MaxRead
      PROVE  Whole(frame, Round(reader, bytes \o rest))
  <2> DEFINE buf == bytes \o rest
  <2>1. Joins(buf, bytes, rest, Symbol)
    BY <1>0, ConcatJoins
  <2> HIDE DEF buf
  <2>2. /\ buf \in Seq(Symbol) /\ Len(buf) = Len(bytes) + Len(rest) /\ Len(rest) \in Nat
        /\ \A i \in 1 .. Len(bytes) : buf[i] = bytes[i]
    BY <2>1, Zenon DEF Joins
  <2>3. Continues(buf, 0, bytes) /\ Len(bytes) <= Len(buf) /\ Len(buf) < Len(bytes) + MaxRead
    BY <1>0, <1>2, <2>2 DEF Continues
  <2> QED BY <2>2, <2>3, Zenon DEF bytes, buf
<1> QED BY <1>1, <1>2, Zenon DEF Clear, bytes

-----------------------------------------------------------------------------
(* Texts in pieces *)

\* h[0] to h[N] are states of a loop in turn, and it stays in the last.
Steps(h, kind, arg, N) ==
    /\ \A k \in 0 .. (N - 1) : \A n : Turn(kind, arg, h[k], n) = h[k + 1]
    /\ \A n : Turn(kind, arg, h[N], n) = h[N]

\* A loop whose states are known comes to the last of them.
LEMMA RunsReach ==
    ASSUME NEW f, NEW kind, NEW arg, NEW start, NEW M \in Nat, Runs(f, kind, arg, start, M),
           NEW h, NEW N \in 0 .. M, h[0] = start, Steps(h, kind, arg, N)
    PROVE  f[M] = h[N]
<1> DEFINE S == {k \in Nat : k <= M => f[k] = h[IF k <= N THEN k ELSE N]}
<1>1. f[0] = start /\ \A n \in 0 .. M : n + 1 \in 0 .. M => f[n + 1] = Turn(kind, arg, f[n], n + 1)
  BY RunsInTurn
<1>2. 0 \in S
  BY <1>1
<1>3. ASSUME NEW k \in Nat, k \in S PROVE k + 1 \in S
  <2> SUFFICES ASSUME k + 1 <= M PROVE f[k + 1] = h[IF k + 1 <= N THEN k + 1 ELSE N]
    OBVIOUS
  <2>1. k \in 0 .. M /\ k + 1 \in 0 .. M /\ f[k] = h[IF k <= N THEN k ELSE N]
    BY <1>3
  <2>2. f[k + 1] = Turn(kind, arg, f[k], k + 1)
    BY <1>1, <2>1, Zenon
  <2>3. CASE k + 1 <= N
    <3>1. k \in 0 .. (N - 1) /\ k <= N
      BY <2>3
    <3>2. f[k] = h[k]
      BY <2>1, <3>1
    <3> QED BY <2>2, <2>3, <3>1, <3>2, Zenon DEF Steps
  <2>4. CASE ~(k + 1 <= N)
    <3>1. (IF k <= N THEN k ELSE N) = N
      BY <2>4
    <3>2. f[k] = h[N]
      BY <2>1, <3>1
    <3> QED BY <2>2, <2>4, <3>2, Zenon DEF Steps
  <2> QED BY <2>3, <2>4
<1>4. M \in S
  <2> HIDE DEF S
  <2>1. Nat \subseteq S
    BY <1>2, <1>3, NatInductionSet
  <2> QED BY <2>1
<1>5. (IF M <= N THEN M ELSE N) = N
  OBVIOUS
<1> QED BY <1>4, <1>5

\* Sequences in a row, as frames.
Pieces(seqs) == [i \in 1 .. Len(seqs) |-> Frame(seqs[i], <<>>)]

\* Sequences that are not empty, as the frames of a stream.
LEMMA PiecesFrames ==
    ASSUME NEW S, NEW seqs \in Seq(Seq(S)), \A i \in 1 .. Len(seqs) : seqs[i] # <<>>
    PROVE  /\ Pieces(seqs) \in Streams(S, {}) /\ Len(Pieces(seqs)) = Len(seqs)
           /\ BytesOf(Pieces(seqs)) = FlattenSeq(seqs) /\ FlattenSeq(seqs) \in Seq(S)
           /\ Len(seqs) \in Nat /\ Len(seqs) <= Len(FlattenSeq(seqs))
           /\ \A i \in 1 .. Len(seqs) : Pieces(seqs)[i].bytes = seqs[i]
<1> DEFINE fs == Pieces(seqs)
           K == Len(seqs)
<1>1. K \in Nat /\ \A i \in 1 .. K : seqs[i] \in Seq(S)
  OBVIOUS
<1> HIDE DEF K
<1>2. fs = [i \in 1 .. K |-> Frame(seqs[i], <<>>)]
  BY DEF Pieces, K
<1>3. ASSUME NEW i \in 1 .. K
      PROVE  Frame(seqs[i], <<>>) \in FramesOf(S, {}) /\ Frame(seqs[i], <<>>).bytes = seqs[i]
  <2>1. <<>> \in Seq({})
    OBVIOUS
  <2> QED BY <1>1, <2>1 DEF FramesOf, Frame
<1> HIDE DEF fs
<1>4. fs \in Seq(FramesOf(S, {})) /\ Len(fs) = K
      /\ \A i \in 1 .. K : fs[i] = Frame(seqs[i], <<>>)
  BY <1>1, <1>2, <1>3
<1>5. \A i \in 1 .. K : fs[i].bytes = seqs[i] /\ fs[i].bytes # <<>>
  BY <1>3, <1>4 DEF K
<1>6. BytesOf(fs) = FlattenSeq(seqs)
  <2>1. [i \in 1 .. Len(fs) |-> fs[i].bytes] = [i \in 1 .. K |-> seqs[i]]
    BY <1>4, <1>5
  <2>2. [i \in 1 .. K |-> seqs[i]] = seqs
    BY DEF K
  <2> QED BY <2>1, <2>2, Zenon DEF BytesOf
<1>7. fs \in Streams(S, {})
  BY <1>4, <1>5 DEF Streams
<1>8. K \in 0 .. Len(fs) /\ Len(fs) \in 0 .. Len(fs) /\ 0 \in 0 .. Len(fs) /\ 0 <= Len(fs)
  BY <1>1, <1>4
<1>9. BytesOf(fs) \in Seq(S)
  BY <1>4, <1>8, PartsJoin
<1>10. K <= Len(BytesOf(fs))
  <2>1. Laid(fs)
    BY <1>7, FramesLaid DEF Streams
  <2>2. /\ Offset(fs, 0) = 0 /\ Offset(fs, Len(fs)) = Len(BytesOf(fs))
        /\ Offset(fs, 0) + (Len(fs) - 0) <= Offset(fs, Len(fs))
    BY <1>8, <2>1, Zenon DEF Laid
  <2> QED BY <1>1, <1>4, <2>2
<1> QED BY <1>1, <1>4, <1>5, <1>6, <1>7, <1>9, <1>10 DEF fs, K

\* h[k] is what is left of them, and of what follows them, after the first k.
Leaves(h, seqs, tail, S) ==
    /\ h[0] = FlattenSeq(seqs) \o tail /\ h[Len(seqs)] = tail
    /\ \A k \in 0 .. Len(seqs) : h[k] \in Seq(S)
    /\ \A k \in 0 .. (Len(seqs) - 1) : h[k] = seqs[k + 1] \o h[k + 1]

\* What is left of a text after each of the pieces that it starts with.
LEMMA PiecesLeft ==
    ASSUME NEW S, NEW seqs \in Seq(Seq(S)), \A i \in 1 .. Len(seqs) : seqs[i] # <<>>,
           NEW tail \in Seq(S)
    PROVE  \E h : Leaves(h, seqs, tail, S)
<1> DEFINE fs == Pieces(seqs)
           N == Len(seqs)
           all == BytesOf(fs)
           A == Len(all)
           off(k) == Offset(fs, k)
           left(k) == SubSeq(all, off(k) + 1, A)
           h == [k \in 0 .. N |-> left(k) \o tail]
<1>1. /\ fs \in Streams(S, {}) /\ Len(fs) = N /\ all = FlattenSeq(seqs) /\ all \in Seq(S)
      /\ N \in Nat /\ \A i \in 1 .. N : fs[i].bytes = seqs[i]
  BY PiecesFrames
<1> HIDE DEF fs, N
<1>2. A \in Nat /\ off(0) = 0 /\ off(N) = A /\ \A k \in 0 .. N : off(k) \in Nat /\ off(k) <= A
  <2>1. Laid(fs)
    BY <1>1, FramesLaid DEF Streams
  <2>2. /\ off(0) = 0 /\ off(N) = A
        /\ \A k \in 0 .. N : off(k) \in Nat
        /\ \A j, k \in 0 .. N : j <= k => off(j) + (k - j) <= off(k)
    BY <1>1, <2>1, Zenon DEF Laid
  <2>3. A \in Nat
    BY <1>1
  <2> HIDE DEF all, A
  <2>4. ASSUME NEW k \in 0 .. N PROVE off(k) <= A
    <3>1. N \in 0 .. N /\ k <= N
      BY <1>1
    <3> DEFINE o == off(k)
    <3>2. o + (N - k) <= A /\ o \in Nat
      BY <2>2, <3>1, Zenon
    <3> HIDE DEF o
    <3>3. o <= A
      BY <1>1, <2>3, <3>2
    <3> QED BY <3>3 DEF o
  <2> QED BY <2>2, <2>3, <2>4
<1> HIDE DEF all, A, off
<1>3. \A k \in 0 .. N : left(k) \in Seq(S)
  BY <1>1, <1>2 DEF A
<1>4. left(0) = all /\ left(N) = <<>>
  BY <1>1, <1>2, SubSeqFull DEF A
<1>5. ASSUME NEW k \in 0 .. (N - 1) PROVE left(k) = seqs[k + 1] \o left(k + 1)
  <2> DEFINE b == seqs[k + 1]
             o == off(k)
             next == off(k + 1)
             s == left(k)
             t == left(k + 1)
  <2>0. k \in 0 .. N /\ k + 1 \in 0 .. N /\ k + 1 \in 1 .. N /\ k \in 0 .. (Len(fs) - 1)
    BY <1>1
  <2>1. fs[k + 1].bytes = b
    BY <1>1, <2>0
  <2>2. /\ b \in Seq(S) /\ o \in Nat /\ next = o + Len(b) /\ next <= A
        /\ \A i \in 1 .. Len(b) : all[o + i] = b[i]
    <3>1. /\ fs[k + 1].bytes \in Seq(S) /\ Offset(fs, k) \in Nat
          /\ Offset(fs, k + 1) = Offset(fs, k) + Len(fs[k + 1].bytes)
          /\ Offset(fs, k + 1) <= Len(BytesOf(fs))
          /\ \A i \in 1 .. Len(fs[k + 1].bytes) :
                BytesOf(fs)[Offset(fs, k) + i] = fs[k + 1].bytes[i]
      <4>1. fs \in Streams(S, {})
        BY <1>1
      <4>2. k \in 0 .. (Len(fs) - 1)
        BY <2>0
      <4> QED BY <4>1, <4>2, FrameAt
    <3> HIDE DEF b
    <3> QED BY <2>1, <3>1, Zenon DEF off, all, A
  <2> HIDE DEF b, o, next
  <2>3. s = SubSeq(all, o + 1, A) /\ t = SubSeq(all, next + 1, A)
    BY Zenon DEF o, next
  <2> HIDE DEF s, t, left
  <2>4. Len(b) \in Nat /\ A = Len(all)
    BY <2>2 DEF A
  <2>5. /\ s \in Seq(S) /\ Len(s) = A - o /\ \A i \in 1 .. (A - o) : s[i] = all[o + i]
        /\ t \in Seq(S) /\ Len(t) = A - next /\ \A i \in 1 .. (A - next) : t[i] = all[next + i]
    <3>1. all \in Seq(S) /\ Len(all) \in Nat /\ next \in Nat /\ o <= A
      BY <1>1, <1>2, <2>2, <2>4
    <3>2. s \in Seq(S) /\ Len(s) = A - o /\ \A i \in 1 .. (A - o) : s[i] = all[o + i]
      BY <2>2, <2>3, <2>4, <3>1
    <3>3. t \in Seq(S) /\ Len(t) = A - next /\ \A i \in 1 .. (A - next) : t[i] = all[next + i]
      <4>1. next <= A /\ A = Len(all) /\ t = SubSeq(all, next + 1, A)
        BY <2>2, <2>3, <2>4
      <4> QED BY <3>1, <4>1
    <3> QED BY <3>2, <3>3
  <2> DEFINE u == b \o t
  <2>6. Joins(u, b, t, S)
    BY <2>2, <2>5, ConcatJoins
  <2> HIDE DEF u
  <2>7. /\ u \in Seq(S) /\ Len(u) = Len(b) + (A - next)
        /\ \A i \in 1 .. Len(b) : u[i] = b[i]
        /\ \A i \in 1 .. (A - next) : u[Len(b) + i] = t[i]
    BY <2>5, <2>6, Zenon DEF Joins
  <2>8. ASSUME NEW i \in 1 .. (A - o) PROVE s[i] = u[i]
    <3>1. CASE i <= Len(b)
      <4>1. i \in 1 .. Len(b)
        BY <2>4, <3>1
      <4> QED BY <2>2, <2>5, <2>7, <4>1, Zenon
    <3>2. CASE ~(i <= Len(b))
      <4> DEFINE j == i - Len(b)
      <4>1. j \in 1 .. (A - next) /\ Len(b) + j = i /\ next + j = o + i
        BY <1>2, <2>2, <2>4, <3>2
      <4> HIDE DEF j
      <4>2. u[Len(b) + j] = t[j] /\ t[j] = all[next + j] /\ s[i] = all[o + i]
        BY <2>5, <2>7, <4>1, Zenon
      <4> QED BY <4>1, <4>2, Zenon
    <3> QED BY <3>1, <3>2
  <2>9. Len(s) = Len(u) /\ Len(s) = A - o
    BY <1>2, <2>2, <2>4, <2>5, <2>7
  <2>10. s = u
    BY <2>5, <2>7, <2>8, <2>9, SeqEqual
  <2> QED BY <2>10, Zenon DEF s, t, u, b
<1> HIDE DEF left
<1>6. \A k \in 0 .. N : h[k] = left(k) \o tail /\ h[k] \in Seq(S)
  BY <1>3, ConcatProperties
<1>7. ASSUME NEW k \in 0 .. (N - 1) PROVE h[k] = seqs[k + 1] \o h[k + 1]
  <2>0. k \in 0 .. N /\ k + 1 \in 0 .. N /\ k + 1 \in 1 .. N
    BY <1>1
  <2> DEFINE b == seqs[k + 1]
             t == left(k + 1)
  <2>1. h[k] = (b \o t) \o tail
    BY <1>5, <1>6, <2>0, Zenon
  <2>2. h[k + 1] = t \o tail /\ t \in Seq(S) /\ b \in Seq(S)
    <3>1. b \in Seq(S)
      BY <2>0 DEF N
    <3> QED BY <1>3, <1>6, <2>0, <3>1, Zenon
  <2> HIDE DEF b, t, h
  <2>3. (b \o t) \o tail = b \o (t \o tail)
    BY <2>2, ConcatAssociative
  <2> QED BY <2>1, <2>2, <2>3, Zenon DEF b
<1>8. h[0] = FlattenSeq(seqs) \o tail /\ h[N] = tail
  <2>1. 0 \in 0 .. N /\ N \in 0 .. N
    BY <1>1
  <2>2. <<>> \o tail = tail
    BY ConcatEmptySeq
  <2> HIDE DEF h
  <2> QED BY <1>1, <1>4, <1>6, <2>1, <2>2, Zenon
<1> HIDE DEF h
<1>9. Leaves(h, seqs, tail, S)
  BY <1>6, <1>7, <1>8, Zenon DEF Leaves, N
<1> QED BY <1>9

=============================================================================
