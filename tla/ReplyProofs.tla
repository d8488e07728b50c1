---------------------------- MODULE ReplyProofs -----------------------------
(***************************************************************************)
(* What the client shows is what the server's handlers answered, however   *)
(* the bytes of their replies are cut into reads.                          *)
(***************************************************************************)
EXTENDS StreamProofs

-----------------------------------------------------------------------------
(* Numbers and line ends, in any text *)

\* A set of natural numbers that is not empty has its minimum.
LEMMA LeastExists ==
    ASSUME NEW S \in SUBSET Nat, S # {}
    PROVE  Min(S) \in S /\ \A j \in S : Min(S) <= j
<1> DEFINE T == {n \in Nat : \A j \in S : n <= j}
<1>1. PICK i \in S : \A j \in S : i <= j
  <2> SUFFICES ASSUME \A i \in S : \E j \in S : ~(i <= j) PROVE FALSE
    BY Zenon
  <2>1. 0 \in T
    OBVIOUS
  <2>2. ASSUME NEW n \in Nat, n \in T PROVE n + 1 \in T
    <3>1. n \notin S
      BY <2>2
    <3> QED BY <2>2, <3>1
  <2>3. Nat \subseteq T
    <3> HIDE DEF T
    <3> QED BY <2>1, <2>2, NatInductionSet
  <2>4. PICK s \in S : TRUE
    BY Zenon
  <2>5. s + 1 \in T
    BY <2>3
  <2> QED BY <2>5
<1>2. i \in Int /\ \A j \in S : j \in Int /\ i <= j
  BY <1>1
<1>3. Min(S) = i
  BY <1>2, LeastIs, Zenon
<1> QED BY <1>1, <1>3, Zenon

\* A CR LF that is found lies within the buffer.
LEMMA CrlfTyped ==
    ASSUME NEW buf \in Seq(Alphabet), find_crlf(buf, 1) # Npos
    PROVE  find_crlf(buf, 1) \in 1 .. (Len(buf) - 1)
<1> DEFINE at == {p \in 1 .. (Len(buf) - 1) : buf[p] = CR /\ buf[p + 1] = LF}
<1>1. find_crlf(buf, 1) = IF at = {} THEN Npos ELSE Min(at)
  BY Zenon DEF find_crlf
<1>2. at \in SUBSET Nat /\ at \subseteq 1 .. (Len(buf) - 1)
  OBVIOUS
<1> HIDE DEF at
<1>3. at # {} /\ find_crlf(buf, 1) = Min(at)
  BY <1>1, Zenon
<1> QED BY <1>2, <1>3, LeastExists, Zenon

\* Digits stand for a natural number.
LEMMA NumberTyped ==
    ASSUME NEW digits \in Seq(Digit)
    PROVE  Number(digits) \in Nat
<1> DEFINE N == Len(digits)
<1>1. N \in Nat /\ \A i \in 1 .. N : digits[i] \in Digit
  OBVIOUS
<1>2. PICK f : Runs(f, "number", digits, 0, N) /\ Number(digits) = f[N]
  BY <1>1, NumberRuns
<1>3. f[0] = 0 /\ \A n \in 0 .. N : n + 1 \in 0 .. N => f[n + 1] = 10 * f[n] + DigitValue(digits[n + 1])
  <2> HIDE DEF N
  <2> QED BY <1>1, <1>2, RunsInTurn DEF Turn
<1> HIDE DEF N
<1> DEFINE S == {n \in Nat : n <= N => f[n] \in Nat}
<1>4. 0 \in S
  BY <1>3
<1>5. ASSUME NEW n \in Nat, n \in S PROVE n + 1 \in S
  <2> SUFFICES ASSUME n + 1 <= N PROVE f[n + 1] \in Nat
    OBVIOUS
  <2>1. n \in 0 .. N /\ n + 1 \in 0 .. N /\ n + 1 \in 1 .. N /\ f[n] \in Nat
    BY <1>1, <1>5
  <2>2. DigitValue(digits[n + 1]) \in 0 .. 9
    BY <1>1, <2>1, DigitFacts
  <2>3. f[n + 1] = 10 * f[n] + DigitValue(digits[n + 1])
    BY <1>3, <2>1, Zenon
  <2>4. \A a \in Nat, d \in 0 .. 9 : 10 * a + d \in Nat
    OBVIOUS
  <2> QED BY <2>1, <2>2, <2>3, <2>4, Zenon
<1>6. N \in S
  <2> HIDE DEF S
  <2> QED BY <1>1, <1>4, <1>5, NatInductionSet
<1> QED BY <1>1, <1>2, <1>6

\* std::stoi gives a number, of any text.
LEMMA StoiTyped ==
    ASSUME NEW text \in Seq(Alphabet)
    PROVE  stoi(text) \in Int
<1> DEFINE digits == NumberDigits(text)
           skipped == SkipSpace(text)
           rest == UnsignedPart(skipped)
<1>1. skipped \in Seq(Alphabet)
  <2> DEFINE I == {i \in 1 .. Len(text) : NotSpace(text[i])}
             i == SelectInSeq(text, NotSpace)
  <2>1. i = IF I # {} THEN Min(I) ELSE 0
    BY Zenon DEF SelectInSeq
  <2>2. I \in SUBSET Nat /\ I \subseteq 1 .. Len(text)
    OBVIOUS
  <2> HIDE DEF I
  <2>3. i = 0 \/ i \in 1 .. Len(text)
    BY <2>1, <2>2, LeastExists, Zenon
  <2>4. skipped = IF i = 0 THEN <<>> ELSE SubSeq(text, i, Len(text))
    BY Zenon DEF SkipSpace, From
  <2> HIDE DEF i, skipped
  <2> QED BY <2>3, <2>4
<1> HIDE DEF skipped
<1>2. rest \in Seq(Alphabet)
  <2>1. rest = IF Signed(skipped) THEN Tail(skipped) ELSE skipped
    BY Zenon DEF UnsignedPart
  <2>2. Signed(skipped) => skipped # <<>>
    BY Zenon DEF Signed
  <2> HIDE DEF rest
  <2> QED BY <1>1, <2>1, <2>2
<1> HIDE DEF rest
<1>3. LeadingDigits(rest) \in Seq(Digit)
  <2> DEFINE I == {i \in 1 .. Len(rest) : NotDigit(rest[i])}
             end == SelectInSeq(rest, NotDigit)
             lead == LeadingDigits(rest)
  <2>1. end = IF I # {} THEN Min(I) ELSE 0
    BY Zenon DEF SelectInSeq
  <2>2. I \in SUBSET Nat /\ I \subseteq 1 .. Len(rest)
    OBVIOUS
  <2>3. \A i \in 1 .. Len(rest) : i \notin I => rest[i] \in Digit
    BY DigitFacts DEF NotDigit
  <2>4. lead = IF end = 0 THEN rest ELSE SubSeq(rest, 1, end - 1)
    BY Zenon DEF LeadingDigits
  <2> HIDE DEF I, end, lead
  <2>5. CASE I = {}
    <3>1. lead = rest
      BY <2>1, <2>4, <2>5
    <3> QED BY <1>2, <2>3, <2>5, <3>1, IsASeq DEF lead
  <2>6. CASE I # {}
    <3>1. end \in I /\ \A j \in I : end <= j
      BY <2>1, <2>2, <2>6, LeastExists
    <3>2. end \in 1 .. Len(rest) /\ end # 0 /\ \A i \in 1 .. (end - 1) : i \notin I /\ i \in 1 .. Len(rest)
      BY <1>2, <2>2, <3>1
    <3>3. lead = SubSeq(rest, 1, end - 1)
      BY <2>4, <3>2
    <3>4. lead \in Seq(Alphabet) /\ Len(lead) = end - 1 /\ \A i \in 1 .. (end - 1) : lead[i] = rest[i]
      BY <1>2, <3>2, <3>3
    <3>5. \A i \in 1 .. Len(lead) : lead[i] \in Digit
      BY <2>3, <3>2, <3>4
    <3> QED BY <3>4, <3>5 DEF lead
  <2> QED BY <2>5, <2>6
<1>4. digits \in Seq(Digit)
  BY <1>3, Zenon DEF NumberDigits, rest, skipped
<1> HIDE DEF digits
<1>5. Number(digits) \in Nat
  BY <1>4, NumberTyped
<1>6. stoi(text) = IF SkipSpace(text)[1] = "-" THEN -Number(digits) ELSE Number(digits)
  BY Zenon DEF stoi, digits
<1> QED BY <1>5, <1>6

-----------------------------------------------------------------------------
(* The client's reader is a function *)

\* The results of parse_resp_value and their fields.
LEMMA TookFacts ==
    /\ ~Incomplete.ok /\ Took(Incomplete)
    /\ \A text, n : /\ Value(text, n).ok /\ Value(text, n).text = text /\ Value(text, n).consumed = n
                    /\ (n \in Nat \ {0} => Took(Value(text, n)))
<1>1. ~Incomplete.ok
  BY Zenon DEF Incomplete
<1>2. \A text, n : /\ Value(text, n).ok /\ Value(text, n).text = text /\ Value(text, n).consumed = n
  BY Zenon DEF Value
<1> QED BY <1>1, <1>2, Zenon DEF Took

\* An array's value is the state of the loop over its elements after the last.
LEMMA ArrayValueRuns ==
    ASSUME NEW f, NEW buf, NEW consumed, NEW count \in Nat \ {0}
    PROVE  \E e : /\ Runs(e, "values", <<f, buf, count>>, Value(<<>>, consumed), count)
                  /\ ArrayValue(f, buf, consumed, count) = e[count]
<1> DEFINE arg == <<f, buf, count>>
           none == <<>>
           start == Value(none, consumed)
           P(e) == e = [i \in 0 .. count |->
                          IF i = 0 THEN start ELSE Element(f, buf, count, e[i - 1], i)]
<1>1. count \in Nat /\ ~(count < 0) /\ count # 0
  OBVIOUS
<1>2. ArrayValue(f, buf, consumed, count) = (CHOOSE e : P(e))[count]
  BY <1>1, Zenon DEF ArrayValue, Element
<1>3. \A s, n : Turn("values", arg, s, n) = Element(f, buf, count, s, n)
  BY DEF Turn
<1> HIDE DEF arg
<1>4. \A e : P(e) <=> Runs(e, "values", arg, start, count)
  <2> HIDE DEF start
  <2> QED BY <1>3 DEF Runs
<1> HIDE DEF P, start
<1>5. \E e : P(e)
  BY <1>1, <1>4, RunsExist, Zenon
<1>6. P(CHOOSE e : P(e))
  BY <1>5, Zenon
<1> QED BY <1>2, <1>4, <1>6, Zenon DEF arg, start, none

\* The elements of an array are taken in turn.
LEMMA ElementsInTurn ==
    ASSUME NEW f, NEW buf, NEW count \in Nat, NEW start, NEW e,
           Runs(e, "values", <<f, buf, count>>, start, count)
    PROVE  /\ e[0] = start
           /\ \A n \in 0 .. count : n + 1 \in 0 .. count =>
                 e[n + 1] = Element(f, buf, count, e[n], n + 1)
<1>1. \A s, n : Turn("values", <<f, buf, count>>, s, n) = Element(f, buf, count, s, n)
  BY DEF Turn
<1> DEFINE arg == <<f, buf, count>>
<1>2. Runs(e, "values", arg, start, count)
  OBVIOUS
<1> HIDE DEF arg
<1>3. /\ e[0] = start
      /\ \A n \in 0 .. count : n + 1 \in 0 .. count => e[n + 1] = Turn("values", arg, e[n], n + 1)
  BY <1>2, RunsInTurn
<1> QED BY <1>1, <1>3, Zenon DEF arg

\* What the loop makes of an array depends on shorter values only.
LEMMA ElementsSame ==
    ASSUME NEW f, NEW g, NEW buf \in Seq(Alphabet), buf # <<>>,
           Same("value", f, g, Len(buf)), NEW consumed \in Nat \ {0}, NEW count \in Int
    PROVE  /\ ArrayValue(f, buf, consumed, count) = ArrayValue(g, buf, consumed, count)
           /\ Took(ArrayValue(f, buf, consumed, count))
<1>1. CASE count <= 0
  <2> DEFINE v == IF count < 0 THEN Value(<<"(nil)">>, consumed) ELSE Value(<<"(empty array)">>, consumed)
  <2>1. count < 0 \/ count = 0
    BY <1>1
  <2>2. ArrayValue(f, buf, consumed, count) = v /\ ArrayValue(g, buf, consumed, count) = v
    BY <2>1, Zenon DEF ArrayValue
  <2>3. Took(v)
    BY TookFacts, Zenon
  <2> HIDE DEF v
  <2> QED BY <2>2, <2>3, Zenon
<1>2. CASE ~(count <= 0)
  <2> DEFINE start == Value(<<>>, consumed)
  <2>1. count \in Nat \ {0} /\ count \in Nat
    BY <1>2
  <2>2. PICK e : /\ Runs(e, "values", <<f, buf, count>>, start, count)
                 /\ ArrayValue(f, buf, consumed, count) = e[count]
    BY <2>1, ArrayValueRuns
  <2>3. PICK h : /\ Runs(h, "values", <<g, buf, count>>, start, count)
                 /\ ArrayValue(g, buf, consumed, count) = h[count]
    BY <2>1, ArrayValueRuns
  <2> HIDE DEF start
  <2>4. /\ e[0] = start
        /\ \A n \in 0 .. count : n + 1 \in 0 .. count =>
              e[n + 1] = Element(f, buf, count, e[n], n + 1)
    BY <2>1, <2>2, ElementsInTurn
  <2>5. /\ h[0] = start
        /\ \A n \in 0 .. count : n + 1 \in 0 .. count =>
              h[n + 1] = Element(g, buf, count, h[n], n + 1)
    BY <2>1, <2>3, ElementsInTurn
  <2> DEFINE S == {n \in Nat : n <= count => e[n] = h[n] /\ Took(e[n])}
  <2>6. 0 \in S
    <3>1. Took(start)
      BY TookFacts, Zenon DEF start
    <3> QED BY <2>4, <2>5, <3>1
  <2>7. ASSUME NEW n \in Nat, n \in S PROVE n + 1 \in S
    <3>0. n + 1 \in Nat
      OBVIOUS
    <3> SUFFICES ASSUME n + 1 <= count PROVE e[n + 1] = h[n + 1] /\ Took(e[n + 1])
      BY <3>0, Zenon
    <3> DEFINE s == e[n]
               x == From(buf, s.consumed + 1)
               elem == f[x]
    <3>1. n \in 0 .. count /\ n + 1 \in 0 .. count /\ e[n] = h[n] /\ Took(s)
      BY <2>1, <2>7
    <3>2. e[n + 1] = Element(f, buf, count, s, n + 1) /\ h[n + 1] = Element(g, buf, count, s, n + 1)
      BY <2>4, <2>5, <3>1, Zenon
    <3> HIDE DEF s
    <3>3. CASE ~s.ok
      <4>1. e[n + 1] = Incomplete /\ h[n + 1] = Incomplete
        BY <3>2, <3>3, Zenon DEF Element
      <4> QED BY <4>1, TookFacts, Zenon
    <3>4. CASE s.ok
      <4> DEFINE c == s.consumed
      <4>1. c \in Nat \ {0}
        BY <3>1, <3>4, Zenon DEF Took
      <4> HIDE DEF c
      <4>2. x \in Seq(Alphabet) /\ Len(x) < Len(buf)
        <5> DEFINE after == SubSeq(buf, c + 1, Len(buf))
        <5>1. after \in Seq(Alphabet) /\ Len(after) < Len(buf)
          <6>1. CASE c + 1 <= Len(buf)
            BY <4>1, <6>1
          <6>2. CASE ~(c + 1 <= Len(buf))
            <7>1. after = <<>> /\ Len(buf) > 0
              BY <4>1, <6>2
            <7> HIDE DEF after
            <7> QED BY <7>1
          <6> QED BY <6>1, <6>2
        <5> QED BY <5>1 DEF From, c
      <4> HIDE DEF x
      <4>3. x \in Smaller("value", Len(buf))
        BY <4>2 DEF Smaller, Arguments, Size
      <4>4. f[x] = g[x] /\ Took(f[x])
        BY <4>3 DEF Same, Sound
      <4> DEFINE next == Element(f, buf, count, s, n + 1)
                 text == s.text \o Numbered(n + 1, elem.text, n + 1 = count)
      <4>5. /\ next = IF ~elem.ok THEN Incomplete ELSE Value(text, s.consumed + elem.consumed)
            /\ Element(g, buf, count, s, n + 1) = next
        BY <3>4, <4>4, Zenon DEF Element, x
      <4> HIDE DEF next, text, elem
      <4>6. Took(next)
        <5>1. CASE ~elem.ok
          BY <4>5, <5>1, TookFacts, Zenon
        <5>2. CASE elem.ok
          <6>1. elem.consumed \in Nat \ {0}
            BY <4>4, <5>2, Zenon DEF Took, elem
          <6>2. s.consumed + elem.consumed \in Nat \ {0}
            BY <4>1, <6>1 DEF c
          <6>3. next = Value(text, s.consumed + elem.consumed)
            BY <4>5, <5>2, Zenon
          <6> QED BY <6>2, <6>3, TookFacts, Zenon
        <5> QED BY <5>1, <5>2
      <4> QED BY <3>2, <4>5, <4>6, Zenon DEF next
    <3> QED BY <3>3, <3>4
  <2>8. count \in S
    <3> HIDE DEF S
    <3> QED BY <2>1, <2>6, <2>7, NatInductionSet
  <2>9. e[count] = h[count] /\ Took(e[count])
    BY <2>1, <2>8
  <2> QED BY <2>2, <2>3, <2>9, Zenon
<1> QED BY <1>1, <1>2

\* parse_resp_value calls itself with shorter buffers only (client.cpp:225-230).
LEMMA ValueRecursive == Recursive("value")
<1>1. \A x \in Arguments("value") : Size("value", x) \in Nat
  BY DEF Arguments, Size
<1>2. ASSUME NEW f, NEW g, NEW buf \in Arguments("value"), Same("value", f, g, Size("value", buf))
      PROVE  Body("value", f, buf) = Body("value", g, buf) /\ Sound("value", Body("value", f, buf))
  <2> DEFINE crlf == find_crlf(buf, 1)
             line == SubSeq(buf, 2, crlf - 1)
             ef == ArrayValue(f, buf, crlf + 1, stoi(line))
             eg == ArrayValue(g, buf, crlf + 1, stoi(line))
  <2>1. buf \in Seq(Alphabet) /\ Size("value", buf) = Len(buf)
    BY DEF Arguments, Size
  <2>2. Body("value", f, buf) = ReadValue(f, buf) /\ Body("value", g, buf) = ReadValue(g, buf)
    BY DEF Body
  <2>3. ReadValue(f, buf) = ReadValue(g, buf) /\ Took(ReadValue(f, buf))
    <3>1. CASE buf = <<>> \/ crlf = Npos
      <4>1. ReadValue(f, buf) = Incomplete /\ ReadValue(g, buf) = Incomplete
        BY <3>1, Zenon DEF ReadValue
      <4> QED BY <4>1, TookFacts, Zenon
    <3>2. CASE ~(buf = <<>> \/ crlf = Npos)
      <4>1. crlf \in 1 .. (Len(buf) - 1) /\ crlf + 1 \in Nat \ {0}
        BY <2>1, <3>2, CrlfTyped
      <4> HIDE DEF crlf
      <4>2. line \in Seq(Alphabet)
        <5>1. CASE crlf = 1
          BY <2>1, <5>1
        <5>2. CASE crlf # 1
          BY <2>1, <4>1, <5>2
        <5> QED BY <5>1, <5>2
      <4> HIDE DEF line
      <4>3. stoi(line) \in Int
        BY <4>2, StoiTyped
      <4>5. ef = eg /\ Took(ef)
        <5>1. Same("value", f, g, Len(buf))
          BY <1>2, <2>1, Zenon
        <5> QED BY <2>1, <3>2, <4>1, <4>3, <5>1, ElementsSame, Zenon
      <4> HIDE DEF ef, eg
      <4> DEFINE v == ReadValue(f, buf)
                 type == Head(buf)
                 len == stoi(line)
                 consumed == crlf + 1
                 whole == consumed + len + 2
      <4>6. v = CASE type \in {"+", "-"} -> Value(line, consumed)
                  [] type = ":" -> Value(<<"(integer)">> \o line, consumed)
                  [] type \in {"$", "*"} ->
                     IF ~IsInt(line) THEN Value(<<"(error)">>, consumed)
                     ELSE IF type = "$" THEN BulkValue(buf, consumed, len)
                     ELSE ef
                  [] OTHER -> Value(SubSeq(buf, 1, crlf - 1), consumed)
        BY <3>2, Zenon DEF ReadValue, crlf, line, ef
      <4>10. ReadValue(g, buf) =
                CASE type \in {"+", "-"} -> Value(line, consumed)
                  [] type = ":" -> Value(<<"(integer)">> \o line, consumed)
                  [] type \in {"$", "*"} ->
                     IF ~IsInt(line) THEN Value(<<"(error)">>, consumed)
                     ELSE IF type = "$" THEN BulkValue(buf, consumed, len)
                     ELSE eg
                  [] OTHER -> Value(SubSeq(buf, 1, crlf - 1), consumed)
        BY <3>2, Zenon DEF ReadValue, crlf, line, eg
      <4> HIDE DEF v, type, consumed
      <4>7. \A text : Took(Value(text, consumed))
        BY <4>1, TookFacts, Zenon DEF consumed
      <4>8. Took(BulkValue(buf, consumed, len))
        <5>1. len < 0 \/ whole \in Nat \ {0}
          BY <4>1, <4>3 DEF consumed
        <5> HIDE DEF len, whole
        <5>2. BulkValue(buf, consumed, len) = IF len < 0 THEN Value(<<"(nil)">>, consumed)
                 ELSE IF whole > Len(buf) THEN Incomplete
                 ELSE Value(<<DQ>> \o SubSeq(buf, consumed + 1, whole - 2) \o <<DQ>>, whole)
          BY Zenon DEF BulkValue, whole
        <5>3. CASE len < 0
          BY <4>7, <5>2, <5>3, Zenon
        <5>4. CASE ~(len < 0) /\ whole > Len(buf)
          BY <5>2, <5>4, TookFacts, Zenon
        <5>5. CASE ~(len < 0) /\ ~(whole > Len(buf))
          <6> DEFINE text == <<DQ>> \o SubSeq(buf, consumed + 1, whole - 2) \o <<DQ>>
          <6>1. BulkValue(buf, consumed, len) = Value(text, whole)
            BY <5>2, <5>5, Zenon
          <6> HIDE DEF text
          <6>2. whole \in Nat \ {0}
            BY <5>1, <5>5, Zenon
          <6>3. Took(Value(text, whole))
            BY <6>2, TookFacts, Zenon
          <6> QED BY <6>1, <6>3, Zenon
        <5> QED BY <5>3, <5>4, <5>5
      <4>9. Took(v)
        <5>1. CASE type \in {"+", "-"}
          BY <4>6, <4>7, <5>1
        <5>2. CASE type = ":"
          BY <4>6, <4>7, <5>2
        <5>3. CASE type \in {"$", "*"}
          BY <4>5, <4>6, <4>7, <4>8, <5>3
        <5>4. CASE type \notin {"+", "-", ":", "$", "*"}
          BY <4>6, <4>7, <5>4
        <5> QED BY <5>1, <5>2, <5>3, <5>4
      <4> QED BY <4>5, <4>6, <4>9, <4>10, Zenon DEF v
    <3> QED BY <3>1, <3>2
  <2> QED BY <2>2, <2>3, Zenon DEF Sound
<1> QED BY <1>1, <1>2, Zenon DEF Recursive

\* What the client makes of a buffer.
LEMMA ValueIs ==
    \A buf \in Seq(Alphabet) : parse_resp_value[buf] = ReadValue(parse_resp_value, buf)
<1> DEFINE P(f) == f = [data \in Seq(Alphabet) |-> ReadValue(f, data)]
<1>1. parse_resp_value = CHOOSE f : P(f)
  BY Zenon DEF parse_resp_value
<1>2. \E f : P(f)
  <2>1. PICK f : f = [x \in Arguments("value") |-> Body("value", f, x)]
    BY ValueRecursive, RecursionExists
  <2>2. Arguments("value") = Seq(Alphabet)
    BY DEF Arguments
  <2>3. \A x : Body("value", f, x) = ReadValue(f, x)
    BY DEF Body
  <2>4. [x \in Seq(Alphabet) |-> Body("value", f, x)] = [x \in Seq(Alphabet) |-> ReadValue(f, x)]
    BY <2>3
  <2> QED BY <2>1, <2>2, <2>4, Zenon
<1> HIDE DEF P
<1>3. P(parse_resp_value)
  BY <1>1, <1>2, Zenon
<1> QED BY <1>3, Zenon DEF P

-----------------------------------------------------------------------------
(* What the client shows of the server's bytes *)

\* The value of a buffer that a mark and a line open.
Marked(mark, line, buf) ==
    LET consumed == Len(line) + 3
    IN  IF mark \in {"+", "-"} THEN Value(line, consumed)
        ELSE IF mark = ":" THEN Value(<<"(integer)">> \o line, consumed)
        ELSE IF ~IsInt(line) THEN Value(<<"(error)">>, consumed)
        ELSE IF mark = "$" THEN BulkValue(buf, consumed, stoi(line))
        ELSE ArrayValue(parse_resp_value, buf, consumed, stoi(line))

Mark == {"+", "-", ":", "$", "*"}

\* parse_resp_value waits for the first line and then goes by its mark
\* (client.cpp:117-262).
LEMMA ValueHead ==
    ASSUME NEW mark \in Mark, NEW line \in Seq(Alphabet), OneLine(line), NEW rest \in Seq(Alphabet),
           NEW u, IsHeaded(u, mark, line, rest), NEW buf \in Seq(Alphabet), Continues(buf, 0, u)
    PROVE  IF Len(line) + 3 <= Len(buf)
           THEN parse_resp_value[buf] = Marked(mark, line, buf) /\ Continues(buf, Len(line) + 3, rest)
           ELSE parse_resp_value[buf] = Incomplete
<1> DEFINE L == Len(buf)
           N == Len(line)
           crlf == find_crlf(buf, 1)
           type == Head(buf)
           text == SubSeq(buf, 2, crlf - 1)
           consumed == crlf + 1
           len == stoi(text)
           bulk == BulkValue(buf, consumed, len)
           elements == ArrayValue(parse_resp_value, buf, consumed, len)
           value == parse_resp_value[buf]
<1>1. L \in Nat /\ N \in Nat /\ mark # CR
  BY DEF Mark, CR
<1>2. value = ReadValue(parse_resp_value, buf)
  BY ValueIs
<1>3. value = IF buf = <<>> THEN Incomplete
              ELSE IF crlf = Npos THEN Incomplete
              ELSE CASE type \in {"+", "-"} -> Value(text, consumed)
                     [] type = ":" -> Value(<<"(integer)">> \o text, consumed)
                     [] type \in {"$", "*"} -> (IF ~IsInt(text) THEN Value(<<"(error)">>, consumed)
                                                ELSE IF type = "$" THEN bulk ELSE elements)
                     [] OTHER -> Value(SubSeq(buf, 1, crlf - 1), consumed)
  <2> HIDE DEF value
  <2> QED BY <1>2, Zenon DEF ReadValue
<1> HIDE DEF value
<1>4. CASE L = 0
  <2>1. buf = <<>> /\ ~(N + 3 <= L)
    BY <1>1, <1>4
  <2> QED BY <1>3, <2>1, Zenon DEF value
<1>5. CASE L # 0
  <2>1. 1 \in 1 .. Len(buf) /\ buf # <<>> /\ type = buf[1] /\ 1 - 1 = 0
    BY <1>1, <1>5
  <2>2. HeadAt(buf, 1, mark, line, rest, u)
    BY <1>1, <2>1, Zenon DEF HeadAt
  <2>3. HeadFound(buf, 1, mark, line, rest)
    BY <2>2, HeadRead, Zenon
  <2>4. /\ type = mark
        /\ IF 1 + N + 2 <= L
           THEN crlf = 1 + N + 1 /\ SubSeq(buf, 1 + 1, 1 + N) = line /\ Continues(buf, 1 + N + 2, rest)
           ELSE crlf = Npos
    <3> HIDE DEF type, crlf
    <3> QED BY <2>1, <2>3, Zenon DEF HeadFound, crlf
  <2> HIDE DEF crlf, type
  <2>5. CASE ~(N + 3 <= L)
    <3>1. crlf = Npos
      BY <1>1, <2>4, <2>5
    <3> QED BY <1>3, <2>5, <3>1, Zenon DEF value
  <2>6. CASE N + 3 <= L
    <3>1. 1 + N + 2 <= L /\ 1 + N + 2 = N + 3 /\ 1 + 1 = 2
      BY <1>1, <2>6
    <3>2. crlf = 1 + N + 1 /\ SubSeq(buf, 2, 1 + N) = line /\ Continues(buf, N + 3, rest)
      BY <2>4, <3>1, Zenon
    <3>3. consumed = N + 3 /\ crlf # Npos /\ crlf - 1 = 1 + N
      BY <1>1, <3>2 DEF Npos
    <3>4. text = line
      BY <3>2, <3>3, Zenon
    <3> HIDE DEF consumed, text
    <3>5. /\ bulk = BulkValue(buf, N + 3, stoi(line))
          /\ elements = ArrayValue(parse_resp_value, buf, N + 3, stoi(line))
      BY <3>3, <3>4, Zenon
    <3> HIDE DEF bulk, elements
    <3>6. value = CASE type \in {"+", "-"} -> Value(text, consumed)
                    [] type = ":" -> Value(<<"(integer)">> \o text, consumed)
                    [] type \in {"$", "*"} -> (IF ~IsInt(text) THEN Value(<<"(error)">>, consumed)
                                               ELSE IF type = "$" THEN bulk ELSE elements)
                    [] OTHER -> Value(SubSeq(buf, 1, crlf - 1), consumed)
      BY <1>3, <2>1, <3>3, Zenon
    <3> DEFINE a == Value(text, consumed)
               b == Value(<<"(integer)">> \o text, consumed)
               c == IF ~IsInt(text) THEN Value(<<"(error)">>, consumed)
                    ELSE IF type = "$" THEN bulk ELSE elements
               d == Value(SubSeq(buf, 1, crlf - 1), consumed)
    <3>7. /\ value = CASE mark \in {"+", "-"} -> a [] mark = ":" -> b [] mark \in {"$", "*"} -> c [] OTHER -> d
      BY <2>4, <3>6, Zenon
    <3>8. Marked(mark, line, buf) = IF mark \in {"+", "-"} THEN a ELSE IF mark = ":" THEN b ELSE c
      BY <2>4, <3>3, <3>4, <3>5, Zenon DEF Marked
    <3> HIDE DEF a, b, c, d
    <3>9. value = Marked(mark, line, buf)
      BY <3>7, <3>8 DEF Mark
    <3> QED BY <2>6, <3>2, <3>9, Zenon DEF value
  <2> QED BY <2>5, <2>6
<1> QED BY <1>4, <1>5

\* The client shows text for the bytes u, once they are all there.
Shows(u, text) ==
    /\ u \in Seq(Alphabet) /\ u # <<>> /\ text \in Seq(Alphabet)
    /\ \A buf \in Seq(Alphabet) : Continues(buf, 0, u) =>
          parse_resp_value[buf] = IF Len(u) <= Len(buf) THEN Value(text, Len(u)) ELSE Incomplete

\* A status, an error or a number.
LEMMA LineShows ==
    ASSUME NEW mark \in {"+", "-", ":"}, NEW line \in Seq(Alphabet), OneLine(line)
    PROVE  Shows(<<mark>> \o line \o EOL, IF mark = ":" THEN <<"(integer)">> \o line ELSE line)
<1> DEFINE u == <<mark>> \o line \o EOL
           text == IF mark = ":" THEN <<"(integer)">> \o line ELSE line
           none == <<>>
           N == Len(line)
<1>1. mark \in Mark /\ mark \in Alphabet /\ "(integer)" \in Alphabet /\ EOL \in Seq(Alphabet)
  BY AlphabetAssumption, MarksInAlphabet, Zenon DEF Mark
<1>2. none \in Seq(Alphabet) /\ Len(none) = 0 /\ N \in Nat
  OBVIOUS
<1>3. IsHeaded(u, mark, line, none)
  <2>1. IsHeaded(u \o none, mark, line, none)
    BY <1>1, <1>2, HeadBytes, Zenon
  <2>2. u \in Seq(Alphabet)
    <3> DEFINE one == <<mark>>
    <3>1. one \in Seq(Alphabet)
      BY <1>1
    <3> HIDE DEF one
    <3>2. one \o line \in Seq(Alphabet)
      BY <3>1, ConcatProperties
    <3>3. one \o line \o EOL \in Seq(Alphabet)
      BY <1>1, <3>2, ConcatProperties
    <3> QED BY <3>3 DEF one
  <2>3. u \o none = u
    <3> HIDE DEF u
    <3> QED BY <2>2, ConcatEmptySeq
  <2> HIDE DEF u
  <2> QED BY <2>1, <2>3
<1> HIDE DEF u
<1>4. u \in Seq(Alphabet) /\ Len(u) = N + 3
  BY <1>2, <1>3 DEF IsHeaded
<1>5. u # <<>>
  BY <1>2, <1>4
<1>6. text \in Seq(Alphabet)
  <2> DEFINE one == <<"(integer)">>
  <2>1. one \in Seq(Alphabet)
    BY <1>1
  <2> HIDE DEF one
  <2>2. one \o line \in Seq(Alphabet)
    BY <2>1, ConcatProperties
  <2> QED BY <2>2 DEF one
<1>7. ASSUME NEW buf \in Seq(Alphabet), Continues(buf, 0, u)
      PROVE  parse_resp_value[buf] = IF Len(u) <= Len(buf) THEN Value(text, Len(u)) ELSE Incomplete
  <2>1. IF N + 3 <= Len(buf)
        THEN parse_resp_value[buf] = Marked(mark, line, buf) /\ Continues(buf, N + 3, none)
        ELSE parse_resp_value[buf] = Incomplete
    <3> HIDE DEF none
    <3> QED BY <1>1, <1>2, <1>3, <1>7, ValueHead, Zenon
  <2>2. Marked(mark, line, buf) = Value(text, N + 3)
    <3>1. mark \in {"+", "-"} \/ (mark = ":" /\ mark \notin {"+", "-"})
      OBVIOUS
    <3>2. mark = ":" => mark \notin {"+", "-"}
      OBVIOUS
    <3> QED BY <3>1, <3>2, Zenon DEF Marked
  <2> HIDE DEF text
  <2> QED BY <1>4, <2>1, <2>2, Zenon
<1> HIDE DEF text
<1>8. Shows(u, text)
  BY <1>4, <1>5, <1>6, <1>7, Zenon DEF Shows
<1> QED BY <1>8, Zenon DEF u, text
\* A line that opens with none of the type marks is shown as it is.
LEMMA LooseShows ==
    ASSUME NEW mark \in Alphabet, mark \notin Mark \cup {CR}, NEW line \in Seq(Alphabet), OneLine(line)
    PROVE  Shows(<<mark>> \o line \o EOL, <<mark>> \o line)
<1> DEFINE one == <<mark>>
           text == one \o line
           u == text \o EOL
           none == <<>>
           N == Len(line)
<1>1. one \in Seq(Alphabet) /\ Len(one) = 1 /\ none \in Seq(Alphabet) /\ N \in Nat /\ EOL \in Seq(Alphabet)
  BY MarksInAlphabet
<1>2. IsHeaded(u, mark, line, none)
  <2>1. IsHeaded(u \o none, mark, line, none)
    BY <1>1, HeadBytes, Zenon
  <2> HIDE DEF one
  <2>2. u \in Seq(Alphabet)
    BY <1>1, ConcatProperties
  <2> HIDE DEF u
  <2>3. u \o none = u
    BY <2>2, ConcatEmptySeq
  <2> QED BY <2>1, <2>3
<1> HIDE DEF one
<1>3. /\ text \in Seq(Alphabet) /\ Len(text) = N + 1 /\ u \in Seq(Alphabet) /\ Len(u) = N + 3
      /\ \A i \in 1 .. N + 1 : u[i] = text[i]
  <2>1. Joins(text, one, line, Alphabet)
    BY <1>1, ConcatJoins, Zenon
  <2>2. text \in Seq(Alphabet) /\ Len(text) = N + 1
    BY <1>1, <2>1 DEF Joins
  <2> HIDE DEF text
  <2>3. Joins(u, text, EOL, Alphabet)
    BY <1>1, <2>2, ConcatJoins, Zenon
  <2>4. Len(EOL) = 2
    BY DEF EOL
  <2> HIDE DEF u
  <2>5. u \in Seq(Alphabet) /\ Len(u) = Len(text) + Len(EOL) /\ \A i \in 1 .. Len(text) : u[i] = text[i]
    BY <2>3, Zenon DEF Joins
  <2>6. Len(u) = N + 3
    BY <1>1, <2>2, <2>4, <2>5
  <2> QED BY <2>2, <2>5, <2>6, Zenon
<1> HIDE DEF u, text
<1>4. ASSUME NEW buf \in Seq(Alphabet), Continues(buf, 0, u)
      PROVE  parse_resp_value[buf] = IF Len(u) <= Len(buf) THEN Value(text, Len(u)) ELSE Incomplete
  <2> DEFINE L == Len(buf)
             crlf == find_crlf(buf, 1)
             value == parse_resp_value[buf]
  <2>1. L \in Nat /\ value = ReadValue(parse_resp_value, buf)
    BY ValueIs
  <2>2. CASE L = 0
    <3>1. buf = <<>> /\ ~(Len(u) <= L)
      BY <1>1, <1>3, <2>2
    <3> QED BY <2>1, <3>1, Zenon DEF ReadValue
  <2>3. CASE L # 0
    <3>1. 1 \in 1 .. Len(buf) /\ buf # <<>> /\ Head(buf) = buf[1] /\ 1 - 1 = 0 /\ mark # CR
      BY <2>1, <2>3
    <3>2. HeadAt(buf, 1, mark, line, none, u)
      <4> HIDE DEF none
      <4> QED BY <1>1, <1>2, <1>4, <3>1, Zenon DEF HeadAt
    <3>3. HeadFound(buf, 1, mark, line, none)
      <4> HIDE DEF none
      <4> QED BY <3>2, HeadRead, Zenon
    <3>4. buf[1] = mark /\ IF 1 + N + 2 <= L THEN crlf = 1 + N + 1 ELSE crlf = Npos
      <4> HIDE DEF none
      <4> QED BY <3>3, Zenon DEF HeadFound
    <3>5. Head(buf) \notin {"+", "-"} /\ Head(buf) # ":" /\ Head(buf) \notin {"$", "*"}
      BY <3>1, <3>4, Zenon DEF Mark
    <3> HIDE DEF crlf
    <3>6. value = IF crlf = Npos THEN Incomplete ELSE Value(SubSeq(buf, 1, crlf - 1), crlf + 1)
      BY <2>1, <3>1, <3>5, Zenon DEF ReadValue, crlf
    <3>7. CASE ~(Len(u) <= L)
      <4>1. crlf = Npos
        BY <1>1, <1>3, <2>1, <3>4, <3>7
      <4> QED BY <3>6, <3>7, <4>1, Zenon
    <3>8. CASE Len(u) <= L
      <4>1. crlf = N + 2 /\ crlf # Npos /\ crlf - 1 = N + 1 /\ crlf + 1 = Len(u)
        BY <1>1, <1>3, <2>1, <3>4, <3>8 DEF Npos
      <4>2. \A i \in 1 .. N + 1 : buf[i] = text[i]
        BY <1>1, <1>3, <1>4, <3>8 DEF Continues
      <4>3. SubSeq(buf, 1, N + 1) = text
        <5> DEFINE t == SubSeq(buf, 1, N + 1)
        <5>1. t \in Seq(Alphabet) /\ Len(t) = N + 1 /\ \A i \in 1 .. N + 1 : t[i] = buf[i]
          BY <1>1, <1>3, <2>1, <3>8
        <5> HIDE DEF t
        <5>2. t = text
          BY <1>3, <4>2, <5>1, SeqEqual
        <5> QED BY <5>2 DEF t
      <4> QED BY <3>6, <3>8, <4>1, <4>3, Zenon
    <3> QED BY <3>7, <3>8
  <2> QED BY <2>2, <2>3
<1>5. u # <<>>
  BY <1>1, <1>3
<1>6. Shows(u, text)
  BY <1>3, <1>4, <1>5, Zenon DEF Shows
<1> QED BY <1>6, Zenon DEF u, text, one

\* A bulk string.
LEMMA BulkShows ==
    ASSUME NEW word \in Seq(Alphabet), Len(word) <= IntMax
    PROVE  Shows(bulk_string(word), InQuotes(word))
<1> DEFINE u == bulk_string(word)
           d == to_string(Len(word))
           rest == word \o EOL
           W == Len(word)
           D == Len(d)
           quote == <<DQ>>
           text == quote \o word \o quote
<1>1. W \in Nat /\ "$" \in Mark /\ "$" \notin {"+", "-"} /\ "$" # ":"
  BY DEF Mark
<1>2. d \in Seq(Alphabet) /\ OneLine(d) /\ D \in Nat \ {0} /\ IsInt(d) /\ stoi(d) = W
  BY <1>1, NumberLine, NumberRead
<1>3. IsHeaded(u, "$", d, rest) /\ Joins(rest, word, EOL, Alphabet) /\ Len(u) = D + W + 5
  BY BulkBytes
<1>4. u \in Seq(Alphabet) /\ u # <<>>
  BY BulkTyped
<1>5. text \in Seq(Alphabet) /\ InQuotes(word) = text
  <2>1. quote \in Seq(Alphabet)
    BY MarksInAlphabet
  <2> HIDE DEF quote
  <2>2. quote \o word \in Seq(Alphabet)
    BY <2>1, ConcatProperties
  <2>3. text \in Seq(Alphabet)
    BY <2>1, <2>2, ConcatProperties
  <2> QED BY <2>3, Zenon DEF InQuotes, quote
<1> HIDE DEF u, d, rest, W, D, quote, text
<1>6. rest \in Seq(Alphabet) /\ Len(rest) = W + 2 /\ \A i \in 1 .. W : rest[i] = word[i]
  <2>1. Len(EOL) = 2
    BY DEF EOL
  <2> QED BY <1>3, <2>1 DEF Joins, W
<1>7. ASSUME NEW buf \in Seq(Alphabet), Continues(buf, 0, u)
      PROVE  parse_resp_value[buf] = IF Len(u) <= Len(buf) THEN Value(text, Len(u)) ELSE Incomplete
  <2> DEFINE L == Len(buf)
             whole == (D + 3) + W + 2
             held == SubSeq(buf, (D + 3) + 1, whole - 2)
             value == parse_resp_value[buf]
  <2>1. L \in Nat
    OBVIOUS
  <2>2. IF D + 3 <= L THEN value = Marked("$", d, buf) /\ Continues(buf, D + 3, rest)
        ELSE value = Incomplete
    <3>1. "$" \in Mark /\ d \in Seq(Alphabet) /\ OneLine(d) /\ rest \in Seq(Alphabet) /\ IsHeaded(u, "$", d, rest)
      BY <1>1, <1>2, <1>3, <1>6
    <3> QED BY <1>7, <3>1, ValueHead DEF D
  <2>3. Marked("$", d, buf) = BulkValue(buf, D + 3, W)
    BY <1>1, <1>2, Zenon DEF Marked, D
  <2>4. BulkValue(buf, D + 3, W) = IF whole > L THEN Incomplete ELSE Value(quote \o held \o quote, whole)
    <3>1. ~(W < 0)
      BY <1>1
    <3> QED BY <3>1, Zenon DEF BulkValue, quote
  <2> HIDE DEF L, value
  <2>5. whole = Len(u)
    BY <1>1, <1>2, <1>3
  <2>6. CASE ~(D + 3 <= L)
    <3>1. ~(Len(u) <= L)
      BY <1>1, <1>2, <1>3, <2>1, <2>6
    <3> QED BY <2>2, <2>6, <3>1, Zenon DEF value, L
  <2>7. CASE D + 3 <= L /\ whole > L
    <3>1. ~(Len(u) <= L)
      BY <1>1, <1>2, <1>3, <2>1, <2>7
    <3> QED BY <2>2, <2>3, <2>4, <2>7, <3>1, Zenon DEF value, L
  <2>8. CASE D + 3 <= L /\ ~(whole > L)
    <3>1. held = word
      <4> DEFINE o == D + 3
      <4>1. o \in Nat /\ whole - 2 = o + W /\ o + W <= L
        BY <1>1, <1>2, <2>1, <2>8
      <4>2. Continues(buf, o, rest)
        BY <2>2, <2>8, Zenon
      <4> HIDE DEF o
      <4>3. \A i \in 1 .. W : i \in 1 .. Len(rest) /\ o + i <= L
        BY <1>1, <1>6, <2>1, <4>1
      <4>4. \A i \in 1 .. W : buf[o + i] = word[i]
        BY <1>6, <4>2, <4>3, Zenon DEF Continues, L
      <4> DEFINE w == SubSeq(buf, o + 1, o + W)
      <4>5. w \in Seq(Alphabet) /\ Len(w) = W /\ \A i \in 1 .. W : w[i] = buf[o + i]
        BY <1>1, <4>1 DEF L
      <4> HIDE DEF w
      <4>6. w = word
        BY <4>4, <4>5, SeqEqual DEF W
      <4> QED BY <4>1, <4>6, Zenon DEF w, o
    <3>2. Len(u) <= L
      BY <1>1, <1>2, <1>3, <2>1, <2>8
    <3> HIDE DEF whole, held
    <3>3. value = Value(text, Len(u))
      BY <2>2, <2>3, <2>4, <2>5, <2>8, <3>1, Zenon DEF text
    <3> QED BY <3>2, <3>3, Zenon DEF value, L
  <2> QED BY <2>6, <2>7, <2>8
<1>8. Shows(u, text)
  BY <1>4, <1>5, <1>7, Zenon DEF Shows
<1> QED BY <1>5, <1>8, Zenon DEF u

\* std::stoll undoes std::to_string, below zero too.
LEMMA IntegerRead ==
    ASSUME NEW n \in Int
    PROVE  /\ to_string(n) \in Seq(Alphabet) /\ OneLine(to_string(n))
           /\ IsNumber(to_string(n)) /\ stoi(to_string(n)) = n
<1>1. CASE n \in Nat
  BY <1>1, NumberLine, NumberRead
<1>2. CASE n \notin Nat
  <2> DEFINE m == -n
             d == Decimal[m]
             minus == <<"-">>
             text == minus \o d
             N == Len(d)
  <2>1. m \in Nat /\ n < 0 /\ n = -m
    BY <1>2
  <2>2. to_string(n) = text
    BY <2>1, Zenon DEF to_string
  <2> HIDE DEF m
  <2>3. d \in Seq(Digit) /\ d # <<>> /\ Number(d) = m
    BY <2>1, DecimalText
  <2>4. "-" \in Alphabet /\ "-" # CR /\ "-" \notin Digit /\ ~IsSpace("-")
    BY AlphabetAssumption, Zenon DEF CR, LF, SP, TAB, Digit, IsSpace
  <2>5. Digit \subseteq Alphabet /\ \A ch \in Digit : ch # CR /\ IsDigit(ch)
    BY DigitFacts
  <2>6. d \in Seq(Alphabet) /\ N \in Nat \ {0} /\ \A i \in 1 .. N : d[i] \in Digit
    <3>1. d \in Seq(Alphabet)
      BY <2>3, <2>5, SeqMonotonic
    <3> QED BY <2>3, <3>1
  <2>7. minus \in Seq(Alphabet) /\ Len(minus) = 1 /\ minus[1] = "-"
    BY <2>4
  <2> HIDE DEF d, minus
  <2>8. Joins(text, minus, d, Alphabet)
    BY <2>6, <2>7, ConcatJoins
  <2> HIDE DEF text, N
  <2>9. /\ text \in Seq(Alphabet) /\ Len(text) = N + 1 /\ text[1] = "-"
        /\ \A i \in 1 .. N : text[1 + i] = d[i]
    BY <2>6, <2>7, <2>8 DEF Joins, N
  <2>10. OneLine(text)
    <3>1. \A i \in 1 .. Len(text) : text[i] # CR
      <4> SUFFICES ASSUME NEW i \in 1 .. Len(text) PROVE text[i] # CR
        OBVIOUS
      <4>1. CASE i = 1
        BY <2>4, <2>9, <4>1
      <4>2. CASE i # 1
        <5>1. i - 1 \in 1 .. N /\ 1 + (i - 1) = i
          BY <2>6, <2>9, <4>2
        <5>2. text[1 + (i - 1)] = d[i - 1]
          BY <2>9, <5>1, Zenon
        <5>3. d[i - 1] # CR
          BY <2>5, <2>6, <5>1
        <5> QED BY <5>1, <5>2, <5>3
      <4> QED BY <4>1, <4>2
    <3> QED BY <2>6, <2>9, <3>1 DEF OneLine
  <2>11. SkipSpace(text) = text
    <3> DEFINE I == {i \in 1 .. Len(text) : NotSpace(text[i])}
    <3>0. 1 \in 1 .. Len(text) /\ Len(text) \in Nat
      BY <2>6, <2>9
    <3>1. 1 \in I
      BY <2>4, <2>9, <3>0 DEF NotSpace
    <3>2. I # {} /\ Min(I) = 1
      <4>1. I \in SUBSET (1 .. Len(text)) /\ \A j \in 1 .. (1 - 1) : j \notin I
        OBVIOUS
      <4> HIDE DEF I
      <4> QED BY <3>0, <3>1, <4>1, FirstIs
    <3>3. SelectInSeq(text, NotSpace) = 1
      BY <3>2, Zenon DEF SelectInSeq
    <3>4. From(text, 1) = text
      BY <2>9, SubSeqFull DEF From
    <3> QED BY <3>3, <3>4 DEF SkipSpace
  <2>12. UnsignedPart(text) = d
    <3>1. text # <<>> /\ Head(text) = "-" /\ Tail(text) \in Seq(Alphabet) /\ Len(Tail(text)) = N
          /\ \A i \in 1 .. N : Tail(text)[i] = text[1 + i]
      BY <2>6, <2>9
    <3>2. Tail(text) = d
      <4> DEFINE t == Tail(text)
      <4> HIDE DEF t
      <4>1. t \in Seq(Alphabet) /\ Len(t) = Len(d) /\ \A i \in 1 .. Len(d) : t[i] = d[i]
        BY <2>9, <3>1 DEF t, N
      <4> QED BY <2>6, <4>1, SeqEqual DEF t
    <3> QED BY <3>1, <3>2 DEF UnsignedPart, Signed
  <2>13. LeadingDigits(d) = d
    <3>1. {i \in 1 .. Len(d) : NotDigit(d[i])} = {}
      BY <2>5, <2>6 DEF NotDigit, N
    <3>2. SelectInSeq(d, NotDigit) = 0
      BY <3>1, Zenon DEF SelectInSeq
    <3> QED BY <3>2 DEF LeadingDigits
  <2>14. NumberDigits(text) = d
    BY <2>11, <2>12, <2>13, Zenon DEF NumberDigits
  <2>15. stoi(text) = -m
    BY <2>3, <2>9, <2>11, <2>14, Zenon DEF stoi
  <2>16. IsNumber(text)
    BY <2>3, <2>14, Zenon DEF IsNumber
  <2> QED BY <2>1, <2>2, <2>9, <2>10, <2>15, <2>16
<1> QED BY <1>1, <1>2

\* The null bulk string and the empty array.
LEMMA NothingShows ==
    Shows(null_bulk_string, <<"(nil)">>) /\ Shows(empty_array, <<"(empty array)">>)
<1> DEFINE none == <<>>
           minus == <<"-", "1">>
           zero == <<"0">>
           nil == <<"(nil)">>
           empty == <<"(empty array)">>
<1>1. /\ "-" \in Alphabet /\ "0" \in Alphabet /\ "1" \in Alphabet /\ "$" \in Alphabet /\ "*" \in Alphabet
      /\ "(nil)" \in Alphabet /\ "(empty array)" \in Alphabet /\ CR \in Alphabet /\ LF \in Alphabet
  BY AlphabetAssumption, Zenon
<1>2. none \in Seq(Alphabet) /\ Len(none) = 0 /\ Len(minus) = 2 /\ Len(zero) = 1
  OBVIOUS
<1>0. nil \in Seq(Alphabet) /\ empty \in Seq(Alphabet)
  <2>1. \A x \in Alphabet : <<x>> \in Seq(Alphabet)
    OBVIOUS
  <2> QED BY <1>1, <2>1, Zenon
<1> HIDE DEF nil, empty
<1>3. to_string(0) = zero /\ to_string(-1) = minus
  <2>1. to_string(0) = Decimal[0] /\ to_string(-1) = <<"-">> \o Decimal[1]
    BY DEF to_string
  <2>2. Decimal[0] = <<Digits[0 + 1]>> /\ Decimal[1] = <<Digits[1 + 1]>>
    <3>1. 0 \in Nat /\ 0 < 10 /\ 1 \in Nat /\ 1 < 10
      OBVIOUS
    <3> QED BY <3>1, DecimalDigits, Zenon
  <2>3. Digits[0 + 1] = "0" /\ Digits[1 + 1] = "1"
    BY DEF Digits
  <2> QED BY <2>1, <2>2, <2>3
<1>4. /\ zero \in Seq(Alphabet) /\ OneLine(zero) /\ IsInt(zero) /\ stoi(zero) = 0
      /\ minus \in Seq(Alphabet) /\ OneLine(minus) /\ IsInt(minus) /\ stoi(minus) = -1
  <2>1. 0 \in Int /\ -1 \in Int /\ -1 <= IntMax /\ -1 >= -IntMax - 1 /\ 0 <= IntMax /\ 0 >= -IntMax - 1
    BY DEF IntMax
  <2> HIDE DEF zero, minus
  <2>2. /\ zero \in Seq(Alphabet) /\ OneLine(zero) /\ IsNumber(zero) /\ stoi(zero) = 0
        /\ minus \in Seq(Alphabet) /\ OneLine(minus) /\ IsNumber(minus) /\ stoi(minus) = -1
    BY <1>3, <2>1, IntegerRead
  <2> QED BY <2>1, <2>2 DEF IsInt
<1>5. IsHeaded(null_bulk_string, "$", minus, none) /\ IsHeaded(empty_array, "*", zero, none)
  <2>1. null_bulk_string = <<"$">> \o minus \o EOL \o none /\ empty_array = <<"*">> \o zero \o EOL \o none
    BY DEF null_bulk_string, empty_array, EOL
  <2> HIDE DEF zero, minus, none
  <2> QED BY <1>1, <1>2, <1>4, <2>1, HeadBytes, Zenon
<1>6. /\ null_bulk_string \in Seq(Alphabet) /\ Len(null_bulk_string) = 5 /\ null_bulk_string # <<>>
      /\ empty_array \in Seq(Alphabet) /\ Len(empty_array) = 4 /\ empty_array # <<>>
  <2> HIDE DEF none, minus, zero
  <2>1. null_bulk_string \in Seq(Alphabet) /\ Len(null_bulk_string) = 5
    BY <1>2, <1>5 DEF IsHeaded
  <2>2. empty_array \in Seq(Alphabet) /\ Len(empty_array) = 4
    BY <1>2, <1>5 DEF IsHeaded
  <2>3. null_bulk_string # <<>> /\ empty_array # <<>>
    <3>1. Len(<<>>) = 0 /\ 0 # 5 /\ 0 # 4
      OBVIOUS
    <3> QED BY <2>1, <2>2, <3>1, Zenon
  <2> QED BY <2>1, <2>2, <2>3
<1>7. /\ "$" \in Mark /\ "*" \in Mark /\ "$" \notin {"+", "-", ":"} /\ "*" \notin {"+", "-", ":", "$"}
      /\ -1 < 0 /\ ~(0 < 0) /\ 2 + 3 = 5 /\ 1 + 3 = 4
  BY DEF Mark
<1> HIDE DEF zero, minus, none
<1>8. ASSUME NEW buf \in Seq(Alphabet), Continues(buf, 0, null_bulk_string)
      PROVE  parse_resp_value[buf] = IF 5 <= Len(buf) THEN Value(nil, 5) ELSE Incomplete
  <2>1. IF 5 <= Len(buf) THEN parse_resp_value[buf] = Marked("$", minus, buf)
        ELSE parse_resp_value[buf] = Incomplete
    <3>1. IF Len(minus) + 3 <= Len(buf)
          THEN parse_resp_value[buf] = Marked("$", minus, buf) /\ Continues(buf, Len(minus) + 3, none)
          ELSE parse_resp_value[buf] = Incomplete
      <4>1. /\ "$" \in Mark /\ minus \in Seq(Alphabet) /\ OneLine(minus) /\ none \in Seq(Alphabet)
            /\ IsHeaded(null_bulk_string, "$", minus, none)
        BY <1>2, <1>4, <1>5, <1>7, Zenon
      <4> QED BY <1>8, <4>1, ValueHead
    <3> QED BY <1>2, <1>7, <3>1, Zenon
  <2>2. Marked("$", minus, buf) = BulkValue(buf, 5, -1)
    BY <1>2, <1>4, <1>7, Zenon DEF Marked
  <2>3. BulkValue(buf, 5, -1) = Value(nil, 5)
    BY <1>7, Zenon DEF BulkValue, nil
  <2> QED BY <2>1, <2>2, <2>3, Zenon
<1>9. ASSUME NEW buf \in Seq(Alphabet), Continues(buf, 0, empty_array)
      PROVE  parse_resp_value[buf] = IF 4 <= Len(buf) THEN Value(empty, 4) ELSE Incomplete
  <2>1. IF 4 <= Len(buf) THEN parse_resp_value[buf] = Marked("*", zero, buf)
        ELSE parse_resp_value[buf] = Incomplete
    <3>1. IF Len(zero) + 3 <= Len(buf)
          THEN parse_resp_value[buf] = Marked("*", zero, buf) /\ Continues(buf, Len(zero) + 3, none)
          ELSE parse_resp_value[buf] = Incomplete
      <4>1. /\ "*" \in Mark /\ zero \in Seq(Alphabet) /\ OneLine(zero) /\ none \in Seq(Alphabet)
            /\ IsHeaded(empty_array, "*", zero, none)
        BY <1>2, <1>4, <1>5, <1>7, Zenon
      <4> QED BY <1>9, <4>1, ValueHead
    <3> QED BY <1>2, <1>7, <3>1, Zenon
  <2>2. Marked("*", zero, buf) = ArrayValue(parse_resp_value, buf, 4, 0)
    BY <1>2, <1>4, <1>7, Zenon DEF Marked
  <2>3. ArrayValue(parse_resp_value, buf, 4, 0) = Value(empty, 4)
    BY <1>7, Zenon DEF ArrayValue, empty
  <2> QED BY <2>1, <2>2, <2>3, Zenon
<1>10. Shows(null_bulk_string, nil)
  BY <1>0, <1>6, <1>8, Zenon DEF Shows
<1>11. Shows(empty_array, empty)
  BY <1>0, <1>6, <1>9, Zenon DEF Shows
<1> QED BY <1>10, <1>11, Zenon DEF nil, empty

\* The lines of a numbered list of quoted words.
ListLines(words) == [i \in 1 .. Len(words) |-> Numbered(i, InQuotes(words[i]), i = Len(words))]

\* The lines of a numbered list and the text that they make.
LEMMA ListLinesTyped ==
    ASSUME NEW words \in Words
    PROVE  /\ \A i \in 1 .. Len(words) :
                 /\ ListLines(words)[i] \in Seq(Alphabet) /\ InQuotes(words[i]) \in Seq(Alphabet)
                 /\ ListLines(words)[i] = Numbered(i, InQuotes(words[i]), i = Len(words))
           /\ NumberedList(AllInQuotes(words)) = Flat(ListLines(words), Len(words))
<1> DEFINE K == Len(words)
<1>1. K \in Nat /\ \A i \in 1 .. K : words[i] \in Seq(Alphabet) /\ Len(words[i]) <= IntMax
  BY PartsFrames
<1>2. ASSUME NEW i \in 1 .. K
      PROVE  ListLines(words)[i] \in Seq(Alphabet) /\ InQuotes(words[i]) \in Seq(Alphabet)
  <2> DEFINE d == to_string(i)
             q == InQuotes(words[i])
             mark == <<")", SP>>
             end == IF i = K THEN <<>> ELSE <<LF>>
             x == d \o mark
             y == x \o q
  <2>1. ListLines(words)[i] = y \o end
    BY Zenon DEF ListLines, Numbered
  <2>2. d \in Seq(Alphabet)
    BY <1>1, NumberLine
  <2>3. q \in Seq(Alphabet)
    BY <1>1, BulkShows, Zenon DEF Shows
  <2>4. ")" \in Alphabet /\ SP \in Alphabet /\ LF \in Alphabet
    BY AlphabetAssumption, Zenon
  <2>5. mark \in Seq(Alphabet) /\ end \in Seq(Alphabet)
    BY <2>4
  <2> HIDE DEF d, q, mark, end
  <2>6. x \in Seq(Alphabet)
    BY <2>2, <2>5, ConcatProperties
  <2> HIDE DEF x
  <2>7. y \in Seq(Alphabet)
    BY <2>3, <2>6, ConcatProperties
  <2> HIDE DEF y
  <2>8. y \o end \in Seq(Alphabet)
    BY <2>5, <2>7, ConcatProperties
  <2> QED BY <2>1, <2>3, <2>8 DEF q
<1>3. \A i \in 1 .. K : ListLines(words)[i] = Numbered(i, InQuotes(words[i]), i = K)
  BY Zenon DEF ListLines
<1>4. NumberedList(AllInQuotes(words)) = Flat(ListLines(words), K)
  <2> DEFINE texts == AllInQuotes(words)
  <2>1. Len(texts) = K /\ \A i \in 1 .. K : texts[i] = InQuotes(words[i])
    <3>1. texts = [i \in 1 .. K |-> InQuotes(words[i])]
      BY Zenon DEF AllInQuotes
    <3> HIDE DEF texts, K
    <3> QED BY <1>1, <3>1
  <2> HIDE DEF texts, K
  <2>2. NumberedList(texts) = FlattenSeq([i \in 1 .. K |-> Numbered(i, texts[i], i = K)])
    BY <2>1, Zenon DEF NumberedList
  <2>3. [i \in 1 .. K |-> Numbered(i, texts[i], i = K)] = [i \in 1 .. K |-> ListLines(words)[i]]
    BY <1>3, <2>1, Zenon
  <2> QED BY <2>2, <2>3, Zenon DEF Flat, texts
<1> QED BY <1>2, <1>3, <1>4

\* The client's loop over the bulk strings of an array.
LEMMA ValuesRead ==
    ASSUME NEW words \in Words, NEW buf \in Seq(Alphabet), NEW pos \in Nat \ {0},
           pos <= Len(buf), Continues(buf, pos, BytesOf(Parts(words)))
    PROVE  ArrayValue(parse_resp_value, buf, pos, Len(words)) =
             IF pos + Len(BytesOf(Parts(words))) <= Len(buf)
             THEN Value(NumberedList(AllInQuotes(words)), pos + Len(BytesOf(Parts(words))))
             ELSE Incomplete
<1> DEFINE fs == Parts(words)
           K == Len(words)
           L == Len(buf)
           off(i) == Offset(fs, i)
           all == BytesOf(fs)
           lines == ListLines(words)
<1>1. /\ fs \in Streams(Alphabet, {}) /\ Len(fs) = K /\ K \in Nat \ {0}
      /\ \A i \in 1 .. K : words[i] \in Seq(Alphabet) /\ Len(words[i]) <= IntMax
                           /\ fs[i].bytes = bulk_string(words[i])
  BY PartsFrames
<1>2. L \in Nat
  OBVIOUS
<1>3. PICK e : /\ Runs(e, "values", <<parse_resp_value, buf, K>>, Value(<<>>, pos), K)
               /\ ArrayValue(parse_resp_value, buf, pos, K) = e[K]
  <2>1. K \in Nat \ {0}
    BY <1>1
  <2> HIDE DEF K
  <2> QED BY <2>1, ArrayValueRuns, Zenon
<1>4. /\ e[0] = Value(<<>>, pos)
      /\ \A n \in 0 .. K : n + 1 \in 0 .. K => e[n + 1] = Element(parse_resp_value, buf, K, e[n], n + 1)
  <2> DEFINE start == Value(<<>>, pos)
             arg == <<parse_resp_value, buf, K>>
  <2>1. \A s, n : Turn("values", arg, s, n) = Element(parse_resp_value, buf, K, s, n)
    BY DEF Turn
  <2>2. K \in Nat
    BY <1>1
  <2> HIDE DEF start, arg, K
  <2>3. /\ e[0] = start
        /\ \A n \in 0 .. K : n + 1 \in 0 .. K => e[n + 1] = Turn("values", arg, e[n], n + 1)
    BY <1>3, <2>2, RunsInTurn, Zenon DEF arg, start
  <2> QED BY <2>1, <2>3, Zenon DEF start
<1>5. /\ off(0) = 0 /\ off(K) = Len(all) /\ \A i \in 0 .. K : off(i) \in Nat
      /\ all \in Seq(Alphabet) /\ Len(all) \in Nat
  <2> HIDE DEF fs, K
  <2>1. Laid(fs) /\ fs \in Seq(FramesOf(Alphabet, {}))
    BY <1>1, FramesLaid DEF Streams
  <2>2. K \in 0 .. K
    BY <1>1
  <2>3. all \in Seq(Alphabet)
    BY <1>1, <2>1, <2>2, PartsJoin
  <2>4. off(0) = 0 /\ off(K) = Len(all) /\ \A i \in 0 .. K : off(i) \in Nat
    BY <1>1, <2>1, Zenon DEF Laid
  <2> QED BY <2>3, <2>4, LenProperties
<1>0. \A i \in 1 .. K : /\ lines[i] \in Seq(Alphabet) /\ InQuotes(words[i]) \in Seq(Alphabet)
                        /\ lines[i] = Numbered(i, InQuotes(words[i]), i = K)
  BY ListLinesTyped
<1> DEFINE Good(i) == e[i] = IF pos + off(i) <= L THEN Value(Flat(lines, i), pos + off(i)) ELSE Incomplete
           S == {i \in Nat : i <= K => Good(i)}
<1>6. 0 \in S
  <2>1. Flat(lines, 0) = <<>>
    BY FlatNone
  <2>2. pos + 0 <= L /\ pos + 0 = pos
    BY <1>2
  <2> HIDE DEF fs, off, lines
  <2>3. Good(0)
    BY <1>4, <1>5, <2>1, <2>2, Zenon
  <2> HIDE DEF Good
  <2> QED BY <2>3
<1>7. ASSUME NEW i \in Nat, i \in S PROVE i + 1 \in S
  <2>0. i + 1 \in Nat
    OBVIOUS
  <2> SUFFICES ASSUME i + 1 <= K PROVE Good(i + 1)
    <3> HIDE DEF Good
    <3> QED BY <2>0
  <2> DEFINE word == words[i + 1]
             b == bulk_string(word)
             at == pos + off(i)
  <2>1. i \in 0 .. K /\ i + 1 \in 0 .. K /\ i + 1 \in 1 .. K /\ i \in 0 .. (Len(fs) - 1) /\ i <= K
    BY <1>1
  <2>2. word \in Seq(Alphabet) /\ Len(word) <= IntMax /\ fs[i + 1].bytes = b
    BY <1>1, <2>1
  <2>3. /\ b \in Seq(Alphabet) /\ off(i) \in Nat /\ off(i + 1) = off(i) + Len(b)
        /\ off(i + 1) <= Len(all)
        /\ \A j \in 1 .. Len(b) : all[off(i) + j] = b[j]
    <3>1. /\ fs[i + 1].bytes \in Seq(Alphabet) /\ Offset(fs, i) \in Nat
          /\ Offset(fs, i + 1) = Offset(fs, i) + Len(fs[i + 1].bytes)
          /\ Offset(fs, i + 1) <= Len(BytesOf(fs))
          /\ \A j \in 1 .. Len(fs[i + 1].bytes) :
                BytesOf(fs)[Offset(fs, i) + j] = fs[i + 1].bytes[j]
      <4> HIDE DEF fs
      <4> QED BY <1>1, <2>1, FrameAt
    <3> HIDE DEF fs, b
    <3> QED BY <2>2, <3>1, Zenon
  <2>4. e[i + 1] = Element(parse_resp_value, buf, K, e[i], i + 1)
    BY <1>4, <2>1, Zenon
  <2>5. Good(i)
    <3> HIDE DEF Good
    <3> QED BY <1>7, <2>1
  <2>6. Len(b) \in Nat /\ Len(b) >= 1 /\ Shows(b, InQuotes(word))
    BY <2>2, BulkTyped, BulkShows
  <2>7. /\ lines[i + 1] = Numbered(i + 1, InQuotes(word), i + 1 = K)
        /\ Flat(lines, i + 1) = Flat(lines, i) \o lines[i + 1]
    <3>1. lines[i + 1] = Numbered(i + 1, InQuotes(word), i + 1 = K)
      BY <1>0, <2>1, Zenon
    <3>2. \A j \in 1 .. (i + 1) : lines[j] \in Seq(Alphabet)
      <4> HIDE DEF lines
      <4>1. \A j \in 1 .. (i + 1) : j \in 1 .. K
        BY <1>1, <2>1
      <4> QED BY <1>0, <4>1, Zenon
    <3> HIDE DEF lines
    <3>3. Flat(lines, i + 1) = Flat(lines, i) \o lines[i + 1]
      BY <3>2, FlatMore
    <3> QED BY <3>1, <3>3, Zenon
  <2> HIDE DEF fs, off, all, b, word, L, lines
  <2>8. CASE pos + off(i) <= L
    <3> DEFINE x == From(buf, at + 1)
               text == InQuotes(word)
               elem == parse_resp_value[x]
    <3>1. e[i] = Value(Flat(lines, i), at)
      BY <2>5, <2>8, Zenon
    <3>2. at \in Nat \ {0} /\ at = pos + off(i) /\ at <= L
      BY <2>3, <2>8
    <3> HIDE DEF at
    <3>3. x \in Seq(Alphabet) /\ Len(x) = L - at /\ \A j \in 1 .. (L - at) : x[j] = buf[at + j]
      BY <1>2, <3>2 DEF From, L
    <3> HIDE DEF x
    <3>4. Continues(x, 0, b)
      <4> SUFFICES ASSUME NEW j \in 1 .. Len(b), 0 + j <= Len(x) PROVE x[0 + j] = b[j]
        BY DEF Continues
      <4>1. 0 + j = j /\ j \in 1 .. (L - at)
        BY <1>2, <2>6, <3>2, <3>3
      <4>2. off(i) + j \in 1 .. Len(all) /\ pos + (off(i) + j) = at + j /\ pos + (off(i) + j) <= L
        <5> DEFINE o == off(i)
                   next == off(i + 1)
        <5>1. o \in Nat /\ next = o + Len(b) /\ next <= Len(all) /\ Len(all) \in Nat /\ at = pos + o
          BY <1>5, <2>3, <3>2
        <5> HIDE DEF o, next
        <5>2. o + j \in 1 .. Len(all) /\ pos + (o + j) = at + j /\ pos + (o + j) <= L
          BY <1>2, <2>6, <4>1, <5>1
        <5> QED BY <5>2 DEF o
      <4>3. buf[pos + (off(i) + j)] = all[off(i) + j]
        BY <4>2, Zenon DEF Continues, all, fs, L
      <4>4. all[off(i) + j] = b[j]
        BY <2>3
      <4> QED BY <3>3, <4>1, <4>2, <4>3, <4>4, Zenon
    <3>5. elem = IF Len(b) <= Len(x) THEN Value(text, Len(b)) ELSE Incomplete
      BY <2>6, <3>3, <3>4, Zenon DEF Shows
    <3>6. e[i].ok /\ e[i].text = Flat(lines, i) /\ e[i].consumed = at
      <4> DEFINE t == Flat(lines, i)
      <4> HIDE DEF t
      <4>1. Value(t, at).ok /\ Value(t, at).text = t /\ Value(t, at).consumed = at
        BY TookFacts, Zenon
      <4> QED BY <3>1, <4>1, Zenon DEF t
    <3>7. e[i + 1] = IF ~elem.ok THEN Incomplete
                     ELSE Value(Flat(lines, i) \o Numbered(i + 1, elem.text, i + 1 = K), at + elem.consumed)
      BY <2>4, <3>6, Zenon DEF Element, x
    <3> HIDE DEF elem, text
    <3>8. pos + off(i + 1) = at + Len(b)
      BY <2>3, <2>6, <3>2
    <3>9. CASE Len(b) <= Len(x)
      <4>1. elem = Value(text, Len(b))
        BY <3>5, <3>9, Zenon
      <4>2. elem.ok /\ elem.text = text /\ elem.consumed = Len(b)
        BY <4>1, TookFacts, Zenon
      <4>3. Numbered(i + 1, elem.text, i + 1 = K) = lines[i + 1]
        BY <2>7, <4>2, Zenon DEF text
      <4>4. e[i + 1] = Value(Flat(lines, i + 1), at + Len(b))
        BY <2>7, <3>7, <4>2, <4>3, Zenon
      <4>5. at + Len(b) <= L
        BY <1>2, <2>6, <3>2, <3>3, <3>9 DEF L
      <4> QED BY <3>8, <4>4, <4>5, Zenon
    <3>10. CASE ~(Len(b) <= Len(x))
      <4>1. elem = Incomplete
        BY <3>5, <3>10, Zenon
      <4>2. e[i + 1] = Incomplete
        BY <3>7, <4>1, TookFacts, Zenon
      <4>3. ~(at + Len(b) <= L)
        BY <1>2, <2>6, <3>2, <3>3, <3>10 DEF L
      <4> QED BY <3>8, <4>2, <4>3, Zenon
    <3> QED BY <3>9, <3>10
  <2>9. CASE ~(pos + off(i) <= L)
    <3>1. e[i] = Incomplete
      BY <2>5, <2>9, Zenon
    <3>2. e[i + 1] = Incomplete
      BY <2>4, <3>1, TookFacts, Zenon DEF Element
    <3>3. ~(pos + off(i + 1) <= L)
      <4>1. L \in Nat
        BY <1>2 DEF L
      <4> QED BY <2>3, <2>6, <2>9, <4>1
    <3> QED BY <3>2, <3>3, Zenon
  <2> QED BY <2>8, <2>9
<1>8. K \in S
  <2>1. K \in Nat
    BY <1>1
  <2> HIDE DEF S, K
  <2>2. Nat \subseteq S
    BY <1>6, <1>7, NatInductionSet
  <2> QED BY <2>1, <2>2
<1>9. Good(K)
  <2> HIDE DEF Good
  <2> QED BY <1>1, <1>8
<1>10. NumberedList(AllInQuotes(words)) = Flat(lines, K)
  BY ListLinesTyped
<1> HIDE DEF fs, off, K, L, lines
<1> QED BY <1>3, <1>5, <1>9, <1>10, Zenon DEF fs, K, L
\* An array of bulk strings.
LEMMA ArrayShows ==
    ASSUME NEW words \in Words
    PROVE  Shows(array(BulkStringsOf(words)), NumberedList(AllInQuotes(words)))
<1> DEFINE u == array(BulkStringsOf(words))
           K == Len(words)
           d == to_string(K)
           all == BytesOf(Parts(words))
           text == NumberedList(AllInQuotes(words))
           D == Len(d)
           A == Len(all)
<1>1. K \in Nat \ {0} /\ K <= IntMax /\ "*" \in Mark /\ "*" \notin {"+", "-", ":", "$"}
  BY PartsFrames DEF Words, Mark
<1>2. /\ d \in Seq(Alphabet) /\ OneLine(d) /\ D \in Nat \ {0} /\ IsInt(d) /\ stoi(d) = K
  <2> HIDE DEF K
  <2> QED BY <1>1, NumberLine, NumberRead
<1>3. IsHeaded(u, "*", d, all)
  BY ArrayBytes
<1>4. all \in Seq(Alphabet) /\ A \in Nat
  <2> DEFINE fs == Parts(words)
  <2>1. fs \in Streams(Alphabet, {}) /\ Len(fs) = K
    BY PartsFrames
  <2> HIDE DEF fs, K
  <2>2. fs \in Seq(FramesOf(Alphabet, {})) /\ K \in 0 .. Len(fs)
    BY <1>1, <2>1 DEF Streams, fs
  <2>3. BytesOf(fs) \in Seq(Alphabet)
    BY <2>2, PartsJoin
  <2> QED BY <2>3 DEF fs
<1>5. text \in Seq(Alphabet)
  <2> DEFINE lines == ListLines(words)
             k == K - 1
  <2>1. \A i \in 1 .. K : lines[i] \in Seq(Alphabet)
    BY ListLinesTyped
  <2>2. text = Flat(lines, K)
    BY ListLinesTyped
  <2> HIDE DEF lines, K, text
  <2>3. k \in Nat /\ k + 1 = K
    BY <1>1
  <2> HIDE DEF k
  <2>4. \A i \in 1 .. k + 1 : lines[i] \in Seq(Alphabet)
    BY <2>1, <2>3
  <2>5. Flat(lines, k) \in Seq(Alphabet) /\ Flat(lines, k + 1) = Flat(lines, k) \o lines[k + 1]
    BY <2>3, <2>4, FlatMore, Zenon
  <2>6. lines[k + 1] \in Seq(Alphabet)
    BY <1>1, <2>1, <2>3
  <2>7. Flat(lines, k) \o lines[k + 1] \in Seq(Alphabet)
    BY <2>5, <2>6, ConcatProperties
  <2> QED BY <2>2, <2>3, <2>5, <2>7, Zenon
<1> HIDE DEF u, K, d, all, text, D, A
<1>6. u \in Seq(Alphabet) /\ Len(u) = D + 3 + A
  BY <1>2, <1>3, <1>4 DEF IsHeaded, D, A
<1>7. u # <<>>
  BY <1>2, <1>4, <1>6
<1>8. ASSUME NEW buf \in Seq(Alphabet), Continues(buf, 0, u)
      PROVE  parse_resp_value[buf] = IF Len(u) <= Len(buf) THEN Value(text, Len(u)) ELSE Incomplete
  <2> DEFINE L == Len(buf)
             value == parse_resp_value[buf]
  <2>1. L \in Nat
    OBVIOUS
  <2>2. IF D + 3 <= L THEN value = Marked("*", d, buf) /\ Continues(buf, D + 3, all)
        ELSE value = Incomplete
    <3>1. "*" \in Mark /\ d \in Seq(Alphabet) /\ OneLine(d) /\ all \in Seq(Alphabet) /\ IsHeaded(u, "*", d, all)
      BY <1>1, <1>2, <1>3, <1>4
    <3> QED BY <1>8, <3>1, ValueHead DEF D
  <2>3. Marked("*", d, buf) = ArrayValue(parse_resp_value, buf, D + 3, K)
    BY <1>1, <1>2, Zenon DEF Marked, D
  <2> HIDE DEF value, L
  <2>4. CASE ~(D + 3 <= L)
    <3>1. ~(Len(u) <= L)
      BY <1>2, <1>4, <1>6, <2>1, <2>4
    <3> QED BY <2>2, <2>4, <3>1, Zenon DEF value, L
  <2>5. CASE D + 3 <= L
    <3>1. D + 3 \in Nat \ {0} /\ D + 3 <= Len(buf) /\ D + 3 + A = Len(u)
      BY <1>2, <1>4, <1>6, <2>5 DEF L
    <3>2. Continues(buf, D + 3, BytesOf(Parts(words)))
      BY <2>2, <2>5, Zenon DEF all
    <3>3. ArrayValue(parse_resp_value, buf, D + 3, K) =
             IF D + 3 + A <= L THEN Value(text, D + 3 + A) ELSE Incomplete
      BY <3>1, <3>2, ValuesRead, Zenon DEF K, L, A, all, text
    <3> QED BY <2>2, <2>3, <2>5, <3>1, <3>3, Zenon DEF value, L
  <2> QED BY <2>4, <2>5
<1>9. Shows(u, text)
  BY <1>5, <1>6, <1>7, <1>8, Zenon DEF Shows
<1> QED BY <1>9, Zenon DEF u, text

-----------------------------------------------------------------------------
(* The server's replies *)

\* The first line of a text, by where its newline is.
LEMMA GetLineIs ==
    ASSUME NEW text
    PROVE  LET I == {i \in 1 .. Len(text) : text[i] = LF}
           IN  GetLine(text) = IF I = {} THEN [token |-> text, rest |-> <<>>]
                               ELSE [token |-> SubSeq(text, 1, Min(I) - 1), rest |-> From(text, Min(I) + 1)]
<1> DEFINE I == {i \in 1 .. Len(text) : text[i] = LF}
           J == {i \in 1 .. Len(text) : text[i] \in {LF}}
           j == IF J # {} THEN Min(J) ELSE 0
           i == IF I # {} THEN Min(I) ELSE 0
<1>1. GetLine(text) = IF j = 0 THEN [token |-> text, rest |-> <<>>]
                      ELSE [token |-> SubSeq(text, 1, j - 1), rest |-> From(text, j + 1)]
  BY Zenon DEF GetLine, UpTo, SelectInSeq
<1>2. I = J
  BY Zenon
<1>3. I # {} => Min(I) # 0
  <2>1. I \in SUBSET Nat /\ 0 \notin I
    OBVIOUS
  <2> HIDE DEF I
  <2> QED BY <2>1, LeastExists
<1> HIDE DEF I, J
<1> QED BY <1>1, <1>2, <1>3, Zenon DEF I

\* A line and the rest of a text are texts, and the rest is shorter.
LEMMA GetLineTyped ==
    ASSUME NEW text \in Seq(Alphabet), text # <<>>
    PROVE  /\ GetLine(text).token \in Seq(Alphabet) /\ Len(GetLine(text).token) <= Len(text)
           /\ GetLine(text).rest \in Seq(Alphabet) /\ Len(GetLine(text).rest) < Len(text)
<1> DEFINE I == {i \in 1 .. Len(text) : text[i] = LF}
           i == Min(I)
           line == GetLine(text)
           N == Len(text)
<1>1. line = IF I = {} THEN [token |-> text, rest |-> <<>>]
             ELSE [token |-> SubSeq(text, 1, i - 1), rest |-> From(text, i + 1)]
  BY GetLineIs, Zenon
<1>2. I \in SUBSET Nat /\ I \subseteq 1 .. N /\ N \in Nat /\ N > 0
  OBVIOUS
<1> HIDE DEF I, line
<1>3. CASE I = {}
  <2>1. line = [token |-> text, rest |-> <<>>]
    BY <1>1, <1>3, Zenon
  <2>2. line.token = text /\ line.rest = <<>>
    BY <2>1
  <2> QED BY <1>2, <2>2 DEF line
<1>4. CASE I # {}
  <2>1. i \in 1 .. N
    BY <1>2, <1>4, LeastExists, Zenon
  <2>2. line = [token |-> SubSeq(text, 1, i - 1), rest |-> From(text, i + 1)]
    BY <1>1, <1>4, Zenon
  <2> HIDE DEF i
  <2>3. line.token = SubSeq(text, 1, i - 1) /\ line.rest = SubSeq(text, i + 1, N)
    BY <2>2, Zenon DEF From
  <2>4. SubSeq(text, 1, i - 1) \in Seq(Alphabet) /\ Len(SubSeq(text, 1, i - 1)) = i - 1
    BY <2>1
  <2>5. SubSeq(text, i + 1, N) \in Seq(Alphabet) /\ Len(SubSeq(text, i + 1, N)) = N - i
    BY <2>1
  <2> QED BY <1>2, <2>1, <2>3, <2>4, <2>5 DEF line
<1> QED BY <1>3, <1>4

\* Lines calls itself with shorter texts only.
LEMMA LinesRecursive == Recursive("lines")
<1>1. \A x \in Arguments("lines") : Size("lines", x) \in Nat
  BY DEF Arguments, Size
<1>2. ASSUME NEW f, NEW g, NEW x \in Arguments("lines"), Same("lines", f, g, Size("lines", x))
      PROVE  Body("lines", f, x) = Body("lines", g, x) /\ Sound("lines", Body("lines", f, x))
  <2> DEFINE rest == GetLine(x).rest
             first == GetLine(x).token
  <2>1. x \in Seq(Alphabet) /\ Size("lines", x) = Len(x)
    BY DEF Arguments, Size
  <2>2. /\ Body("lines", f, x) = (IF x = <<>> THEN <<>> ELSE <<first>> \o f[rest])
        /\ Body("lines", g, x) = (IF x = <<>> THEN <<>> ELSE <<first>> \o g[rest])
    BY DEF Body
  <2>3. x # <<>> => rest \in Smaller("lines", Len(x))
    <3> SUFFICES ASSUME x # <<>> PROVE rest \in Smaller("lines", Len(x))
      OBVIOUS
    <3>1. rest \in Seq(Alphabet) /\ Len(rest) < Len(x)
      BY <2>1, GetLineTyped
    <3> HIDE DEF rest
    <3> QED BY <3>1 DEF Smaller, Arguments, Size
  <2> HIDE DEF rest, first
  <2>4. x # <<>> => f[rest] = g[rest]
    BY <1>2, <2>1, <2>3, Zenon DEF Same
  <2>5. "lines" # "value"
    OBVIOUS
  <2>6. \A v : Sound("lines", v)
    BY <2>5, Zenon DEF Sound
  <2> DEFINE bf == IF x = <<>> THEN <<>> ELSE <<first>> \o f[rest]
             bg == IF x = <<>> THEN <<>> ELSE <<first>> \o g[rest]
  <2>7. bf = bg
    <3>1. CASE x = <<>>
      BY <3>1, Zenon
    <3>2. CASE x # <<>>
      BY <2>4, <3>2, Zenon
    <3> QED BY <3>1, <3>2
  <2> HIDE DEF bf, bg
  <2>8. Body("lines", f, x) = bf /\ Body("lines", g, x) = bg
    BY <2>2, Zenon DEF bf, bg
  <2> QED BY <2>6, <2>7, <2>8, Zenon
<1> QED BY <1>1, <1>2, Zenon DEF Recursive

\* std::getline until the text is used up.
LEMMA LinesIs ==
    \A text \in Seq(Alphabet) :
       Lines[text] = IF text = <<>> THEN <<>> ELSE <<GetLine(text).token>> \o Lines[GetLine(text).rest]
<1> DEFINE P(f) == f = [text \in Seq(Alphabet) |->
                          IF text = <<>> THEN <<>> ELSE <<GetLine(text).token>> \o f[GetLine(text).rest]]
<1>1. Lines = CHOOSE f : P(f)
  BY Zenon DEF Lines
<1>2. \E f : P(f)
  <2>1. PICK f : f = [x \in Arguments("lines") |-> Body("lines", f, x)]
    BY LinesRecursive, RecursionExists
  <2>2. Arguments("lines") = Seq(Alphabet)
    BY DEF Arguments
  <2> DEFINE B(x) == IF x = <<>> THEN <<>> ELSE <<GetLine(x).token>> \o f[GetLine(x).rest]
  <2>3. \A x : Body("lines", f, x) = B(x)
    BY DEF Body
  <2> HIDE DEF B
  <2>4. [x \in Seq(Alphabet) |-> Body("lines", f, x)] = [x \in Seq(Alphabet) |-> B(x)]
    BY <2>3
  <2> QED BY <2>1, <2>2, <2>4, Zenon DEF B
<1> HIDE DEF P
<1>3. P(Lines)
  BY <1>1, <1>2, Zenon
<1> QED BY <1>3, Zenon DEF P

\* Lines are texts, none of them longer than the whole.
LinesWithin(lines, N) ==
    lines \in Seq(Seq(Alphabet)) /\ \A i \in 1 .. Len(lines) : Len(lines[i]) <= N

\* No line of a text is longer than the text.
LEMMA LinesTyped ==
    ASSUME NEW text \in Seq(Alphabet)
    PROVE  LinesWithin(Lines[text], Len(text))
<1> DEFINE S == {n \in Nat : \A t \in Seq(Alphabet) : Len(t) <= n => LinesWithin(Lines[t], Len(t))}
<1>1. LinesWithin(Lines[<<>>], Len(<<>>))
  <2>1. <<>> \in Seq(Alphabet)
    OBVIOUS
  <2>2. Lines[<<>>] = <<>>
    BY <2>1, LinesIs, Zenon
  <2> QED BY <2>2 DEF LinesWithin
<1>2. 0 \in S
  <2>1. \A t \in Seq(Alphabet) : Len(t) <= 0 => t = <<>>
    OBVIOUS
  <2> QED BY <1>1, <2>1
<1>3. ASSUME NEW n \in Nat, n \in S PROVE n + 1 \in S
  <2>0. n + 1 \in Nat
    OBVIOUS
  <2>1. ASSUME NEW t \in Seq(Alphabet), Len(t) <= n + 1 PROVE LinesWithin(Lines[t], Len(t))
    <3>1. CASE t = <<>>
      BY <1>1, <3>1, Zenon
    <3>2. CASE t # <<>>
      <4> DEFINE first == GetLine(t).token
                 rest == GetLine(t).rest
                 one == <<first>>
                 more == Lines[rest]
                 lines == Lines[t]
      <4>1. /\ first \in Seq(Alphabet) /\ Len(first) <= Len(t)
            /\ rest \in Seq(Alphabet) /\ Len(rest) < Len(t)
        BY <3>2, GetLineTyped
      <4>2. lines = one \o more
        BY <3>2, LinesIs, Zenon
      <4> HIDE DEF first, rest
      <4>3. Len(rest) <= n
        BY <2>1, <4>1
      <4>4. LinesWithin(more, Len(rest))
        BY <1>3, <4>1, <4>3
      <4>5. one \in Seq(Seq(Alphabet)) /\ Len(one) = 1 /\ one[1] = first
        BY <4>1
      <4> HIDE DEF one, more
      <4>6. Joins(one \o more, one, more, Seq(Alphabet))
        BY <4>4, <4>5, ConcatJoins DEF LinesWithin
      <4> HIDE DEF lines
      <4>7. /\ lines \in Seq(Seq(Alphabet)) /\ Len(lines) = 1 + Len(more) /\ lines[1] = first
            /\ \A i \in 1 .. Len(more) : lines[1 + i] = more[i]
        BY <4>2, <4>5, <4>6 DEF Joins
      <4>8. ASSUME NEW i \in 1 .. Len(lines) PROVE Len(lines[i]) <= Len(t)
        <5>1. CASE i = 1
          BY <4>1, <4>7, <5>1
        <5>2. CASE i # 1
          <6>0. Len(more) \in Nat
            BY <4>4 DEF LinesWithin
          <6>1. i - 1 \in 1 .. Len(more) /\ 1 + (i - 1) = i
            BY <4>7, <5>2, <6>0
          <6>2. lines[1 + (i - 1)] = more[i - 1]
            BY <4>7, <6>1, Zenon
          <6>3. Len(more[i - 1]) <= Len(rest) /\ Len(more[i - 1]) \in Nat
            BY <4>4, <6>1 DEF LinesWithin
          <6> QED BY <4>1, <6>1, <6>2, <6>3
        <5> QED BY <5>1, <5>2
      <4> QED BY <4>7, <4>8, Zenon DEF LinesWithin, lines
    <3> QED BY <3>1, <3>2
  <2> QED BY <2>0, <2>1
<1>4. Nat \subseteq S
  <2> HIDE DEF S
  <2> QED BY <1>2, <1>3, NatInductionSet
<1> QED BY <1>4
\* The first ") " of a line is inside it.
LEMMA ListMarkTyped ==
    ASSUME NEW line \in Seq(Alphabet), ListMark(line) # Npos
    PROVE  ListMark(line) \in 1 .. (Len(line) - 1)
<1> DEFINE at == {p \in 1 .. (Len(line) - 1) : line[p] = ")" /\ line[p + 1] = SP}
<1>1. ListMark(line) = IF at = {} THEN Npos ELSE Min(at)
  BY Zenon DEF ListMark
<1>2. at \in SUBSET Nat /\ at \subseteq 1 .. (Len(line) - 1)
  OBVIOUS
<1> HIDE DEF at
<1>3. at # {} /\ ListMark(line) = Min(at)
  BY <1>1, Zenon
<1> QED BY <1>2, <1>3, LeastExists, Zenon

\* serialize_response calls itself with shorter texts only (resp.cpp:292-308).
LEMMA ResponseRecursive == Recursive("response")
<1>1. \A x \in Arguments("response") : Size("response", x) \in Nat
  BY DEF Arguments, Size
<1>2. ASSUME NEW f, NEW g, NEW x \in Arguments("response"), Same("response", f, g, Size("response", x))
      PROVE  Body("response", f, x) = Body("response", g, x) /\ Sound("response", Body("response", f, x))
  <2> DEFINE lines == Lines[x]
             ef == [i \in 1 .. Len(lines) |-> ListElement(f, lines[i])]
             eg == [i \in 1 .. Len(lines) |-> ListElement(g, lines[i])]
  <2>1. x \in Seq(Alphabet) /\ Size("response", x) = Len(x)
    BY DEF Arguments, Size
  <2>2. Body("response", f, x) = Serialized(f, x) /\ Body("response", g, x) = Serialized(g, x)
    BY DEF Body
  <2>3. LinesWithin(lines, Len(x))
    BY <2>1, LinesTyped
  <2>4. ASSUME NEW i \in 1 .. Len(lines) PROVE ListElement(f, lines[i]) = ListElement(g, lines[i])
    <3> DEFINE line == lines[i]
               p == ListMark(line)
               content == From(line, p + 2)
    <3>1. line \in Seq(Alphabet) /\ Len(line) <= Len(x)
      <4> HIDE DEF lines
      <4> QED BY <2>3, <2>4 DEF LinesWithin
    <3> SUFFICES ListElement(f, line) = ListElement(g, line)
      OBVIOUS
    <3> HIDE DEF line
    <3>2. CASE p = Npos
      BY <3>2, Zenon DEF ListElement
    <3>3. CASE p # Npos
      <4>1. p \in 1 .. (Len(line) - 1)
        BY <3>1, <3>3, ListMarkTyped
      <4> HIDE DEF p
      <4>2. content \in Seq(Alphabet) /\ Len(content) < Len(line)
        BY <3>1, <4>1 DEF From
      <4>3. content \in Smaller("response", Len(x))
        <5> HIDE DEF content
        <5> QED BY <2>1, <3>1, <4>2 DEF Smaller, Arguments, Size
      <4> HIDE DEF content
      <4>4. f[content] = g[content]
        BY <1>2, <2>1, <4>3, Zenon DEF Same
      <4> QED BY <4>4, Zenon DEF ListElement, content, p
    <3> QED BY <3>2, <3>3
  <2>5. ef = eg
    BY <2>4, Zenon
  <2>6. Serialized(f, x) = Serialized(g, x)
    BY <2>5, Zenon DEF Serialized
  <2>7. "response" # "value"
    OBVIOUS
  <2>8. \A v : Sound("response", v)
    BY <2>7, Zenon DEF Sound
  <2> QED BY <2>2, <2>6, <2>8, Zenon
<1> QED BY <1>1, <1>2, Zenon DEF Recursive

\* What serialize_response makes of a reply.
LEMMA ResponseIs ==
    \A reply \in Seq(Alphabet) : serialize_response[reply] = Serialized(serialize_response, reply)
<1> DEFINE P(f) == f = [response \in Seq(Alphabet) |-> Serialized(f, response)]
<1>1. serialize_response = CHOOSE f : P(f)
  BY Zenon DEF serialize_response
<1>2. \E f : P(f)
  <2>1. PICK f : f = [x \in Arguments("response") |-> Body("response", f, x)]
    BY ResponseRecursive, RecursionExists
  <2>2. Arguments("response") = Seq(Alphabet)
    BY DEF Arguments
  <2>3. \A x : Body("response", f, x) = Serialized(f, x)
    BY DEF Body
  <2>4. [x \in Seq(Alphabet) |-> Body("response", f, x)] = [x \in Seq(Alphabet) |-> Serialized(f, x)]
    BY <2>3
  <2> QED BY <2>1, <2>2, <2>4, Zenon
<1> HIDE DEF P
<1>3. P(serialize_response)
  BY <1>1, <1>2, Zenon
<1> QED BY <1>3, Zenon DEF P

\* The replies that stand for something else than their text.
Fixed == {<<>>, <<"(nil)">>, <<"OK">>, <<"PONG">>, <<"QUEUED">>, <<"(empty list)">>}

\* What is made of the others.
LEMMA ResponseBy ==
    ASSUME NEW reply \in Seq(Alphabet), reply \notin Fixed
    PROVE  serialize_response[reply] =
             IF Head(reply) \in {"ERR", "WRONGTYPE", "NOAUTH"} THEN error(reply)
             ELSE IF Head(reply) = "(integer)" /\ IsNumber(Tail(reply)) THEN integer(stoi(Tail(reply)))
             ELSE IF IsQuoted(reply) THEN bulk_string(Unquote(reply))
             ELSE IF IsNumbered(reply)
             THEN array([i \in 1 .. Len(Lines[reply]) |-> ListElement(serialize_response, Lines[reply][i])])
             ELSE IF IsPush(reply)
             THEN FlattenSeq([i \in 1 .. Len(Lines[reply]) |-> PushArray(Lines[reply][i])])
             ELSE bulk_string(reply)
<1>1. serialize_response[reply] = Serialized(serialize_response, reply)
  BY ResponseIs
<1>2. /\ reply \notin {<<>>, <<"(nil)">>} /\ reply \notin {<<"OK">>, <<"PONG">>, <<"QUEUED">>}
      /\ reply # <<"(empty list)">>
  BY Zenon DEF Fixed
<1> QED BY <1>1, <1>2, Zenon DEF Serialized
\* One of the replies that stand for something else: nothing, or a status.
LEMMA FixedShow ==
    /\ Shows(serialize_response[<<"(nil)">>], <<"(nil)">>)
    /\ Shows(serialize_response[<<>>], <<"(nil)">>)
    /\ Shows(serialize_response[<<"(empty list)">>], <<"(empty array)">>)
    /\ \A text \in {<<"OK">>, <<"PONG">>, <<"QUEUED">>} : Shows(serialize_response[text], text)
<1>1. \A x \in Alphabet : <<x>> \in Seq(Alphabet) /\ OneLine(<<x>>)
  BY DEF OneLine
<1>2. /\ "(nil)" \in Alphabet /\ "(empty list)" \in Alphabet
      /\ "OK" \in Alphabet /\ "PONG" \in Alphabet /\ "QUEUED" \in Alphabet
  BY AlphabetAssumption, Zenon
<1>3. serialize_response[<<"(nil)">>] = null_bulk_string
  BY <1>1, <1>2, ResponseIs, Zenon DEF Serialized
<1>4. serialize_response[<<"(empty list)">>] = empty_array
  <2> DEFINE reply == <<"(empty list)">>
  <2>1. reply \in Seq(Alphabet)
    BY <1>1, <1>2, Zenon
  <2>2. reply \notin {<<>>, <<"(nil)">>} /\ reply \notin {<<"OK">>, <<"PONG">>, <<"QUEUED">>}
    OBVIOUS
  <2>3. reply = <<"(empty list)">>
    OBVIOUS
  <2> HIDE DEF reply
  <2>4. serialize_response[reply] = empty_array
    BY <2>1, <2>2, <2>3, ResponseIs, Zenon DEF Serialized
  <2> QED BY <2>3, <2>4, Zenon
<1>5. ASSUME NEW text \in {<<"OK">>, <<"PONG">>, <<"QUEUED">>} PROVE Shows(serialize_response[text], text)
  <2>1. text \in Seq(Alphabet) /\ OneLine(text)
    BY <1>1, <1>2, Zenon
  <2>2. text \notin {<<>>, <<"(nil)">>}
    OBVIOUS
  <2>3. serialize_response[text] = <<"+">> \o text \o EOL
    BY <2>1, <2>2, ResponseIs, Zenon DEF Serialized, simple_string
  <2>4. "+" \in {"+", "-", ":"} /\ "+" # ":"
    OBVIOUS
  <2> QED BY <2>1, <2>3, <2>4, LineShows, Zenon
<1>6. serialize_response[<<>>] = null_bulk_string
  <2>1. <<>> \in Seq(Alphabet)
    OBVIOUS
  <2> QED BY <2>1, ResponseIs, Zenon DEF Serialized
<1> QED BY <1>3, <1>4, <1>5, <1>6, NothingShows, Zenon

\* A reply that is no fixed one.
LEMMA NotFixed ==
    ASSUME NEW reply \in Seq(Alphabet),
           Len(reply) >= 2 \/ (reply # <<>> /\ Head(reply) \in {"ERR", "WRONGTYPE", "NOAUTH"})
    PROVE  reply \notin Fixed
<1>1. \A x : Len(<<x>>) = 1 /\ Head(<<x>>) = x
  OBVIOUS
<1>2. CASE Len(reply) >= 2
  <2>1. Len(reply) # 0 /\ Len(reply) # 1
    <3>1. \A n \in Nat : n >= 2 => n # 0 /\ n # 1
      OBVIOUS
    <3>2. Len(reply) \in Nat
      BY LenProperties, Zenon
    <3> QED BY <1>2, <3>1, <3>2, Zenon
  <2>2. Len(<<>>) = 0
    OBVIOUS
  <2> QED BY <1>1, <2>1, <2>2, Zenon DEF Fixed
<1>3. CASE reply # <<>> /\ Head(reply) \in {"ERR", "WRONGTYPE", "NOAUTH"}
  <2>1. {"ERR", "WRONGTYPE", "NOAUTH"} \cap {"(nil)", "OK", "PONG", "QUEUED", "(empty list)"} = {}
    OBVIOUS
  <2> QED BY <1>1, <1>3, <2>1, Zenon DEF Fixed
<1> QED BY <1>2, <1>3

\* Texts of errors, on one line.
Errors == {text \in Seq(Alphabet) :
             text # <<>> /\ Head(text) \in {"ERR", "WRONGTYPE", "NOAUTH"} /\ OneLine(text)}

\* The client shows an error as it was answered.
LEMMA ErrorShows ==
    ASSUME NEW text \in Errors
    PROVE  Shows(serialize_response[text], text)
<1>1. /\ text \in Seq(Alphabet) /\ text # <<>> /\ Head(text) \in {"ERR", "WRONGTYPE", "NOAUTH"}
      /\ OneLine(text)
  BY Zenon DEF Errors
<1>2. text \notin Fixed
  BY <1>1, NotFixed, Zenon
<1>3. serialize_response[text] = <<"-">> \o text \o EOL
  BY <1>1, <1>2, ResponseBy, Zenon DEF error
<1>4. "-" \in {"+", "-", ":"} /\ "-" # ":"
  OBVIOUS
<1> QED BY <1>1, <1>3, <1>4, LineShows, Zenon

\* What may follow the CR LF of a name that an error echoes: a line that no type
\* mark opens.
LooseLines ==
    {text \in Seq(Alphabet) :
       \E mark \in Alphabet \ (Mark \cup {CR}), line \in Seq(Alphabet) :
          OneLine(line) /\ text = <<mark>> \o line}

\* The brackets of a concatenation do not matter: the bytes of a reply may be
\* read as its first line and the rest (resp.cpp:195-197).
LEMMA ConcatBrackets ==
    \A s, t, u \in Seq(Alphabet) : (s \o t) \o u = s \o (t \o u)
BY ConcatAssociative

\* An error with CR LF inside is the error up to there, and a loose line.
LEMMA SplitIs ==
    ASSUME NEW line \in Errors, NEW rest \in Seq(Alphabet)
    PROVE  SplitError(line, rest) = <<SameReply(line), Frame(rest \o EOL, <<rest>>)>>
<1> DEFINE minus == <<"-">>
           inner == line \o EOL \o rest
           first == minus \o line \o EOL
           second == rest \o EOL
           whole == serialize_response[inner]
           cut == Len(serialize_response[line])
<1>1. /\ line \in Seq(Alphabet) /\ line # <<>> /\ Head(line) \in {"ERR", "WRONGTYPE", "NOAUTH"}
      /\ EOL \in Seq(Alphabet) /\ Len(EOL) = 2
  <2>1. Len(EOL) = 2
    BY DEF EOL
  <2> QED BY <2>1, MarksInAlphabet, Zenon DEF Errors
<1>2. minus \in Seq(Alphabet) /\ Len(minus) = 1
  <2>1. "-" \in Alphabet
    BY AlphabetAssumption, Zenon
  <2> QED BY <2>1
<1> HIDE DEF minus
<1>3. /\ line \o EOL \in Seq(Alphabet) /\ inner \in Seq(Alphabet) /\ second \in Seq(Alphabet)
      /\ minus \o line \in Seq(Alphabet) /\ first \in Seq(Alphabet)
  BY <1>1, <1>2, ConcatProperties
<1>4. inner # <<>> /\ Head(inner) = Head(line)
  <2>1. Joins(line \o EOL, line, EOL, Alphabet)
    BY <1>1, ConcatJoins, Zenon
  <2> DEFINE head == line \o EOL
  <2>2. Joins(head \o rest, head, rest, Alphabet)
    BY <1>3, ConcatJoins, Zenon
  <2>3. Len(line) >= 1 /\ Head(line) = line[1]
    BY <1>1
  <2> HIDE DEF head
  <2>4. Len(head) >= 1 /\ head[1] = line[1]
    BY <2>1, <2>3 DEF Joins, head
  <2>5. inner = head \o rest
    BY DEF head
  <2> HIDE DEF inner
  <2>6. Len(inner) >= 1 /\ inner[1] = line[1] /\ inner \in Seq(Alphabet)
    BY <2>2, <2>4, <2>5 DEF Joins
  <2> QED BY <2>3, <2>6
<1>5. serialize_response[line] = first
  <2>1. line \notin Fixed
    BY <1>1, NotFixed, Zenon
  <2> QED BY <1>1, <2>1, ResponseBy, Zenon DEF error, minus
<1>6. whole = first \o second
  <2>1. inner \notin Fixed
    <3> HIDE DEF inner
    <3> QED BY <1>1, <1>3, <1>4, NotFixed, Zenon
  <2>2. whole = minus \o inner \o EOL
    <3> HIDE DEF inner
    <3> QED BY <1>1, <1>3, <1>4, <2>1, ResponseBy, Zenon DEF error, minus
  <2>3. minus \o inner = first \o rest
    <3>1. minus \o ((line \o EOL) \o rest) = (minus \o (line \o EOL)) \o rest
      BY <1>2, <1>3, ConcatBrackets, Zenon
    <3>2. minus \o (line \o EOL) = (minus \o line) \o EOL
      BY <1>1, <1>2, ConcatBrackets, Zenon
    <3> QED BY <3>1, <3>2, Zenon
  <2>4. (first \o rest) \o EOL = first \o (rest \o EOL)
    <3>1. first \in Seq(Alphabet) /\ EOL \in Seq(Alphabet)
      BY <1>1, <1>3, Zenon
    <3> HIDE DEF first
    <3>2. \A t, u \in Seq(Alphabet) : (first \o t) \o u = first \o (t \o u)
      BY <3>1, ConcatBrackets, Zenon
    <3> QED BY <3>1, <3>2, Zenon
  <2> QED BY <2>2, <2>3, <2>4, Zenon
<1> HIDE DEF inner, first
<1>7. Len(second) \in Nat \ {0} /\ Len(first) \in Nat \ {0} /\ Len(whole) = Len(first) + Len(second)
  <2>1. Len(second) = Len(rest) + 2 /\ Len(rest) \in Nat
    <3>1. Len(rest \o EOL) = Len(rest) + Len(EOL) /\ Len(rest) \in Nat
      BY <1>1, ConcatProperties, LenProperties, Zenon
    <3> QED BY <1>1, <3>1, Zenon
  <2>2. Len(first) >= 2
    <3>1. Len(first) = Len(minus \o line) + Len(EOL)
      BY <1>1, <1>3, ConcatProperties, Zenon DEF first
    <3>2. Len(minus \o line) \in Nat
      BY <1>3, LenProperties, Zenon
    <3> QED BY <1>1, <3>1, <3>2
  <2> HIDE DEF second
  <2>3. Len(first \o second) = Len(first) + Len(second)
    BY <1>3, ConcatProperties
  <2> QED BY <1>3, <1>6, <2>1, <2>2, <2>3
<1> HIDE DEF second, whole
<1>8. SubSeq(whole, 1, cut) = first
  <2>1. 1 \in 1 .. Len(first) /\ Len(first) \in 1 .. Len(first)
    BY <1>7
  <2>2. SubSeq(first \o second, 1, Len(first)) = SubSeq(first, 1, Len(first))
    BY <1>3, <2>1, SubSeqOfConcat1
  <2>3. SubSeq(first, 1, Len(first)) = first
    BY <1>3, SubSeqFull
  <2> QED BY <1>5, <1>6, <2>2, <2>3, Zenon
<1>9. SubSeq(whole, cut + 1, Len(whole)) = second
  <2> DEFINE a == Len(first)
             b == Len(second)
  <2>1. /\ a + 1 \in a + 1 .. a + b /\ a + b \in a + 1 .. a + b
        /\ (a + 1) - a = 1 /\ (a + b) - a = b
    BY <1>7
  <2>2. SubSeq(first \o second, a + 1, a + b) = SubSeq(second, (a + 1) - a, (a + b) - a)
    BY <1>3, <2>1, SubSeqOfConcat2
  <2>3. SubSeq(second, 1, b) = second
    BY <1>3, SubSeqFull
  <2> QED BY <1>5, <1>6, <1>7, <2>1, <2>2, <2>3, Zenon
<1>10. SplitError(line, rest) = <<Frame(SubSeq(whole, 1, cut), <<line>>),
                                  Frame(SubSeq(whole, cut + 1, Len(whole)), <<rest>>)>>
  BY Zenon DEF SplitError, whole, inner
<1> HIDE DEF cut
<1> QED BY <1>5, <1>8, <1>9, <1>10, Zenon DEF SameReply, second

\* The client shows a number as it was answered.
LEMMA IntegerShows ==
    ASSUME NEW n \in Int
    PROVE  Shows(serialize_response[IntegerText(n)], IntegerText(n))
<1> DEFINE d == to_string(n)
           word == <<"(integer)">>
           reply == word \o d
<1>1. d \in Seq(Alphabet) /\ OneLine(d) /\ IsNumber(d) /\ stoi(d) = n
  BY IntegerRead
<1>2. d # <<>>
  <2>1. CASE n \in Nat
    BY <2>1, NumberRead
  <2>2. CASE n \notin Nat
    <3> DEFINE minus == <<"-">>
               e == Decimal[-n]
    <3>1. -n \in Nat /\ n < 0
      BY <2>2
    <3>2. e \in Seq(Digit)
      BY <3>1, DecimalText
    <3>3. d = minus \o e
      BY <3>1, Zenon DEF to_string
    <3>4. Len(minus) = 1 /\ minus \in Seq({"-"})
      OBVIOUS
    <3> HIDE DEF minus, e, d
    <3>5. minus \in Seq({"-"} \cup Digit) /\ e \in Seq({"-"} \cup Digit)
      BY <3>2, <3>4
    <3>6. Joins(minus \o e, minus, e, {"-"} \cup Digit)
      BY <3>5, ConcatJoins
    <3>7. Len(d) = 1 + Len(e) /\ Len(e) \in Nat
      BY <3>3, <3>4, <3>6 DEF Joins
    <3> QED BY <1>1, <3>7 DEF d
  <2> QED BY <2>1, <2>2
<1>3. word \in Seq(Alphabet) /\ Len(word) = 1 /\ word[1] = "(integer)"
  <2>1. "(integer)" \in Alphabet
    BY AlphabetAssumption, Zenon
  <2> QED BY <2>1
<1>4. IntegerText(n) = reply
  BY Zenon DEF IntegerText
<1> HIDE DEF d, word
<1>5. Joins(reply, word, d, Alphabet)
  BY <1>1, <1>3, ConcatJoins
<1> HIDE DEF reply
<1>6. /\ reply \in Seq(Alphabet) /\ Len(reply) = 1 + Len(d) /\ Len(d) \in Nat \ {0} /\ reply[1] = "(integer)"
      /\ \A i \in 1 .. Len(d) : reply[1 + i] = d[i]
  BY <1>1, <1>2, <1>3, <1>5 DEF Joins
<1>7. reply \notin Fixed
  <2>1. Len(reply) >= 2
    BY <1>6
  <2> QED BY <1>6, <2>1, NotFixed, Zenon
<1>8. Head(reply) = "(integer)" /\ Tail(reply) = d
  <2> DEFINE t == Tail(reply)
  <2>1. Head(reply) = "(integer)" /\ t \in Seq(Alphabet) /\ Len(t) = Len(d)
        /\ \A i \in 1 .. Len(d) : t[i] = reply[1 + i]
    BY <1>6
  <2> HIDE DEF t
  <2>2. t = d
    BY <1>1, <1>6, <2>1, SeqEqual
  <2> QED BY <2>1, <2>2 DEF t
<1>9. serialize_response[reply] = <<":">> \o d \o EOL
  <2>1. "(integer)" \notin {"ERR", "WRONGTYPE", "NOAUTH"}
    OBVIOUS
  <2>2. serialize_response[reply] = integer(n)
    BY <1>1, <1>6, <1>7, <1>8, <2>1, ResponseBy, Zenon
  <2> QED BY <2>2, Zenon DEF integer, d
<1>10. ":" \in {"+", "-", ":"}
  OBVIOUS
<1>11. Shows(serialize_response[reply], reply)
  BY <1>1, <1>9, <1>10, LineShows, Zenon DEF reply, word
<1> QED BY <1>4, <1>11, Zenon
\* A text in quotes.
LEMMA QuotesRead ==
    ASSUME NEW value \in Seq(Alphabet)
    PROVE  /\ InQuotes(value) \in Seq(Alphabet) /\ Len(InQuotes(value)) = Len(value) + 2
           /\ Head(InQuotes(value)) = DQ /\ InQuotes(value)[1] = DQ /\ IsQuoted(InQuotes(value))
           /\ Unquote(InQuotes(value)) = value
           /\ \A i \in 1 .. Len(InQuotes(value)) :
                 InQuotes(value)[i] = DQ \/ \E j \in 1 .. Len(value) : InQuotes(value)[i] = value[j]
<1> DEFINE quote == <<DQ>>
           x == quote \o value
           text == InQuotes(value)
           N == Len(value)
<1>1. quote \in Seq(Alphabet) /\ Len(quote) = 1 /\ quote[1] = DQ
  BY MarksInAlphabet
<1>2. text = x \o quote
  BY Zenon DEF InQuotes
<1> HIDE DEF quote
<1>3. Joins(x, quote, value, Alphabet)
  BY <1>1, ConcatJoins
<1> HIDE DEF x
<1>4. x \in Seq(Alphabet) /\ Len(x) = 1 + N /\ x[1] = DQ /\ N \in Nat /\ \A i \in 1 .. N : x[1 + i] = value[i]
  BY <1>1, <1>3 DEF Joins
<1>5. Joins(x \o quote, x, quote, Alphabet)
  BY <1>1, <1>4, ConcatJoins
<1> HIDE DEF text, N
<1>6. /\ text \in Seq(Alphabet) /\ Len(text) = N + 2 /\ text[N + 2] = DQ
      /\ \A i \in 1 .. (N + 1) : text[i] = x[i]
  <2>1. Joins(text, x, quote, Alphabet)
    BY <1>2, <1>5
  <2>2. text \in Seq(Alphabet) /\ Len(text) = (1 + N) + 1 /\ text[(1 + N) + 1] = DQ
        /\ \A i \in 1 .. (1 + N) : text[i] = x[i]
    BY <1>1, <1>4, <2>1 DEF Joins
  <2>3. (1 + N) + 1 = N + 2 /\ 1 + N = N + 1
    BY <1>4
  <2> QED BY <2>2, <2>3, Zenon
<1>7. text[1] = DQ /\ \A i \in 1 .. N : text[1 + i] = value[i]
  BY <1>4, <1>6
<1>8. Head(text) = DQ /\ Last(text) = DQ /\ Len(text) >= 2
  BY <1>4, <1>6, <1>7 DEF Last
<1>9. SubSeq(text, 2, Len(text) - 1) = value
  <2> DEFINE inner == SubSeq(text, 1 + 1, 1 + N)
  <2>1. inner \in Seq(Alphabet) /\ Len(inner) = N /\ \A i \in 1 .. N : inner[i] = text[1 + i]
    BY <1>4, <1>6
  <2> HIDE DEF inner
  <2>2. inner = value
    BY <1>7, <2>1, SeqEqual DEF N
  <2>3. 1 + 1 = 2 /\ Len(text) - 1 = 1 + N
    BY <1>4, <1>6
  <2> QED BY <2>2, <2>3, Zenon DEF inner
<1>10. ASSUME NEW i \in 1 .. Len(text) PROVE text[i] = DQ \/ \E j \in 1 .. N : text[i] = value[j]
  <2>1. CASE i = 1 \/ i = N + 2
    BY <1>6, <1>7, <2>1
  <2>2. CASE ~(i = 1 \/ i = N + 2)
    <3>1. i - 1 \in 1 .. N /\ 1 + (i - 1) = i
      BY <1>4, <1>6, <2>2
    <3>2. text[1 + (i - 1)] = value[i - 1]
      BY <1>7, <3>1, Zenon
    <3> QED BY <3>1, <3>2, Zenon
  <2> QED BY <2>1, <2>2
<1>11. IsQuoted(text) /\ Unquote(text) = value
  BY <1>8, <1>9, Zenon DEF IsQuoted, Unquote
<1> QED BY <1>6, <1>7, <1>8, <1>10, <1>11, Zenon DEF text, N

\* Values whose lengths std::stoi can read.
Values == {value \in Seq(Alphabet) : Len(value) <= IntMax}

\* The client shows a value in the quotes that the handler put around it,
\* whatever symbols it holds.
LEMMA StringShows ==
    ASSUME NEW value \in Values
    PROVE  Shows(serialize_response[InQuotes(value)], InQuotes(value))
<1> DEFINE reply == InQuotes(value)
<1>1. value \in Seq(Alphabet) /\ Len(value) <= IntMax
  BY DEF Values
<1>2. /\ reply \in Seq(Alphabet) /\ Len(reply) = Len(value) + 2 /\ Head(reply) = DQ /\ IsQuoted(reply)
      /\ Unquote(reply) = value
  BY <1>1, QuotesRead, Zenon
<1> HIDE DEF reply
<1>3. reply \notin Fixed
  <2>1. Len(reply) >= 2
    BY <1>1, <1>2
  <2> QED BY <1>2, <2>1, NotFixed, Zenon
<1>4. DQ \notin {"ERR", "WRONGTYPE", "NOAUTH"} /\ DQ # "(integer)"
  BY DEF DQ
<1>5. serialize_response[reply] = bulk_string(value)
  BY <1>2, <1>3, <1>4, ResponseBy, Zenon
<1> QED BY <1>1, <1>5, BulkShows, Zenon DEF reply

\* Texts of none of the other forms.
PlainTexts ==
    {text \in Values :
       /\ text \notin Fixed /\ Head(text) \notin {"ERR", "WRONGTYPE", "NOAUTH"}
       /\ ~(Head(text) = "(integer)" /\ IsNumber(Tail(text)))
       /\ ~IsQuoted(text) /\ ~IsNumbered(text) /\ ~IsPush(text)}

\* The client shows any other text in quotes.
LEMMA PlainShows ==
    ASSUME NEW text \in PlainTexts
    PROVE  Shows(serialize_response[text], InQuotes(text))
<1>1. /\ text \in Seq(Alphabet) /\ Len(text) <= IntMax
      /\ text \notin Fixed /\ Head(text) \notin {"ERR", "WRONGTYPE", "NOAUTH"}
      /\ ~(Head(text) = "(integer)" /\ IsNumber(Tail(text)))
      /\ ~IsQuoted(text) /\ ~IsNumbered(text) /\ ~IsPush(text)
  BY Zenon DEF PlainTexts, Values
<1>2. serialize_response[text] = bulk_string(text)
  BY <1>1, ResponseBy, Zenon
<1> QED BY <1>1, <1>2, BulkShows, Zenon
\* A line of a numbered list.
ListLine(i, word) == to_string(i) \o <<")", SP>> \o InQuotes(word)

\* The symbols of a line of a numbered list.
LEMMA ListLineIs ==
    ASSUME NEW i \in Nat, NEW word \in Seq(Alphabet)
    PROVE  LET line == ListLine(i, word)
               d == to_string(i)
               D == Len(d)
               text == InQuotes(word)
           IN  /\ line \in Seq(Alphabet) /\ D \in Nat \ {0} /\ Len(line) = D + 2 + Len(text)
               /\ \A j \in 1 .. D : line[j] = d[j] /\ line[j] \in Digit
               /\ line[D + 1] = ")" /\ line[D + 2] = SP
               /\ \A j \in 1 .. Len(text) : line[D + 2 + j] = text[j]
               /\ text \in Seq(Alphabet) /\ Len(text) = Len(word) + 2
<1> DEFINE line == ListLine(i, word)
           d == to_string(i)
           D == Len(d)
           text == InQuotes(word)
           mark == <<")", SP>>
           x == d \o mark
<1>1. d \in Seq(Alphabet) /\ D \in Nat \ {0} /\ \A j \in 1 .. D : d[j] \in Digit
  <2>1. d \in Seq(Digit) /\ d # <<>>
    BY NumberRead
  <2>2. d \in Seq(Alphabet)
    BY NumberLine
  <2> HIDE DEF d
  <2> QED BY <2>1, <2>2
<1>2. mark \in Seq(Alphabet) /\ Len(mark) = 2 /\ mark[1] = ")" /\ mark[2] = SP
  <2>1. ")" \in Alphabet /\ SP \in Alphabet
    BY AlphabetAssumption, Zenon
  <2> QED BY <2>1
<1>3. text \in Seq(Alphabet) /\ Len(text) = Len(word) + 2
  BY QuotesRead
<1>4. line = x \o text
  BY Zenon DEF ListLine
<1> HIDE DEF d, text, mark, D
<1>5. Joins(x, d, mark, Alphabet)
  BY <1>1, <1>2, ConcatJoins
<1> HIDE DEF x
<1>6. /\ x \in Seq(Alphabet) /\ Len(x) = D + 2 /\ \A j \in 1 .. D : x[j] = d[j]
      /\ x[D + 1] = ")" /\ x[D + 2] = SP
  BY <1>1, <1>2, <1>5 DEF Joins, D
<1>7. Joins(x \o text, x, text, Alphabet)
  BY <1>3, <1>6, ConcatJoins
<1>8. Joins(line, x, text, Alphabet)
  BY <1>4, <1>7, Zenon
<1> HIDE DEF line
<1>9. /\ line \in Seq(Alphabet) /\ Len(line) = D + 2 + Len(text)
      /\ \A j \in 1 .. (D + 2) : line[j] = x[j]
      /\ \A j \in 1 .. Len(text) : line[D + 2 + j] = text[j]
  <2>1. /\ line \in Seq(Alphabet) /\ Len(line) = Len(x) + Len(text)
        /\ \A j \in 1 .. Len(x) : line[j] = x[j]
        /\ \A j \in 1 .. Len(text) : line[Len(x) + j] = text[j]
    BY <1>8, Zenon DEF Joins
  <2> QED BY <1>6, <2>1, Zenon
<1>10. \A j \in 1 .. D : j \in 1 .. (D + 2)
  BY <1>1
<1>11. D + 1 \in 1 .. (D + 2) /\ D + 2 \in 1 .. (D + 2)
  BY <1>1
<1>12. \A j \in 1 .. D : line[j] = d[j] /\ line[j] \in Digit
  BY <1>1, <1>6, <1>9, <1>10, Zenon
<1>13. line[D + 1] = ")" /\ line[D + 2] = SP
  BY <1>6, <1>9, <1>11, Zenon
<1> QED BY <1>1, <1>3, <1>9, <1>12, <1>13, Zenon DEF line, d, D, text

\* The element that serialize_response finds in it.
LEMMA ListLineRead ==
    ASSUME NEW i \in Nat, NEW word \in Seq(Alphabet)
    PROVE  \A f : ListElement(f, ListLine(i, word)) = bulk_string(word)
<1> DEFINE line == ListLine(i, word)
           d == to_string(i)
           D == Len(d)
           text == InQuotes(word)
           at == {p \in 1 .. (Len(line) - 1) : line[p] = ")" /\ line[p + 1] = SP}
           N == Len(line) - 1
<1>1. /\ line \in Seq(Alphabet) /\ D \in Nat \ {0} /\ Len(line) = D + 2 + Len(text)
      /\ \A j \in 1 .. D : line[j] = d[j] /\ line[j] \in Digit
      /\ line[D + 1] = ")" /\ line[D + 2] = SP
      /\ \A j \in 1 .. Len(text) : line[D + 2 + j] = text[j]
      /\ text \in Seq(Alphabet) /\ Len(text) = Len(word) + 2
  BY ListLineIs
<1>2. IsQuoted(text) /\ Unquote(text) = word
  BY QuotesRead
<1> HIDE DEF line, d, D, text
<1>3. ListMark(line) = D + 1
  <2>1. N \in Nat /\ D + 1 \in 1 .. N /\ (D + 1) + 1 = D + 2 /\ (D + 1) - 1 = D
    BY <1>1
  <2>2. at \in SUBSET (1 .. N)
    OBVIOUS
  <2>3. D + 1 \in at
    BY <1>1, <2>1
  <2>4. \A j \in 1 .. ((D + 1) - 1) : j \notin at
    <3>1. ")" \notin Digit
      BY DEF Digit
    <3> QED BY <1>1, <2>1, <3>1
  <2> HIDE DEF at, N
  <2>5. at # {} /\ Min(at) = D + 1
    BY <2>1, <2>2, <2>3, <2>4, FirstIs, Zenon
  <2> QED BY <2>5, Zenon DEF ListMark, at
<1>4. D + 1 # Npos
  BY <1>1 DEF Npos
<1>5. From(line, (D + 1) + 2) = text
  <2> DEFINE o == D + 2
             w == SubSeq(line, o + 1, o + Len(text))
  <2>1. (D + 1) + 2 = o + 1 /\ Len(line) = o + Len(text) /\ o \in Nat /\ Len(text) \in Nat
    BY <1>1
  <2>2. \A j \in 1 .. Len(text) : line[o + j] = text[j]
    BY <1>1
  <2> HIDE DEF o
  <2>3. w \in Seq(Alphabet) /\ Len(w) = Len(text) /\ \A j \in 1 .. Len(text) : w[j] = line[o + j]
    BY <1>1, <2>1
  <2> HIDE DEF w
  <2>4. w = text
    BY <1>1, <2>2, <2>3, SeqEqual, Zenon
  <2> QED BY <2>1, <2>4, Zenon DEF From, w
<1>6. \A f : ListElement(f, line) = bulk_string(word)
  BY <1>2, <1>3, <1>4, <1>5, Zenon DEF ListElement
<1> QED BY <1>6 DEF line

\* A line is found up to its newline, or up to the end.
LEMMA LineFound ==
    ASSUME NEW line \in Seq(Alphabet), \A i \in 1 .. Len(line) : line[i] # LF, NEW more \in Seq(Alphabet)
    PROVE  /\ GetLine(line) = [token |-> line, rest |-> <<>>]
           /\ GetLine(line \o <<LF>> \o more) = [token |-> line, rest |-> more]
<1> DEFINE newline == <<LF>>
           x == line \o newline
           text == x \o more
           N == Len(line)
           I == {i \in 1 .. Len(text) : text[i] = LF}
<1>1. GetLine(line) = [token |-> line, rest |-> <<>>]
  <2> DEFINE J == {i \in 1 .. Len(line) : line[i] = LF}
  <2>1. GetLine(line) = IF J = {} THEN [token |-> line, rest |-> <<>>]
                        ELSE [token |-> SubSeq(line, 1, Min(J) - 1), rest |-> From(line, Min(J) + 1)]
    BY GetLineIs, Zenon
  <2>2. J = {}
    BY Zenon
  <2> HIDE DEF J
  <2> QED BY <2>1, <2>2, Zenon
<1>2. newline \in Seq(Alphabet) /\ Len(newline) = 1 /\ newline[1] = LF
  BY MarksInAlphabet
<1> HIDE DEF newline
<1>3. Joins(x, line, newline, Alphabet)
  BY <1>2, ConcatJoins
<1> HIDE DEF x, N
<1>4. x \in Seq(Alphabet) /\ Len(x) = N + 1 /\ x[N + 1] = LF /\ N \in Nat /\ \A i \in 1 .. N : x[i] = line[i]
  BY <1>2, <1>3 DEF Joins, N
<1>5. Joins(text, x, more, Alphabet)
  BY <1>4, ConcatJoins
<1> HIDE DEF text
<1>6. /\ text \in Seq(Alphabet) /\ Len(text) = N + 1 + Len(more) /\ Len(more) \in Nat
      /\ \A i \in 1 .. (N + 1) : text[i] = x[i]
      /\ \A i \in 1 .. Len(more) : text[(N + 1) + i] = more[i]
  <2>1. /\ text \in Seq(Alphabet) /\ Len(text) = Len(x) + Len(more) /\ Len(more) \in Nat
        /\ \A i \in 1 .. Len(x) : text[i] = x[i]
        /\ \A i \in 1 .. Len(more) : text[Len(x) + i] = more[i]
    BY <1>5, Zenon DEF Joins
  <2> QED BY <1>4, <2>1, Zenon
<1>7. text[N + 1] = LF /\ \A i \in 1 .. N : text[i] = line[i]
  BY <1>4, <1>6
<1>8. I # {} /\ Min(I) = N + 1
  <2>1. I \in SUBSET (1 .. Len(text)) /\ N + 1 \in I /\ N + 1 \in 1 .. Len(text) /\ Len(text) \in Nat
    BY <1>4, <1>6, <1>7
  <2>2. \A j \in 1 .. ((N + 1) - 1) : j \notin I
    BY <1>4, <1>7 DEF N
  <2> HIDE DEF I
  <2> QED BY <2>1, <2>2, FirstIs, Zenon
<1>9. GetLine(text) = IF I = {} THEN [token |-> text, rest |-> <<>>]
                      ELSE [token |-> SubSeq(text, 1, Min(I) - 1), rest |-> From(text, Min(I) + 1)]
  BY GetLineIs, Zenon
<1> HIDE DEF I
<1>10. (N + 1) - 1 = N /\ (N + 1) + 1 = (N + 1) + 1
  BY <1>4
<1>11. GetLine(text) = [token |-> SubSeq(text, 1, N), rest |-> From(text, (N + 1) + 1)]
  BY <1>8, <1>9, <1>10, Zenon
<1>12. SubSeq(text, 1, N) = line
  <2> DEFINE w == SubSeq(text, 1, N)
  <2>1. w \in Seq(Alphabet) /\ Len(w) = N /\ \A j \in 1 .. N : w[j] = text[j]
    BY <1>4, <1>6
  <2> HIDE DEF w
  <2> QED BY <1>7, <2>1, SeqEqual DEF N, w
<1>13. From(text, (N + 1) + 1) = more
  <2> DEFINE o == N + 1
             w == SubSeq(text, o + 1, o + Len(more))
  <2>1. Len(text) = o + Len(more) /\ o \in Nat
    BY <1>4, <1>6
  <2>2. \A j \in 1 .. Len(more) : text[o + j] = more[j]
    BY <1>6
  <2> HIDE DEF o
  <2>3. w \in Seq(Alphabet) /\ Len(w) = Len(more) /\ \A j \in 1 .. Len(more) : w[j] = text[o + j]
    BY <1>6, <2>1
  <2>4. From(text, o + 1) = w
    BY <2>1, Zenon DEF From
  <2> HIDE DEF w
  <2>5. w = more
    BY <2>2, <2>3, SeqEqual
  <2> QED BY <2>4, <2>5, Zenon DEF o
<1> QED BY <1>1, <1>11, <1>12, <1>13, Zenon DEF text, x, newline
\* Lists of words without newlines.
OneLineLists == {words \in Words : \A i \in 1 .. Len(words) : \A j \in 1 .. Len(words[i]) : words[i][j] # LF}

\* The lines of the list.
LEMMA ListPieces ==
    ASSUME NEW words \in OneLineLists
    PROVE  /\ Len(words) \in Nat \ {0}
           /\ ListLines(words) \in Seq(Seq(Alphabet)) /\ Len(ListLines(words)) = Len(words)
           /\ NumberedList(AllInQuotes(words)) = FlattenSeq(ListLines(words))
           /\ \A i \in 1 .. Len(words) :
                 LET line == ListLine(i, words[i])
                 IN  /\ line \in Seq(Alphabet) /\ line # <<>> /\ \A j \in 1 .. Len(line) : line[j] # LF
                     /\ ListLines(words)[i] = line \o (IF i = Len(words) THEN <<>> ELSE <<LF>>)
                     /\ ListLines(words)[i] # <<>>
<1> DEFINE K == Len(words)
           seqs == ListLines(words)
<1>1. words \in Words
  BY DEF OneLineLists
<1>2. K \in Nat \ {0} /\ \A i \in 1 .. K : words[i] \in Seq(Alphabet)
  BY <1>1, PartsFrames
<1>3. \A i \in 1 .. K : seqs[i] \in Seq(Alphabet) /\ seqs[i] = Numbered(i, InQuotes(words[i]), i = K)
  BY <1>1, ListLinesTyped, Zenon
<1>4. seqs \in Seq(Seq(Alphabet)) /\ Len(seqs) = K
  <2>1. seqs = [i \in 1 .. K |-> Numbered(i, InQuotes(words[i]), i = K)]
    BY Zenon DEF ListLines
  <2> HIDE DEF seqs, K
  <2>2. seqs = [i \in 1 .. K |-> seqs[i]]
    BY <2>1, Zenon
  <2> QED BY <1>2, <1>3, <2>2
<1>5. NumberedList(AllInQuotes(words)) = FlattenSeq(seqs)
  <2>1. NumberedList(AllInQuotes(words)) = Flat(seqs, K)
    BY <1>1, ListLinesTyped, Zenon
  <2>2. seqs = [i \in 1 .. K |-> seqs[i]]
    BY Zenon DEF ListLines
  <2> HIDE DEF seqs, K
  <2> QED BY <2>1, <2>2, Zenon DEF Flat
<1>6. ASSUME NEW i \in 1 .. K
      PROVE  LET line == ListLine(i, words[i])
             IN  /\ line \in Seq(Alphabet) /\ line # <<>> /\ \A j \in 1 .. Len(line) : line[j] # LF
                 /\ seqs[i] = line \o (IF i = K THEN <<>> ELSE <<LF>>) /\ seqs[i] # <<>>
  <2> DEFINE word == words[i]
             line == ListLine(i, word)
             text == InQuotes(word)
             D == Len(to_string(i))
             end == IF i = K THEN <<>> ELSE <<LF>>
  <2>1. word \in Seq(Alphabet) /\ i \in Nat /\ \A j \in 1 .. Len(word) : word[j] # LF
    BY <1>2 DEF OneLineLists
  <2>2. seqs[i] = line \o end
    BY <1>3, Zenon DEF Numbered, ListLine
  <2> HIDE DEF word
  <2>3. /\ line \in Seq(Alphabet) /\ D \in Nat \ {0} /\ Len(line) = D + 2 + Len(text)
        /\ \A j \in 1 .. D : line[j] \in Digit
        /\ line[D + 1] = ")" /\ line[D + 2] = SP
        /\ \A j \in 1 .. Len(text) : line[D + 2 + j] = text[j]
        /\ text \in Seq(Alphabet) /\ Len(text) = Len(word) + 2
    BY <2>1, ListLineIs, Zenon
  <2>4. \A j \in 1 .. Len(text) : text[j] = DQ \/ \E k \in 1 .. Len(word) : text[j] = word[k]
    BY <2>1, QuotesRead, Zenon
  <2>5. DQ # LF /\ ")" # LF /\ SP # LF /\ \A ch \in Digit : ch # LF
    BY DEF DQ, LF, SP, Digit
  <2>6. \A j \in 1 .. Len(text) : text[j] # LF
    BY <2>1, <2>4, <2>5, Zenon
  <2> HIDE DEF line, text, D
  <2>7. ASSUME NEW j \in 1 .. Len(line) PROVE line[j] # LF
    <3>0. Len(text) \in Nat
      BY <2>3
    <3>1. CASE j <= D
      BY <2>3, <2>5, <3>1
    <3>2. CASE j = D + 1 \/ j = D + 2
      BY <2>3, <2>5, <3>2
    <3>3. CASE j > D + 2
      <4>1. j - (D + 2) \in 1 .. Len(text) /\ D + 2 + (j - (D + 2)) = j
        BY <2>3, <3>0, <3>3
      <4>2. line[D + 2 + (j - (D + 2))] = text[j - (D + 2)]
        BY <2>3, <4>1, Zenon
      <4> QED BY <2>6, <4>1, <4>2
    <3> QED BY <2>3, <3>0, <3>1, <3>2, <3>3
  <2>8. line # <<>>
    <3>1. Len(text) \in Nat
      BY <2>3
    <3> QED BY <2>3, <3>1
  <2>9. line \o end # <<>>
    <3>1. end \in Seq(Alphabet)
      BY MarksInAlphabet
    <3> HIDE DEF end
    <3> QED BY <2>3, <2>8, <3>1, ConcatProperties
  <2> QED BY <2>2, <2>3, <2>7, <2>8, <2>9, Zenon DEF line, word
<1> HIDE DEF seqs, K
<1> QED BY <1>2, <1>4, <1>5, <1>6, Zenon DEF seqs, K

\* serialize_response finds the lines.
LEMMA ListLinesFound ==
    ASSUME NEW words \in OneLineLists
    PROVE  /\ Len(Lines[NumberedList(AllInQuotes(words))]) = Len(words)
           /\ \A i \in 1 .. Len(words) :
                 Lines[NumberedList(AllInQuotes(words))][i] = ListLine(i, words[i])
           /\ \E more \in Seq(Alphabet) : NumberedList(AllInQuotes(words)) = ListLine(1, words[1]) \o more
<1> DEFINE K == Len(words)
           seqs == ListLines(words)
           line(i) == ListLine(i, words[i])
           reply == NumberedList(AllInQuotes(words))
           none == <<>>
           newline == <<LF>>
<1>1. /\ K \in Nat \ {0} /\ seqs \in Seq(Seq(Alphabet)) /\ Len(seqs) = K /\ reply = FlattenSeq(seqs)
      /\ \A i \in 1 .. K : seqs[i] # <<>>
  BY ListPieces, Zenon
<1>2. \A i \in 1 .. K : /\ line(i) \in Seq(Alphabet) /\ line(i) # <<>>
                        /\ \A j \in 1 .. Len(line(i)) : line(i)[j] # LF
                        /\ seqs[i] = line(i) \o (IF i = K THEN none ELSE newline)
  BY ListPieces, Zenon
<1>3. none \in Seq(Alphabet) /\ newline \in Seq(Alphabet)
  BY MarksInAlphabet
<1> HIDE DEF seqs, K, reply, none, newline, line
<1>4. PICK h : Leaves(h, seqs, none, Alphabet)
  BY <1>1, <1>3, PiecesLeft
<1>5. /\ h[0] = FlattenSeq(seqs) \o none /\ h[K] = none
      /\ \A k \in 0 .. K : h[k] \in Seq(Alphabet)
      /\ \A k \in 0 .. (K - 1) : h[k] = seqs[k + 1] \o h[k + 1]
  BY <1>1, <1>4, Zenon DEF Leaves
<1>6. h[0] = reply
  <2>1. FlattenSeq(seqs) \in Seq(Alphabet)
    BY <1>1, PiecesFrames
  <2> QED BY <1>1, <1>5, <2>1, ConcatEmptySeq DEF none
<1>7. ASSUME NEW k \in 0 .. (K - 1)
      PROVE  /\ h[k] # <<>> /\ GetLine(h[k]) = [token |-> line(k + 1), rest |-> h[k + 1]]
             /\ \E more \in Seq(Alphabet) : h[k] = line(k + 1) \o more
  <2> DEFINE l == line(k + 1)
             m == h[k + 1]
  <2>1. k + 1 \in 1 .. K /\ k + 1 \in 0 .. K
    BY <1>1
  <2>2. l \in Seq(Alphabet) /\ l # <<>> /\ m \in Seq(Alphabet) /\ \A j \in 1 .. Len(l) : l[j] # LF
    BY <1>2, <1>5, <2>1, Zenon
  <2>3. CASE k + 1 = K
    <3>1. h[k] = (l \o none) \o none /\ m = none
      BY <1>2, <1>5, <2>1, <2>3, Zenon
    <3>2. l \o none = l
      BY <2>2, ConcatEmptySeq DEF none
    <3>3. h[k] = l /\ h[k] = l \o none
      BY <3>1, <3>2, Zenon
    <3> HIDE DEF l, m
    <3>4. GetLine(l) = [token |-> l, rest |-> m]
      BY <2>2, <3>1, LineFound, Zenon DEF none
    <3> QED BY <1>3, <2>2, <3>3, <3>4, Zenon DEF l, m
  <2>4. CASE k + 1 # K
    <3>1. h[k] = l \o newline \o m
      BY <1>2, <1>5, <2>1, <2>4, Zenon
    <3> HIDE DEF l, m
    <3>2. GetLine(h[k]) = [token |-> l, rest |-> m]
      BY <2>2, <3>1, LineFound, Zenon DEF newline
    <3>3. l \o newline \o m = l \o (newline \o m) /\ newline \o m \in Seq(Alphabet)
      BY <1>3, <2>2, ConcatAssociative, ConcatProperties
    <3>4. h[k] # <<>>
      <4> DEFINE more == newline \o m
      <4> HIDE DEF more
      <4>1. l \o more # <<>>
        BY <2>2, <3>3, ConcatProperties DEF more
      <4> QED BY <3>1, <3>3, <4>1, Zenon DEF more
    <3> QED BY <3>1, <3>2, <3>3, <3>4, Zenon DEF l, m
  <2> QED BY <2>3, <2>4, Zenon
<1> DEFINE Found(ls, k) == /\ ls \in Seq(Seq(Alphabet)) /\ Len(ls) = K - k
                           /\ \A j \in 1 .. (K - k) : ls[j] = line(k + j)
           S == {n \in Nat : n <= K => Found(Lines[h[K - n]], K - n)}
<1>8. 0 \in S
  <2>1. Lines[none] = <<>>
    BY <1>3, LinesIs, Zenon DEF none
  <2>2. K - 0 = K /\ K - K = 0
    BY <1>1
  <2>3. Found(<<>>, K)
    BY <2>2
  <2> HIDE DEF Found
  <2> QED BY <1>5, <2>1, <2>2, <2>3
<1>9. ASSUME NEW n \in Nat, n \in S PROVE n + 1 \in S
  <2>0. n + 1 \in Nat
    OBVIOUS
  <2> SUFFICES ASSUME n + 1 <= K PROVE Found(Lines[h[K - (n + 1)]], K - (n + 1))
    BY <2>0, Zenon
  <2> DEFINE k == K - (n + 1)
             l == line(k + 1)
             one == <<l>>
             more == Lines[h[k + 1]]
             ls == Lines[h[k]]
  <2>1. k \in 0 .. (K - 1) /\ k \in 0 .. K /\ k + 1 = K - n /\ n <= K /\ k + 1 \in 1 .. K /\ k \in Nat
    BY <1>1
  <2> HIDE DEF Found
  <2>2. Found(more, k + 1)
    BY <1>9, <2>1
  <2> HIDE DEF k
  <2>3. h[k] # <<>> /\ GetLine(h[k]) = [token |-> l, rest |-> h[k + 1]] /\ h[k] \in Seq(Alphabet)
    BY <1>5, <1>7, <2>1
  <2>4. GetLine(h[k]).token = l /\ GetLine(h[k]).rest = h[k + 1]
    <3> HIDE DEF l
    <3> QED BY <2>3
  <2>5. ls = one \o more
    BY <2>3, <2>4, LinesIs, Zenon
  <2>6. l \in Seq(Alphabet)
    BY <1>2, <2>1
  <2>7. one \in Seq(Seq(Alphabet)) /\ Len(one) = 1 /\ one[1] = l
    BY <2>6
  <2>8. /\ more \in Seq(Seq(Alphabet)) /\ Len(more) = K - (k + 1)
        /\ \A j \in 1 .. (K - (k + 1)) : more[j] = line(k + 1 + j)
    BY <2>2 DEF Found
  <2> HIDE DEF one, more, ls, l
  <2>9. Joins(one \o more, one, more, Seq(Alphabet))
    BY <2>7, <2>8, ConcatJoins
  <2>10. /\ ls \in Seq(Seq(Alphabet)) /\ Len(ls) = 1 + Len(more) /\ ls[1] = l
         /\ \A j \in 1 .. Len(more) : ls[1 + j] = more[j]
    BY <2>5, <2>7, <2>9 DEF Joins
  <2>11. Len(ls) = K - k
    BY <1>1, <2>1, <2>8, <2>10
  <2>12. ASSUME NEW j \in 1 .. (K - k) PROVE ls[j] = line(k + j)
    <3>1. CASE j = 1
      BY <2>10, <3>1, Zenon DEF l
    <3>2. CASE j # 1
      <4>1. j - 1 \in 1 .. (K - (k + 1)) /\ 1 + (j - 1) = j /\ k + 1 + (j - 1) = k + j
        BY <1>1, <2>1, <3>2
      <4>2. ls[1 + (j - 1)] = more[j - 1]
        BY <2>8, <2>10, <4>1, Zenon
      <4>3. more[j - 1] = line(k + 1 + (j - 1))
        BY <2>8, <4>1, Zenon
      <4> QED BY <4>1, <4>2, <4>3, Zenon
    <3> QED BY <3>1, <3>2
  <2>13. Found(ls, k)
    BY <2>10, <2>11, <2>12, Zenon DEF Found
  <2> QED BY <2>13 DEF ls, k
<1>10. Found(Lines[reply], 0)
  <2>1. K \in S
    <3>1. K \in Nat
      BY <1>1
    <3> HIDE DEF S
    <3>2. Nat \subseteq S
      BY <1>8, <1>9, NatInductionSet
    <3> QED BY <3>1, <3>2
  <2>2. K - K = 0 /\ K <= K
    BY <1>1
  <2> HIDE DEF Found
  <2> QED BY <1>6, <2>1, <2>2
<1>11. Len(Lines[reply]) = K /\ \A i \in 1 .. K : Lines[reply][i] = line(i)
  <2>1. K - 0 = K /\ \A i \in 1 .. K : 0 + i = i
    BY <1>1
  <2> QED BY <1>10, <2>1, Zenon
<1>12. \E more \in Seq(Alphabet) : reply = line(1) \o more
  <2>1. 0 \in 0 .. (K - 1) /\ 0 + 1 = 1
    BY <1>1
  <2> QED BY <1>6, <1>7, <2>1, Zenon
<1> QED BY <1>11, <1>12, Zenon DEF reply, K, line

\* A number may start with a one.
LEMMA OneDigit == "1" \in Range(Tail(Digits))
<1>1. DOMAIN Tail(Digits) = 1 .. 9 /\ Tail(Digits)[1] = "1"
  <2>1. Digits \in Seq(Digit)
    BY DEF Digits, Digit
  <2>2. Len(Digits) = 10
    BY DEF Digits
  <2>3. Digits[2] = "1"
    BY DEF Digits
  <2> HIDE DEF Digits
  <2>4. Digits # <<>>
    BY <2>2
  <2>5. /\ Tail(Digits) \in Seq(Digit) /\ Len(Tail(Digits)) = Len(Digits) - 1
        /\ \A i \in 1 .. Len(Tail(Digits)) : Tail(Digits)[i] = Digits[i + 1]
    BY <2>1, <2>4, HeadTailProperties, Zenon
  <2> DEFINE t == Tail(Digits)
  <2> HIDE DEF t
  <2>6. t \in Seq(Digit) /\ Len(t) = 9
    BY <2>2, <2>5 DEF t
  <2>7. DOMAIN t = 1 .. 9
    BY <2>6
  <2>8. t[1] = Digits[1 + 1]
    <3>1. 1 \in 1 .. Len(t)
      BY <2>6
    <3> QED BY <2>5, <3>1, Zenon DEF t
  <2>9. Digits[1 + 1] = Digits[2]
    OBVIOUS
  <2> QED BY <2>3, <2>7, <2>8, <2>9, Zenon DEF t
<1>2. 1 \in 1 .. 9
  OBVIOUS
<1> QED BY <1>1, <1>2, Zenon DEF Range

\* A list of values is shown as that list.
LEMMA ListShows ==
    ASSUME NEW words \in OneLineLists
    PROVE  LET reply == NumberedList(AllInQuotes(words)) IN Shows(serialize_response[reply], reply)
<1> DEFINE reply == NumberedList(AllInQuotes(words))
           lines == Lines[reply]
           K == Len(words)
           elements == [i \in 1 .. Len(lines) |-> ListElement(serialize_response, lines[i])]
           l == ListLine(1, words[1])
<1>1. words \in Words
  BY DEF OneLineLists
<1>2. Shows(array(BulkStringsOf(words)), reply)
  BY <1>1, ArrayShows
<1>3. reply \in Seq(Alphabet)
  BY <1>2, Zenon DEF Shows
<1>4. K \in Nat \ {0} /\ \A i \in 1 .. K : words[i] \in Seq(Alphabet)
  BY <1>1, PartsFrames
<1>5. Len(lines) = K /\ \A i \in 1 .. K : lines[i] = ListLine(i, words[i])
  BY ListLinesFound, Zenon
<1>6. elements = BulkStringsOf(words)
  <2>1. \A i \in 1 .. K : ListElement(serialize_response, lines[i]) = bulk_string(words[i])
    <3> SUFFICES ASSUME NEW i \in 1 .. K PROVE ListElement(serialize_response, lines[i]) = bulk_string(words[i])
      BY Zenon
    <3>1. i \in Nat /\ words[i] \in Seq(Alphabet)
      BY <1>4
    <3>2. ListElement(serialize_response, ListLine(i, words[i])) = bulk_string(words[i])
      BY <3>1, ListLineRead, Zenon
    <3> QED BY <1>5, <3>2, Zenon
  <2> HIDE DEF lines, K
  <2>2. elements = [i \in 1 .. K |-> ListElement(serialize_response, lines[i])]
    BY <1>5, Zenon
  <2> QED BY <2>1, <2>2, Zenon DEF BulkStringsOf, K
<1>7. Len(reply) >= 3 /\ reply[1] = "1" /\ reply[2] = ")"
  <2> DEFINE D == Len(to_string(1))
             text == InQuotes(words[1])
  <2>0. 1 \in 1 .. K /\ 1 \in Nat /\ words[1] \in Seq(Alphabet)
    BY <1>4
  <2>1. to_string(1) = <<"1">>
    <3>1. 1 \in Nat /\ 1 < 10
      OBVIOUS
    <3>2. to_string(1) = Decimal[1]
      BY DEF to_string
    <3>3. Decimal[1] = <<Digits[1 + 1]>>
      BY <3>1, DecimalDigits, Zenon
    <3>4. Digits[1 + 1] = "1"
      BY DEF Digits
    <3> QED BY <3>2, <3>3, <3>4
  <2>2. D = 1 /\ to_string(1)[1] = "1"
    BY <2>1
  <2>3. /\ l \in Seq(Alphabet) /\ Len(l) = D + 2 + Len(text) /\ Len(text) = Len(words[1]) + 2
        /\ \A j \in 1 .. D : l[j] = to_string(1)[j]
        /\ l[D + 1] = ")"
    BY <2>0, ListLineIs, Zenon
  <2>4. PICK more \in Seq(Alphabet) : reply = l \o more
    BY ListLinesFound, Zenon
  <2> HIDE DEF l, D, text, reply
  <2>5. l \in Seq(Alphabet) /\ Len(l) >= 3 /\ l[1] = "1" /\ l[2] = ")"
    <3>1. Len(text) \in Nat
      BY <2>0, <2>3
    <3> QED BY <2>2, <2>3, <3>1
  <2>6. Joins(l \o more, l, more, Alphabet)
    BY <2>5, ConcatJoins
  <2>7. Len(reply) = Len(l) + Len(more) /\ Len(more) \in Nat /\ Len(l) \in Nat /\ \A i \in 1 .. Len(l) : reply[i] = l[i]
    BY <2>4, <2>6, Zenon DEF Joins
  <2> QED BY <2>5, <2>7
<1> HIDE DEF reply
<1>8. IsNumbered(reply)
  <2>1. "1" \in Range(Tail(Digits))
    BY OneDigit, Zenon
  <2> QED BY <1>7, <2>1, Zenon DEF IsNumbered
<1>9. Head(reply) = "1" /\ Len(reply) >= 2
  BY <1>3, <1>7
<1>10. "1" \notin {"ERR", "WRONGTYPE", "NOAUTH"} /\ "1" # "(integer)" /\ "1" # DQ
  BY DEF DQ
<1>11. ~IsQuoted(reply)
  BY <1>9, <1>10, Zenon DEF IsQuoted
<1>12. reply \notin Fixed
  BY <1>3, <1>9, NotFixed, Zenon
<1>13. serialize_response[reply] = array(elements)
  BY <1>3, <1>8, <1>9, <1>10, <1>11, <1>12, ResponseBy, Zenon
<1> HIDE DEF elements
<1> QED BY <1>2, <1>6, <1>13, Zenon DEF reply

-----------------------------------------------------------------------------
(* What the server may answer *)

\* The numbers of the handlers' replies.
LongLong == {n \in Int : -9223372036854775808 <= n /\ n <= 9223372036854775807}

\* The simple strings, and nil.
Statuses == {<<"OK">>, <<"PONG">>, <<"QUEUED">>, <<"(nil)">>}

\* The answers, by their text: statuses and nil; errors; numbers; values; texts
\* of no other form; lists of values without newlines; pushed messages; and the
\* two texts that are taken for something else and do no harm to what follows:
\* the empty one, shown as nil, and an error with CR LF in the name it echoes,
\* shown as two answers.  A text stands for every command that answers it, so
\* that PING with the argument "OK" is a status here, as it is to the client.
\* Left out, because serialize_response cuts them where the handler did not mean
\* it to: PING of a text that reads like a numbered list or a subscription,
\* elements of lists with newlines, lists inside EXEC's answer, and
\* subscriptions (several frames per answer, and channels with spaces).
ReplyFrame ==
    {SameReply(text) : text \in Statuses \cup Errors}
      \cup {IntegerReply(n) : n \in LongLong}
      \cup {StringReply(value) : value \in Values}
      \cup {TextReply(text) : text \in PlainTexts}
      \cup {ListReply(values) : values \in OneLineLists \cup {<<>>}}
      \cup {PushedMessage(channel, payload) : channel \in Values, payload \in Values}
      \cup {TakenFor(<<>>, <<"(nil)">>)}
      \cup {SplitError(line, rest)[i] : line \in Errors, rest \in LooseLines, i \in 1 .. 2}

\* A message and its channel are shown as a list of three.
LEMMA PushShows ==
    ASSUME NEW channel \in Values, NEW payload \in Values
    PROVE  LET words == <<<<"message">>, channel, payload>>
           IN  Shows(array(BulkStringsOf(words)), Event(<<"message">>, channel, InQuotes(payload)))
<1> DEFINE message == <<"message">>
           words == <<message, channel, payload>>
<1>1. /\ channel \in Seq(Alphabet) /\ Len(channel) <= IntMax
      /\ payload \in Seq(Alphabet) /\ Len(payload) <= IntMax
  BY DEF Values
<1>2. message \in Seq(Alphabet) /\ Len(message) <= IntMax
  <2>1. "message" \in Alphabet
    BY AlphabetAssumption, Zenon
  <2> QED BY <2>1 DEF IntMax
<1> HIDE DEF message
<1>3. words \in Words
  <2>1. words \in Seq(Seq(Alphabet)) /\ Len(words) = 3 /\ words # <<>>
    BY <1>1, <1>2
  <2>2. words[1] = message /\ words[2] = channel /\ words[3] = payload
    OBVIOUS
  <2>3. Len(words) <= IntMax
    BY <2>1 DEF IntMax
  <2> HIDE DEF words
  <2>4. \A i \in 1 .. Len(words) : i = 1 \/ i = 2 \/ i = 3
    BY <2>1
  <2>5. \A i \in 1 .. Len(words) : Len(words[i]) <= IntMax
    BY <1>1, <1>2, <2>2, <2>4
  <2> QED BY <2>1, <2>3, <2>5, Zenon DEF Words
<1>4. AllInQuotes(words) = <<InQuotes(message), InQuotes(channel), InQuotes(payload)>>
  BY DEF AllInQuotes
<1> HIDE DEF words
<1>5. Shows(array(BulkStringsOf(words)), NumberedList(AllInQuotes(words)))
  BY <1>3, ArrayShows
<1>6. Event(message, channel, InQuotes(payload)) = NumberedList(AllInQuotes(words))
  BY <1>4, Zenon DEF Event
<1> QED BY <1>5, <1>6, Zenon DEF words, message

\* Each of them shows the text that it should.
LEMMA ReplyShows ==
    ASSUME NEW frame \in ReplyFrame
    PROVE  \E u, text : frame = Frame(u, <<text>>) /\ Shows(u, text)
<1>1. ASSUME NEW text \in Statuses \cup Errors, frame = SameReply(text)
      PROVE  Shows(serialize_response[text], text)
  BY FixedShow, ErrorShows, Zenon DEF Statuses
<1>2. ASSUME NEW n \in LongLong, frame = IntegerReply(n)
      PROVE  Shows(serialize_response[IntegerText(n)], IntegerText(n))
  <2>1. n \in Int
    BY DEF LongLong
  <2> QED BY <2>1, IntegerShows, Zenon
<1>3. ASSUME NEW values \in OneLineLists \cup {<<>>}, frame = ListReply(values)
      PROVE  \E u, text : frame = Frame(u, <<text>>) /\ Shows(u, text)
  <2>1. CASE values = <<>>
    BY <1>3, <2>1, FixedShow, Zenon DEF ListReply
  <2>2. CASE values # <<>>
    <3>1. values \in OneLineLists
      BY <2>2, Zenon
    <3> DEFINE reply == NumberedList(AllInQuotes(values))
    <3>2. Shows(serialize_response[reply], reply)
      BY <3>1, ListShows, Zenon
    <3>3. frame = Frame(serialize_response[reply], <<reply>>)
      BY <1>3, <2>2, Zenon DEF ListReply, SameReply
    <3> HIDE DEF reply
    <3> QED BY <3>2, <3>3, Zenon
  <2> QED BY <2>1, <2>2
<1>4. ASSUME NEW value \in Values, frame = StringReply(value)
      PROVE  \E u, text : frame = Frame(u, <<text>>) /\ Shows(u, text)
  BY <1>4, StringShows, Zenon DEF StringReply, SameReply
<1>5. ASSUME NEW text \in PlainTexts, frame = TextReply(text)
      PROVE  \E u, t : frame = Frame(u, <<t>>) /\ Shows(u, t)
  BY <1>5, PlainShows, Zenon DEF TextReply
<1>6. ASSUME NEW channel \in Values, NEW payload \in Values, frame = PushedMessage(channel, payload)
      PROVE  \E u, text : frame = Frame(u, <<text>>) /\ Shows(u, text)
  BY <1>6, PushShows, Zenon DEF PushedMessage
<1>7. ASSUME NEW text \in Statuses \cup Errors, frame = SameReply(text)
      PROVE  \E u, t : frame = Frame(u, <<t>>) /\ Shows(u, t)
  BY <1>1, <1>7, Zenon DEF SameReply
<1>8. ASSUME NEW n \in LongLong, frame = IntegerReply(n)
      PROVE  \E u, t : frame = Frame(u, <<t>>) /\ Shows(u, t)
  BY <1>2, <1>8, Zenon DEF IntegerReply, SameReply
<1>9. ASSUME frame = TakenFor(<<>>, <<"(nil)">>)
      PROVE  \E u, text : frame = Frame(u, <<text>>) /\ Shows(u, text)
  BY <1>9, FixedShow, Zenon DEF TakenFor
<1>10. ASSUME NEW line \in Errors, NEW rest \in LooseLines, NEW i \in 1 .. 2, frame = SplitError(line, rest)[i]
       PROVE  \E u, text : frame = Frame(u, <<text>>) /\ Shows(u, text)
  <2>1. PICK mark \in Alphabet \ (Mark \cup {CR}), l \in Seq(Alphabet) : OneLine(l) /\ rest = <<mark>> \o l
    BY Zenon DEF LooseLines
  <2>2. Shows(rest \o EOL, rest)
    BY <2>1, LooseShows, Zenon
  <2>3. rest \in Seq(Alphabet)
    BY <2>2, Zenon DEF Shows
  <2>4. SplitError(line, rest) = <<SameReply(line), Frame(rest \o EOL, <<rest>>)>>
    BY <2>3, SplitIs, Zenon
  <2> DEFINE a == SameReply(line)
             b == Frame(rest \o EOL, <<rest>>)
  <2>5. <<a, b>>[1] = a /\ <<a, b>>[2] = b /\ i \in {1, 2}
    <3> HIDE DEF a, b
    <3> QED OBVIOUS
  <2>6. Shows(serialize_response[line], line)
    BY ErrorShows, Zenon
  <2>7. CASE i = 1
    BY <1>10, <2>4, <2>5, <2>6, <2>7, Zenon DEF SameReply
  <2>8. CASE i = 2
    BY <1>10, <2>2, <2>4, <2>5, <2>8, Zenon
  <2> QED BY <2>5, <2>7, <2>8, Zenon
<1> QED BY <1>3, <1>4, <1>5, <1>6, <1>7, <1>8, <1>9, <1>10 DEF ReplyFrame

\* Such a frame is told apart from what follows it.
LEMMA ReplyClear ==
    ASSUME NEW u, NEW text, Shows(u, text)
    PROVE  LET frame == Frame(u, <<text>>)
           IN  /\ frame \in FramesOf(Alphabet, Seq(Alphabet)) /\ frame.bytes # <<>>
               /\ Clear("reply", Alphabet, frame)
<1> DEFINE gives == <<text>>
           frame == Frame(u, gives)
<1>1. u \in Seq(Alphabet) /\ u # <<>> /\ text \in Seq(Alphabet)
  BY Zenon DEF Shows
<1>2. gives \in Seq(Seq(Alphabet))
  BY <1>1
<1> HIDE DEF gives
<1>3. frame.bytes = u /\ frame.gives = gives /\ frame.last = FALSE /\ frame \in FramesOf(Alphabet, Seq(Alphabet))
  BY <1>1, <1>2, Zenon DEF Frame, FramesOf
<1>4. \A buf : Round("reply", buf) = read_resp_response(buf)
  BY DEF Round
<1> HIDE DEF frame
<1>5. ASSUME NEW buf \in Seq(Alphabet), Continues(buf, 0, frame.bytes)
      PROVE  IF Len(frame.bytes) <= Len(buf)
             THEN Len(buf) < Len(frame.bytes) + MaxRead => Whole(frame, Round("reply", buf))
             ELSE Round("reply", buf) = Waits
  <2> DEFINE value == parse_resp_value[buf]
  <2>1. value = IF Len(u) <= Len(buf) THEN Value(text, Len(u)) ELSE Incomplete
    BY <1>3, <1>5, Zenon DEF Shows
  <2>2. Round("reply", buf) = IF value.ok THEN Takes(<<value.text>>, value.consumed) ELSE Waits
    BY <1>4, Zenon DEF read_resp_response
  <2> HIDE DEF value
  <2>3. CASE Len(u) <= Len(buf)
    <3>1. value = Value(text, Len(u))
      BY <2>1, <2>3, Zenon
    <3>2. value.ok /\ value.text = text /\ value.consumed = Len(u)
      BY <3>1, TookFacts, Zenon
    <3>3. Round("reply", buf) = Takes(gives, Len(u))
      BY <2>2, <3>2, Zenon DEF gives
    <3>4. Whole(frame, Round("reply", buf))
      BY <1>3, <3>3, Zenon DEF Whole
    <3> QED BY <1>3, <2>3, <3>4, Zenon
  <2>4. CASE ~(Len(u) <= Len(buf))
    <3>1. value = Incomplete
      BY <2>1, <2>4, Zenon
    <3>2. Round("reply", buf) = Waits
      BY <2>2, <3>1, TookFacts, Zenon
    <3> QED BY <1>3, <2>4, <3>2, Zenon
  <2> QED BY <2>3, <2>4
<1>6. Clear("reply", Alphabet, frame)
  BY <1>1, <1>3, <1>5, ClearIf, Zenon
<1> QED BY <1>1, <1>3, <1>6, Zenon DEF frame, gives
-----------------------------------------------------------------------------
\* Every stream of the answers of ReplyFrame, however it is cut into reads, is
\* shown by the client answer by answer: the ones whose last byte has arrived,
\* in order, each once and with the text that ReplyFrame gives for it, although
\* the server finds the RESP type of an answer by looking at its text
\* (resp.cpp:227-366, client.cpp:82-262).  The answers that ReplyFrame leaves
\* out are the ones where that look goes wrong.
THEOREM RepliesIntact ==
    ASSUME Replies \subseteq Seq(ReplyFrame)
    PROVE  Spec => []RepliesArriveIntact
<1>1. Served("reply", Alphabet, Seq(Alphabet))
  <2>1. ASSUME NEW frame \in ReplyFrame
        PROVE  /\ frame \in FramesOf(Alphabet, Seq(Alphabet)) /\ frame.bytes # <<>>
               /\ Clear("reply", Alphabet, frame)
    <3>1. PICK u, text : frame = Frame(u, <<text>>) /\ Shows(u, text)
      BY ReplyShows, Zenon
    <3> QED BY <3>1, ReplyClear, Zenon
  <2>2. Written("reply") = Replies
    BY DEF Written
  <2> QED BY <2>1, <2>2, ServedIf, Zenon
<1>2. Init => StreamInv("reply")
  BY InitInv
<1>3. StreamInv("reply") /\ [Next]_vars => StreamInv("reply")'
  BY <1>1, NextInv
<1>4. StreamInv("reply") => RepliesArriveIntact
  BY <1>1, InTurnIntact DEF RepliesArriveIntact
<1> QED BY <1>2, <1>3, <1>4, PTL DEF Spec
=============================================================================
