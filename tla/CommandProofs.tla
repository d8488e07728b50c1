---------------------------- MODULE CommandProofs ----------------------------
(***************************************************************************)
(* What clients send, as arrays or as lines, is what the server executes.  *)
(***************************************************************************)
EXTENDS StreamProofs

-----------------------------------------------------------------------------
(* Commands as arrays of bulk strings *)

\* A round of the loop over the elements of an array takes the next bulk
\* string once it is there.
LEMMA BulkRead ==
    ASSUME NEW buf \in Seq(Alphabet), NEW word \in Seq(Alphabet), Len(word) <= IntMax,
           NEW parts, NEW pos \in Nat \ {0}, Continues(buf, pos - 1, bulk_string(word))
    PROVE  BulkString(buf, Bulks(parts, pos)) =
             IF pos + Len(bulk_string(word)) - 1 <= Len(buf)
             THEN Bulks(Append(parts, word), pos + Len(bulk_string(word)))
             ELSE NeedMore(0)
<1> DEFINE b == bulk_string(word)
           d == to_string(Len(word))
           W == Len(word)
           D == Len(d)
           L == Len(buf)
           s == Bulks(parts, pos)
           crlf == find_crlf(buf, pos)
           length == SubSeq(buf, pos + 1, crlf - 1)
           data == crlf + 2
           after == data + stoi(length)
<1>1. W \in Nat /\ L \in Nat
  OBVIOUS
<1>2. /\ d \in Seq(Alphabet) /\ OneLine(d) /\ D \in Nat \ {0} /\ d \o EOL \in Seq(Alphabet)
      /\ IsInt(d) /\ stoi(d) = W
  BY <1>1, NumberLine, NumberRead
<1>3. /\ IsHeaded(b, "$", d, word \o EOL) /\ Joins(word \o EOL, word, EOL, Alphabet)
      /\ Len(b) = D + W + 5
  BY BulkBytes
<1>4. Len(d \o EOL) = D + 2
  BY <1>2, MarksInAlphabet DEF EOL
<1> HIDE DEF b, d, W, D, L
<1>5. /\ b \in Seq(Alphabet) /\ Len(b) = D + W + 5
      /\ b[1] = "$"
      /\ \A i \in 1 .. D + 2 : b[1 + i] = (d \o EOL)[i]
      /\ \A i \in 1 .. W : b[(D + 3) + i] = word[i]
      /\ b[D + W + 4] = CR /\ b[D + W + 5] = LF
  <2> DEFINE rest == word \o EOL
  <2>1. (D + 3) + (W + 2) = D + W + 5 /\ (D + 3) + (W + 1) = D + W + 4
    BY <1>1, <1>2
  <2>2. Len(EOL) = 2 /\ EOL[1] = CR /\ EOL[2] = LF
    BY DEF EOL
  <2> HIDE DEF rest
  <2>3. Joins(rest, word, EOL, Alphabet)
    BY <1>3 DEF rest
  <2>4. /\ Len(rest) = W + 2 /\ \A i \in 1 .. W : rest[i] = word[i]
        /\ rest[W + 1] = CR /\ rest[W + 2] = LF
    BY <2>2, <2>3 DEF Joins, W
  <2>5. IsHeaded(b, "$", d, rest)
    BY <1>3 DEF rest
  <2>6. /\ b \in Seq(Alphabet) /\ b[1] = "$"
        /\ \A i \in 1 .. D + 2 : b[1 + i] = (d \o EOL)[i]
        /\ \A i \in 1 .. Len(rest) : b[(D + 3) + i] = rest[i]
    BY <2>5, Zenon DEF IsHeaded, D
  <2>7. W + 1 \in 1 .. W + 2 /\ W + 2 \in 1 .. W + 2 /\ \A i \in 1 .. W : i \in 1 .. W + 2
    BY <1>1
  <2>8. b[(D + 3) + (W + 1)] = CR /\ b[(D + 3) + (W + 2)] = LF
        /\ \A i \in 1 .. W : b[(D + 3) + i] = word[i]
    BY <2>4, <2>6, <2>7, Zenon
  <2> QED BY <1>3, <2>1, <2>6, <2>8, Zenon
<1>6. ASSUME NEW i \in 1 .. D + W + 5, (pos - 1) + i <= L PROVE buf[(pos - 1) + i] = b[i]
  BY <1>5, <1>6 DEF Continues, b, L
<1>7. s.kind = "ok" /\ s.pos = pos /\ s.parts = parts
  BY DEF Bulks
<1> DEFINE cut == NeedMore(0)
           whole == Bulks(Append(parts, word), pos + Len(b))
           goal == IF pos + Len(b) - 1 <= L THEN whole ELSE cut
           read == BulkString(buf, s)
<1>8. read = IF s.kind # "ok" THEN s
             ELSE IF pos > L THEN cut
             ELSE IF buf[pos] # "$" THEN ProtocolError
             ELSE IF crlf = Npos THEN cut
             ELSE IF ~IsInt(length) THEN ProtocolError
             ELSE IF stoi(length) < 0 THEN Bulks(Append(parts, <<>>), data)
             ELSE IF after + 1 > L THEN cut
             ELSE IF buf[after] # CR \/ buf[after + 1] # LF THEN ProtocolError
             ELSE Bulks(Append(parts, SubSeq(buf, data, after - 1)), after + 2)
  <2> HIDE DEF s
  <2> QED BY <1>7, Zenon DEF BulkString, L
<1> HIDE DEF s, cut, whole, read
<1>9. CASE pos > L
  <2>1. ~(pos + Len(b) - 1 <= L)
    BY <1>1, <1>2, <1>5, <1>9
  <2> QED BY <1>7, <1>8, <1>9, <2>1, Zenon DEF read, s, cut, whole, L, b
<1>10. CASE ~(pos > L)
  <2>1. pos \in 1 .. L /\ (pos - 1) + 1 = pos /\ 1 \in 1 .. D + W + 5 /\ pos <= L
    BY <1>1, <1>2, <1>10
  <2>2. buf[pos] = "$"
    BY <1>5, <1>6, <2>1
  <2>3. Continues(buf, pos, d \o EOL)
    <3> SUFFICES ASSUME NEW i \in 1 .. D + 2, pos + i <= L PROVE buf[pos + i] = (d \o EOL)[i]
      BY <1>4 DEF Continues, L
    <3>1. 1 + i \in 1 .. D + W + 5 /\ (pos - 1) + (1 + i) = pos + i
      BY <1>1, <1>2
    <3>2. buf[(pos - 1) + (1 + i)] = b[1 + i]
      BY <1>6, <3>1
    <3>3. b[1 + i] = (d \o EOL)[i]
      BY <1>5, Zenon
    <3> QED BY <3>1, <3>2, <3>3, Zenon
  <2>4. IF pos + D + 2 <= L
        THEN find_crlf(buf, pos) = pos + D + 1 /\ SubSeq(buf, pos + 1, pos + D) = d
        ELSE find_crlf(buf, pos) = Npos
    <3>1. pos \in 1 .. Len(buf) /\ buf[pos] # CR
      BY <2>1, <2>2, MarksInAlphabet DEF L
    <3> QED BY <1>2, <2>3, <3>1, LineRead, Zenon DEF D, L
  <2>5. CASE ~(pos + D + 2 <= L)
    <3>1. crlf = Npos
      BY <2>4, <2>5
    <3>2. ~(pos + Len(b) - 1 <= L)
      BY <1>1, <1>2, <1>5, <2>5
    <3> HIDE DEF crlf
    <3> QED BY <1>7, <1>8, <1>10, <2>2, <3>1, <3>2, Zenon DEF read, s, cut, whole, L, b
  <2>6. CASE pos + D + 2 <= L
    <3>1. crlf = pos + D + 1 /\ crlf - 1 = pos + D /\ crlf # Npos
      BY <1>2, <2>4, <2>6 DEF Npos
    <3>2. length = d
      <4> HIDE DEF crlf
      <4> QED BY <2>4, <2>6, <3>1, Zenon
    <3> HIDE DEF crlf
    <3>3. data = pos + D + 3 /\ after = pos + D + 3 + W
      <4> HIDE DEF length
      <4>1. stoi(length) = W
        BY <1>2, <3>2
      <4> QED BY <3>1, <4>1
    <3>4. IsInt(length) /\ ~(stoi(length) < 0)
      <4> HIDE DEF length
      <4> QED BY <1>1, <1>2, <3>2
    <3> HIDE DEF length, data, after
    <3>5. read = IF after + 1 > L THEN cut
                 ELSE IF buf[after] # CR \/ buf[after + 1] # LF THEN ProtocolError
                 ELSE Bulks(Append(parts, SubSeq(buf, data, after - 1)), after + 2)
      BY <1>7, <1>8, <1>10, <2>2, <3>1, <3>4, Zenon
    <3>6. CASE after + 1 > L
      <4>1. ~(pos + Len(b) - 1 <= L)
        BY <1>1, <1>2, <1>5, <3>3, <3>6
      <4> QED BY <3>5, <3>6, <4>1, Zenon DEF read, s, cut, whole, L, b
    <3>7. CASE ~(after + 1 > L)
      <4>1. /\ pos + Len(b) - 1 <= L /\ after + 2 = pos + Len(b)
            /\ after = (pos - 1) + (D + W + 4) /\ after + 1 = (pos - 1) + (D + W + 5)
            /\ D + W + 4 \in 1 .. D + W + 5 /\ D + W + 5 \in 1 .. D + W + 5
            /\ (pos - 1) + (D + W + 4) <= L /\ (pos - 1) + (D + W + 5) <= L
        BY <1>1, <1>2, <1>5, <3>3, <3>7
      <4>2. buf[after] = CR /\ buf[after + 1] = LF
        <5>1. buf[(pos - 1) + (D + W + 4)] = b[D + W + 4] /\ buf[(pos - 1) + (D + W + 5)] = b[D + W + 5]
          BY <1>6, <4>1
        <5> QED BY <1>5, <4>1, <5>1, Zenon
      <4>3. SubSeq(buf, data, after - 1) = word
        <5> DEFINE o == pos + D + 2
                   w == SubSeq(buf, o + 1, o + W)
        <5>1. data = o + 1 /\ after - 1 = o + W /\ o \in Nat /\ o + W <= L
          BY <1>1, <1>2, <3>3, <3>7
        <5>2. \A i \in 1 .. W : /\ (D + 3) + i \in 1 .. D + W + 5 /\ (pos - 1) + ((D + 3) + i) = o + i
                                /\ o + i <= L
          BY <1>1, <1>2, <5>1
        <5> HIDE DEF o
        <5>3. w \in Seq(Alphabet) /\ Len(w) = W /\ \A i \in 1 .. W : w[i] = buf[o + i]
          BY <1>1, <5>1 DEF L
        <5> HIDE DEF w
        <5>4. ASSUME NEW i \in 1 .. W PROVE w[i] = word[i]
          <6>1. buf[(pos - 1) + ((D + 3) + i)] = b[(D + 3) + i]
            BY <1>6, <5>2
          <6>2. buf[o + i] = b[(D + 3) + i]
            BY <5>2, <6>1, Zenon
          <6> QED BY <1>5, <5>3, <6>2, Zenon
        <5>5. w = word
          BY <5>3, <5>4, SeqEqual DEF W
        <5> QED BY <5>1, <5>5, Zenon DEF w
      <4>4. read = Bulks(Append(parts, word), pos + Len(b))
        BY <3>5, <3>7, <4>1, <4>2, <4>3, Zenon
      <4> QED BY <4>1, <4>4, Zenon DEF read, s, cut, whole, L, b
    <3> QED BY <3>6, <3>7
  <2> QED BY <2>5, <2>6
<1> QED BY <1>9, <1>10

\* BulkStrings is the state of its loop after the last element.
LEMMA BulkStringsRuns ==
    ASSUME NEW buf, NEW pos, NEW count \in Nat
    PROVE  \E f : /\ Runs(f, "array", buf, Bulks(<<>>, pos), count)
                  /\ BulkStrings(buf, pos, count) = f[count]
<1> DEFINE P(f) == f = [i \in 0 .. count |->
                          IF i = 0 THEN Bulks(<<>>, pos) ELSE BulkString(buf, f[i - 1])]
<1>1. \A f : P(f) <=> Runs(f, "array", buf, Bulks(<<>>, pos), count)
  BY DEF Runs, Turn
<1>2. \E f : P(f)
  <2> HIDE DEF P
  <2> QED BY <1>1, RunsExist
<1>3. BulkStrings(buf, pos, count) = (CHOOSE f : P(f))[count]
  BY Zenon DEF BulkStrings
<1> HIDE DEF P
<1>4. P(CHOOSE f : P(f))
  BY <1>2, Zenon
<1> QED BY <1>1, <1>3, <1>4, Zenon

\* After i elements, the loop is at the next one, or has found that it is cut.
LEMMA ElementsRead ==
    ASSUME NEW words \in Words, NEW buf \in Seq(Alphabet), NEW pos \in Nat \ {0},
           pos - 1 <= Len(buf), Continues(buf, pos - 1, BytesOf(Parts(words)))
    PROVE  BulkStrings(buf, pos, Len(words)) =
             IF (pos - 1) + Len(BytesOf(Parts(words))) <= Len(buf)
             THEN Bulks(words, pos + Len(BytesOf(Parts(words))))
             ELSE NeedMore(0)
<1> DEFINE fs == Parts(words)
           K == Len(words)
           L == Len(buf)
           off(i) == Offset(fs, i)
           all == BytesOf(fs)
<1>1. /\ fs \in Streams(Alphabet, {}) /\ Len(fs) = K /\ K \in Nat \ {0}
      /\ \A i \in 1 .. K : words[i] \in Seq(Alphabet) /\ Len(words[i]) <= IntMax
                           /\ fs[i].bytes = bulk_string(words[i])
  BY PartsFrames
<1>2. words \in Seq(Seq(Alphabet)) /\ L \in Nat
  BY DEF Words
<1>3. PICK f : Runs(f, "array", buf, Bulks(<<>>, pos), K) /\ BulkStrings(buf, pos, K) = f[K]
  <2>1. K \in Nat
    BY <1>1
  <2> HIDE DEF K
  <2> QED BY <2>1, BulkStringsRuns
<1>4. f[0] = Bulks(<<>>, pos)
      /\ \A n \in 0 .. K : n + 1 \in 0 .. K => f[n + 1] = BulkString(buf, f[n])
  <2> HIDE DEF K
  <2>1. K \in Nat
    BY <1>1
  <2> QED BY <1>3, <2>1, RunsInTurn DEF Turn
<1>5. /\ off(0) = 0 /\ off(K) = Len(all) /\ \A i \in 0 .. K : off(i) \in Nat
      /\ all \in Seq(Alphabet) /\ Len(all) \in Nat
  <2> HIDE DEF fs, K
  <2>1. Laid(fs) /\ fs \in Seq(FramesOf(Alphabet, {}))
    BY <1>1, FramesLaid DEF Streams
  <2>2. K \in 0 .. K
    BY <1>1
  <2>3. all \in Seq(Alphabet)
    BY <1>1, <2>1, <2>2, PartsJoin
  <2>4. off(0) = 0 /\ off(K) = Len(all) /\ \A i \in 0 .. K : off(i) \in Nat
    BY <1>1, <2>1, Zenon DEF Laid
  <2> QED BY <2>3, <2>4, LenProperties
<1> DEFINE cut == NeedMore(0)
           Good(i) == f[i] = IF (pos - 1) + off(i) <= L
                             THEN Bulks(SubSeq(words, 1, i), pos + off(i)) ELSE cut
           S == {i \in Nat : i <= K => Good(i)}
<1>6. 0 \in S
  <2>1. SubSeq(words, 1, 0) = <<>>
    BY <1>2
  <2>2. (pos - 1) + 0 <= L /\ pos + 0 = pos
    BY <1>2
  <2> HIDE DEF fs, off
  <2>3. Good(0)
    BY <1>4, <1>5, <2>1, <2>2, Zenon DEF L
  <2> HIDE DEF Good
  <2> QED BY <2>3
<1>7. ASSUME NEW i \in Nat, i \in S PROVE i + 1 \in S
  <2> SUFFICES ASSUME i + 1 <= K PROVE Good(i + 1)
    OBVIOUS
  <2> DEFINE word == words[i + 1]
             b == bulk_string(word)
             at == pos + off(i)
  <2>1. i \in 0 .. K /\ i + 1 \in 0 .. K /\ i + 1 \in 1 .. K /\ i \in 0 .. (Len(fs) - 1) /\ i <= K
    BY <1>1
  <2>2. word \in Seq(Alphabet) /\ Len(word) <= IntMax /\ fs[i + 1].bytes = b
    BY <1>1, <2>1
  <2>3. /\ b \in Seq(Alphabet) /\ off(i) \in Nat /\ off(i + 1) = off(i) + Len(b)
        /\ off(i + 1) <= Len(all)
        /\ \A j \in 1 .. Len(b) : all[off(i) + j] = b[j]
    <3>1. /\ fs[i + 1].bytes \in Seq(Alphabet) /\ Offset(fs, i) \in Nat
          /\ Offset(fs, i + 1) = Offset(fs, i) + Len(fs[i + 1].bytes)
          /\ Offset(fs, i + 1) <= Len(BytesOf(fs))
          /\ \A j \in 1 .. Len(fs[i + 1].bytes) :
                BytesOf(fs)[Offset(fs, i) + j] = fs[i + 1].bytes[j]
      <4> HIDE DEF fs
      <4> QED BY <1>1, <2>1, FrameAt
    <3> HIDE DEF fs, b
    <3> QED BY <2>2, <3>1, Zenon
  <2>4. f[i + 1] = BulkString(buf, f[i])
    BY <1>4, <2>1, Zenon
  <2>5. Good(i)
    BY <1>7, <2>1
  <2> HIDE DEF fs, off, all, b, word, L
  <2>6. Len(b) \in Nat /\ Len(b) >= 1
    BY <2>2, BulkTyped DEF b
  <2>7. CASE (pos - 1) + off(i) <= L
    <3>1. f[i] = Bulks(SubSeq(words, 1, i), at)
      BY <2>5, <2>7, Zenon
    <3>2. at \in Nat \ {0} /\ at - 1 = (pos - 1) + off(i)
      BY <2>3
    <3>3. Continues(buf, at - 1, b)
      <4> SUFFICES ASSUME NEW j \in 1 .. Len(b), (at - 1) + j <= L PROVE buf[(at - 1) + j] = b[j]
        BY DEF Continues, L
      <4>1. off(i) + j \in 1 .. Len(all) /\ (pos - 1) + (off(i) + j) = (at - 1) + j
        <5> DEFINE o == off(i)
                   next == off(i + 1)
        <5>1. o \in Nat /\ next = o + Len(b) /\ next <= Len(all) /\ Len(all) \in Nat
          BY <1>5, <2>3
        <5>2. at - 1 = (pos - 1) + o
          BY <3>2
        <5> HIDE DEF o, next, at
        <5>3. o + j \in 1 .. Len(all) /\ (pos - 1) + (o + j) = (at - 1) + j
          BY <2>6, <5>1, <5>2
        <5> QED BY <5>3 DEF o
      <4> HIDE DEF at
      <4>2. (pos - 1) + (off(i) + j) <= L
        BY <4>1
      <4>3. buf[(pos - 1) + (off(i) + j)] = all[off(i) + j]
        BY <4>1, <4>2, Zenon DEF Continues, all, fs, L
      <4>4. all[off(i) + j] = b[j]
        BY <2>3
      <4> QED BY <4>1, <4>3, <4>4, Zenon
    <3> DEFINE parts == SubSeq(words, 1, i)
    <3> HIDE DEF at, parts
    <3>4. BulkString(buf, Bulks(parts, at)) = IF at + Len(b) - 1 <= L
                                              THEN Bulks(Append(parts, word), at + Len(b)) ELSE cut
      BY <2>2, <3>2, <3>3, BulkRead, Zenon DEF b, L
    <3>5. Append(parts, word) = SubSeq(words, 1, i + 1)
      <4>1. i \in 0 .. (Len(words) - 1)
        BY <1>1, <2>1
      <4> QED BY <1>2, <4>1, SubSeqMore DEF parts, word
    <3>6. at + Len(b) - 1 = (pos - 1) + off(i + 1) /\ at + Len(b) = pos + off(i + 1)
      BY <2>3, <2>6 DEF at
    <3>7. f[i + 1] = BulkString(buf, Bulks(parts, at))
      BY <2>4, <3>1, Zenon DEF parts
    <3>8. f[i + 1] = IF (pos - 1) + off(i + 1) <= L
                     THEN Bulks(SubSeq(words, 1, i + 1), pos + off(i + 1)) ELSE cut
      BY <3>4, <3>5, <3>6, <3>7, Zenon
    <3> QED BY <3>8
  <2>8. CASE ~((pos - 1) + off(i) <= L)
    <3>1. f[i] = cut
      BY <2>5, <2>8, Zenon
    <3>2. cut.kind # "ok"
      BY DEF NeedMore
    <3> HIDE DEF cut
    <3>3. BulkString(buf, cut) = cut
      BY <3>2, Zenon DEF BulkString
    <3>4. ~((pos - 1) + off(i + 1) <= L)
      <4>1. L \in Nat
        BY <1>2 DEF L
      <4> QED BY <2>3, <2>6, <2>8, <4>1
    <3> QED BY <2>4, <3>1, <3>3, <3>4, Zenon
  <2> QED BY <2>7, <2>8
<1>8. K \in S
  <2>1. K \in Nat
    BY <1>1
  <2> HIDE DEF S, K
  <2>2. Nat \subseteq S
    BY <1>6, <1>7, NatInductionSet
  <2> QED BY <2>1, <2>2
<1>9. Good(K)
  BY <1>1, <1>8
<1>10. SubSeq(words, 1, K) = words
  BY <1>2, SubSeqFull
<1> HIDE DEF fs, off, K, L
<1> QED BY <1>3, <1>5, <1>9, <1>10, Zenon DEF fs, K, L

\* parse_command takes an array of bulk strings once it is all there.
LEMMA CommandRead ==
    ASSUME NEW words \in Words, NEW buf \in Seq(Alphabet),
           Continues(buf, 0, array(BulkStringsOf(words)))
    PROVE  parse_command(buf) = IF Len(array(BulkStringsOf(words))) <= Len(buf)
                                THEN Parsed(CommandOf(words), Len(array(BulkStringsOf(words))))
                                ELSE NeedMore(0)
<1> DEFINE u == array(BulkStringsOf(words))
           K == Len(words)
           d == to_string(K)
           all == BytesOf(Parts(words))
           L == Len(buf)
           D == Len(d)
           A == Len(all)
           crlf == find_crlf(buf, 1)
           count == SubSeq(buf, 2, crlf - 1)
           bulks == BulkStrings(buf, crlf + 2, stoi(count))
           cut == NeedMore(0)
           whole == Parsed(CommandOf(words), Len(u))
<1>1. K \in Nat \ {0} /\ K <= IntMax
  BY PartsFrames DEF Words
<1>2. /\ d \in Seq(Alphabet) /\ OneLine(d) /\ D \in Nat \ {0} /\ IsInt(d) /\ stoi(d) = K
  <2> HIDE DEF K
  <2> QED BY <1>1, NumberLine, NumberRead
<1>3. IsHeaded(u, "*", d, all)
  BY ArrayBytes
<1>4. /\ all \in Seq(Alphabet) /\ A \in Nat /\ Len(u) = D + 3 + A /\ L \in Nat
      /\ "*" # CR /\ Continues(buf, 1 - 1, u)
  <2>1. /\ Parts(words) \in Streams(Alphabet, {}) /\ Len(Parts(words)) = K
    BY PartsFrames
  <2> DEFINE fs == Parts(words)
  <2>2. all \in Seq(Alphabet)
    <3> HIDE DEF fs, K
    <3>1. fs \in Seq(FramesOf(Alphabet, {})) /\ K \in 0 .. Len(fs)
      BY <1>1, <2>1 DEF Streams, fs
    <3>2. BytesOf(fs) \in Seq(Alphabet)
      BY <3>1, PartsJoin
    <3> QED BY <3>2 DEF fs
  <2>3. Len(u) = D + 3 + A
    BY <1>3, Zenon DEF IsHeaded
  <2>4. Continues(buf, 1 - 1, u)
    <3> HIDE DEF u
    <3>1. 1 - 1 = 0
      OBVIOUS
    <3> QED BY <3>1, Zenon DEF u
  <2> HIDE DEF all
  <2> QED BY <2>2, <2>3, <2>4 DEF CR
<1> HIDE DEF u, K, d, all, L, D, A
<1>5. CASE L = 0
  <2>1. buf = <<>>
    BY <1>5 DEF L
  <2>2. ~(Len(u) <= L)
    BY <1>2, <1>4, <1>5
  <2> HIDE DEF whole
  <2> QED BY <2>1, <2>2, Zenon DEF parse_command, u, whole, L
<1>6. CASE L # 0
  <2>1. 1 \in 1 .. Len(buf) /\ buf # <<>> /\ Head(buf) = buf[1]
    BY <1>4, <1>6 DEF L
  <2>2. /\ buf[1] = "*"
        /\ IF 1 + D + 2 <= L
           THEN crlf = 1 + D + 1 /\ SubSeq(buf, 1 + 1, 1 + D) = d /\ Continues(buf, 1 + D + 2, all)
           ELSE crlf = Npos
    <3> HIDE DEF crlf
    <3>1. HeadAt(buf, 1, "*", d, all, u)
      BY <1>2, <1>3, <1>4, <2>1, Zenon DEF HeadAt
    <3>2. HeadFound(buf, 1, "*", d, all)
      BY <3>1, HeadRead, Zenon
    <3> QED BY <3>2, Zenon DEF HeadFound, D, L, crlf
  <2>3. parse_command(buf) =
           IF crlf = Npos THEN cut
           ELSE IF ~IsInt(count) \/ stoi(count) <= 0 THEN ProtocolError
           ELSE IF bulks.kind # "ok" THEN bulks
           ELSE Parsed(CommandOf(bulks.parts), bulks.pos - 1)
    BY <2>1, <2>2, Zenon DEF parse_command, parse_resp_array, ArrayResult
  <2> HIDE DEF cut, whole, crlf
  <2>4. CASE ~(1 + D + 2 <= L)
    <3>1. crlf = Npos
      BY <2>2, <2>4, Zenon
    <3>2. ~(Len(u) <= L)
      BY <1>2, <1>4, <2>4
    <3> QED BY <2>3, <3>1, <3>2, Zenon DEF cut, u, L
  <2>5. CASE 1 + D + 2 <= L
    <3>1. crlf = 1 + D + 1 /\ crlf + 2 = D + 4 /\ crlf # Npos /\ crlf - 1 = 1 + D /\ 1 + 1 = 2
      BY <1>2, <2>2, <2>5 DEF Npos
    <3>2. count = d
      BY <2>2, <2>5, <3>1, Zenon
    <3>3. stoi(count) = K /\ IsInt(count) /\ ~(stoi(count) <= 0)
      <4>1. ~(K <= 0)
        BY <1>1
      <4> HIDE DEF count
      <4> QED BY <1>2, <3>2, <4>1, Zenon
    <3>4. bulks = BulkStrings(buf, D + 4, K)
      <4> HIDE DEF count
      <4> QED BY <3>1, <3>3, Zenon
    <3> HIDE DEF count
    <3>5. /\ D + 4 \in Nat \ {0} /\ (D + 4) - 1 = 1 + D + 2 /\ (D + 4) - 1 <= L
          /\ (D + 4) - 1 + A = D + 3 + A /\ (D + 4 + A) - 1 = D + 3 + A
      BY <1>2, <1>4, <2>5
    <3>6. Continues(buf, (D + 4) - 1, all)
      BY <2>2, <2>5, <3>5, Zenon
    <3>7. BulkStrings(buf, D + 4, K) = IF (D + 4) - 1 + A <= L THEN Bulks(words, D + 4 + A) ELSE cut
      BY <3>5, <3>6, ElementsRead, Zenon DEF K, A, L, all, cut
    <3> HIDE DEF bulks
    <3>8. parse_command(buf) = IF bulks.kind # "ok" THEN bulks
                               ELSE Parsed(CommandOf(bulks.parts), bulks.pos - 1)
      BY <2>3, <3>1, <3>3, Zenon
    <3>9. CASE Len(u) <= L
      <4>1. bulks = Bulks(words, D + 4 + A)
        BY <1>4, <3>4, <3>5, <3>7, <3>9, Zenon
      <4>2. bulks.kind = "ok" /\ bulks.parts = words /\ bulks.pos = D + 4 + A
        BY <4>1 DEF Bulks
      <4>3. bulks.pos - 1 = Len(u)
        BY <1>4, <3>5, <4>2, Zenon
      <4>4. parse_command(buf) = whole
        BY <3>8, <4>2, <4>3, Zenon DEF whole
      <4> QED BY <3>9, <4>4, Zenon DEF whole, u, L
    <3>10. CASE ~(Len(u) <= L)
      <4>1. bulks = cut
        BY <1>4, <3>4, <3>5, <3>7, <3>10, Zenon
      <4>2. cut.kind # "ok"
        BY DEF cut, NeedMore
      <4>3. parse_command(buf) = cut
        BY <3>8, <4>1, <4>2, Zenon
      <4> QED BY <3>10, <4>3, Zenon DEF cut, u, L
    <3> QED BY <3>9, <3>10
  <2> QED BY <2>4, <2>5
<1> QED BY <1>5, <1>6

-----------------------------------------------------------------------------
(* The frames of commands *)

\* What the server makes of the frames below.
CommandItem == {CommandOf(words) : words \in Words} \cup {Refused}

\* The server hangs up after QUIT.
OfCommand(frame) == IF Head(frame.gives).name = QUIT THEN Closing(frame) ELSE frame

\* A round of the server's loop, by what parse_command returns.
LEMMA RoundOf ==
    ASSUME NEW buf
    PROVE  /\ parse_command(buf) = NeedMore(0) => Round("command", buf) = Waits
           /\ \A n \in Nat \ {0} : parse_command(buf) = NeedMore(n) =>
                 Round("command", buf) = Takes(<<>>, n)
           /\ parse_command(buf) = ProtocolError => Round("command", buf) = GivesUp(<<Refused>>, 0)
           /\ \A command, n : parse_command(buf) = Parsed(command, n) /\ ~(Len(buf) - n > MaxBuffer) =>
                 Round("command", buf) = IF command.name = QUIT THEN GivesUp(<<command>>, n)
                                         ELSE Takes(<<command>>, n)
<1> DEFINE result == parse_command(buf)
           round == process_client(buf)
<1>1. Round("command", buf) = round
  BY DEF Round
<1>2. round = CASE result.kind = "protocol_error" -> GivesUp(<<Refused>>, 0)
                [] result.kind = "need_more" ->
                   IF result.consumed > 0 THEN Takes(<<>>, result.consumed) ELSE Waits
                [] result.kind = "ok" ->
                   IF Len(buf) - result.consumed > MaxBuffer THEN GivesUp(<<>>, result.consumed)
                   ELSE IF result.command.name = QUIT
                   THEN GivesUp(<<result.command>>, result.consumed)
                   ELSE Takes(<<result.command>>, result.consumed)
  BY Zenon DEF process_client, ProcessResult
<1> HIDE DEF result, round
<1>3. ASSUME result = NeedMore(0) PROVE round = Waits
  <2>1. result.kind = "need_more" /\ ~(result.consumed > 0)
    BY <1>3 DEF NeedMore
  <2> QED BY <1>2, <2>1
<1>4. ASSUME NEW n \in Nat \ {0}, result = NeedMore(n) PROVE round = Takes(<<>>, n)
  <2>1. result.kind = "need_more" /\ result.consumed > 0 /\ result.consumed = n
    BY <1>4 DEF NeedMore
  <2> QED BY <1>2, <2>1
<1>5. ASSUME result = ProtocolError PROVE round = GivesUp(<<Refused>>, 0)
  <2>1. result.kind = "protocol_error"
    BY <1>5 DEF ProtocolError
  <2> QED BY <1>2, <2>1
<1>6. ASSUME NEW command, NEW n, result = Parsed(command, n), ~(Len(buf) - n > MaxBuffer)
      PROVE  round = IF command.name = QUIT THEN GivesUp(<<command>>, n) ELSE Takes(<<command>>, n)
  <2>1. result.kind = "ok" /\ result.command = command /\ result.consumed = n
    BY <1>6 DEF Parsed
  <2>2. round = IF Len(buf) - result.consumed > MaxBuffer THEN GivesUp(<<>>, result.consumed)
                ELSE IF result.command.name = QUIT
                THEN GivesUp(<<result.command>>, result.consumed)
                ELSE Takes(<<result.command>>, result.consumed)
    BY <1>2, <2>1
  <2> QED BY <1>6, <2>1, <2>2, Zenon
<1> QED BY <1>1, <1>3, <1>4, <1>5, <1>6, Zenon DEF result

\* Bytes that parse_command takes for a command once they are whole, and waits
\* for until then, are clear to process_client, which hangs up after QUIT
\* (server.cpp:242-280).
LEMMA CommandClear ==
    ASSUME NEW words \in Words, NEW u \in Seq(Alphabet), u # <<>>,
           \A buf \in Seq(Alphabet) : Continues(buf, 0, u) =>
              parse_command(buf) = IF Len(u) <= Len(buf) THEN Parsed(CommandOf(words), Len(u))
                                   ELSE NeedMore(0)
    PROVE  LET frame == OfCommand(Frame(u, <<CommandOf(words)>>))
           IN  /\ frame \in FramesOf(Alphabet, CommandItem) /\ frame.bytes # <<>>
               /\ Clear("command", Alphabet, frame)
<1> DEFINE command == CommandOf(words)
           plain == Frame(u, <<command>>)
           frame == OfCommand(plain)
           quits == command.name = QUIT
<1>1. u \in Seq(Alphabet) /\ u # <<>> /\ Len(u) \in Nat
  OBVIOUS
<1>2. \A buf \in Seq(Alphabet) : Continues(buf, 0, u) =>
         parse_command(buf) = IF Len(u) <= Len(buf) THEN Parsed(command, Len(u)) ELSE NeedMore(0)
  OBVIOUS
<1>3. /\ plain = [bytes |-> u, gives |-> <<command>>, last |-> FALSE]
      /\ Closing(plain) = [bytes |-> u, gives |-> <<command>>, last |-> TRUE]
      /\ Head(plain.gives) = command
  <2>1. plain = [bytes |-> u, gives |-> <<command>>, last |-> FALSE]
    BY Zenon DEF Frame
  <2> HIDE DEF plain, command
  <2>2. plain.bytes = u /\ plain.gives = <<command>> /\ Head(plain.gives) = command
    BY <2>1
  <2> QED BY <2>1, <2>2, Zenon DEF Closing
<1>4. command \in CommandItem
  BY Zenon DEF CommandItem
<1>5. frame = IF quits THEN Closing(plain) ELSE plain
  <2> HIDE DEF plain
  <2> QED BY <1>3, Zenon DEF OfCommand
<1> HIDE DEF command, frame, plain
<1>6. ASSUME NEW buf \in Seq(Alphabet), Continues(buf, 0, u)
      PROVE  IF Len(u) <= Len(buf)
             THEN Len(buf) < Len(u) + MaxRead =>
                    Round("command", buf) =
                      IF quits THEN GivesUp(<<command>>, Len(u)) ELSE Takes(<<command>>, Len(u))
             ELSE Round("command", buf) = Waits
  <2>1. CASE ~(Len(u) <= Len(buf))
    <3>1. parse_command(buf) = NeedMore(0)
      BY <1>2, <1>6, <2>1, Zenon
    <3> QED BY <2>1, <3>1, RoundOf, Zenon
  <2>2. CASE Len(u) <= Len(buf) /\ Len(buf) < Len(u) + MaxRead
    <3>1. parse_command(buf) = Parsed(command, Len(u))
      BY <1>2, <1>6, <2>2, Zenon
    <3>2. ~(Len(buf) - Len(u) > MaxBuffer)
      BY <1>1, <2>2, StreamAssumption
    <3> QED BY <2>2, <3>1, <3>2, RoundOf, Zenon
  <2> QED BY <2>1, <2>2
<1>8. frame.bytes = u /\ frame.gives = <<command>> /\ (frame.last <=> quits)
  <2>1. CASE quits
    BY <1>3, <1>5, <2>1
  <2>2. CASE ~quits
    BY <1>3, <1>5, <2>2
  <2> QED BY <2>1, <2>2
<1>9. frame \in FramesOf(Alphabet, CommandItem)
  <2>1. <<command>> \in Seq(CommandItem)
    BY <1>4
  <2>2. CASE quits
    BY <1>1, <1>3, <1>5, <2>1, <2>2 DEF FramesOf
  <2>3. CASE ~quits
    BY <1>1, <1>3, <1>5, <2>1, <2>3 DEF FramesOf
  <2> QED BY <2>2, <2>3
<1>10. Clear("command", Alphabet, frame)
  <2>1. ASSUME NEW buf \in Seq(Alphabet), Continues(buf, 0, frame.bytes)
        PROVE  IF Len(frame.bytes) <= Len(buf)
               THEN Len(buf) < Len(frame.bytes) + MaxRead => Whole(frame, Round("command", buf))
               ELSE Round("command", buf) = Waits
    <3>1. CASE ~(Len(u) <= Len(buf))
      BY <1>6, <1>8, <2>1, <3>1
    <3>2. CASE Len(u) <= Len(buf)
      <4> SUFFICES ASSUME Len(buf) < Len(u) + MaxRead PROVE Whole(frame, Round("command", buf))
        BY <1>8, <3>2, Zenon
      <4> DEFINE round == Round("command", buf)
      <4>1. round = IF quits THEN GivesUp(<<command>>, Len(u)) ELSE Takes(<<command>>, Len(u))
        BY <1>6, <1>8, <2>1, <3>2, Zenon
      <4> HIDE DEF round
      <4>2. CASE quits
        <5>1. round = GivesUp(<<command>>, Len(u))
          BY <4>1, <4>2, Zenon
        <5>2. round.kind = "gives_up" /\ round.items = <<command>>
          BY <5>1 DEF GivesUp
        <5> QED BY <1>8, <4>2, <5>2, Zenon DEF Whole, round
      <4>3. CASE ~quits
        <5>1. round = Takes(<<command>>, Len(u))
          BY <4>1, <4>3, Zenon
        <5> QED BY <1>8, <4>3, <5>1, Zenon DEF Whole, round
      <4> QED BY <4>2, <4>3
    <3> QED BY <3>1, <3>2
  <2>2. frame.bytes \in Seq(Alphabet)
    BY <1>1, <1>8
  <2> QED BY <2>1, <2>2, ClearIf, Zenon
<1> QED BY <1>1, <1>8, <1>9, <1>10, Zenon DEF frame, plain, command

\* An array of any words is clear to process_client.
LEMMA ArrayClear ==
    ASSUME NEW words \in Words
    PROVE  LET frame == OfCommand(ArrayCommand(words))
           IN  /\ frame \in FramesOf(Alphabet, CommandItem) /\ frame.bytes # <<>>
               /\ Clear("command", Alphabet, frame)
<1> DEFINE u == array(BulkStringsOf(words))
<1>1. u \in Seq(Alphabet) /\ u # <<>> /\ Len(u) \in Nat
  <2> DEFINE all == BytesOf(Parts(words))
             d == to_string(Len(words))
  <2>1. IsHeaded(u, "*", d, all)
    BY ArrayBytes
  <2>2. Len(d) \in Nat
    BY PartsFrames, NumberLine
  <2> HIDE DEF u, all, d
  <2>3. u \in Seq(Alphabet) /\ Len(u) = Len(d) + 3 + Len(all)
    BY <2>1, Zenon DEF IsHeaded
  <2>4. all \in Seq(Alphabet)
    <3> DEFINE fs == Parts(words)
    <3>1. fs \in Streams(Alphabet, {}) /\ Len(fs) \in Nat
      BY PartsFrames
    <3> HIDE DEF fs
    <3>2. fs \in Seq(FramesOf(Alphabet, {})) /\ Len(fs) \in 0 .. Len(fs)
      BY <3>1 DEF Streams
    <3>3. BytesOf(fs) \in Seq(Alphabet)
      BY <3>2, PartsJoin
    <3> QED BY <3>3 DEF fs, all
  <2> QED BY <2>2, <2>3, <2>4
<1>2. \A buf \in Seq(Alphabet) : Continues(buf, 0, u) =>
         parse_command(buf) = IF Len(u) <= Len(buf) THEN Parsed(CommandOf(words), Len(u))
                              ELSE NeedMore(0)
  BY CommandRead, Zenon
<1>3. ArrayCommand(words) = Frame(u, <<CommandOf(words)>>)
  BY Zenon DEF ArrayCommand
<1> HIDE DEF u
<1> QED BY <1>1, <1>2, <1>3, CommandClear, Zenon

\* A frame that the server refuses, whatever follows it.
LEMMA RefusedClear ==
    ASSUME NEW u \in Seq(Alphabet), u # <<>>,
           \A buf \in Seq(Alphabet) : Continues(buf, 0, u) =>
              parse_command(buf) = IF Len(u) <= Len(buf) THEN ProtocolError ELSE NeedMore(0)
    PROVE  /\ Malformed(u) \in FramesOf(Alphabet, CommandItem) /\ Malformed(u).bytes # <<>>
           /\ Clear("command", Alphabet, Malformed(u))
<1> DEFINE frame == Malformed(u)
<1>1. frame = [bytes |-> u, gives |-> <<Refused>>, last |-> TRUE]
  <2> DEFINE plain == Frame(u, <<Refused>>)
  <2>1. plain = [bytes |-> u, gives |-> <<Refused>>, last |-> FALSE]
    BY Zenon DEF Frame
  <2>2. frame = Closing(plain)
    BY Zenon DEF Malformed
  <2> HIDE DEF plain
  <2>3. plain.bytes = u /\ plain.gives = <<Refused>>
    BY <2>1
  <2> QED BY <2>2, <2>3, Zenon DEF Closing
<1> HIDE DEF frame
<1>2. frame.bytes = u /\ frame.gives = <<Refused>> /\ frame.last
  BY <1>1
<1>3. frame \in FramesOf(Alphabet, CommandItem)
  <2>1. <<Refused>> \in Seq(CommandItem)
    BY DEF CommandItem
  <2> QED BY <1>1, <2>1 DEF FramesOf
<1>4. ASSUME NEW buf \in Seq(Alphabet), Continues(buf, 0, frame.bytes)
      PROVE  IF Len(frame.bytes) <= Len(buf)
             THEN Len(buf) < Len(frame.bytes) + MaxRead => Whole(frame, Round("command", buf))
             ELSE Round("command", buf) = Waits
  <2>1. parse_command(buf) = IF Len(u) <= Len(buf) THEN ProtocolError ELSE NeedMore(0)
    BY <1>2, <1>4, Zenon
  <2>2. CASE ~(Len(u) <= Len(buf))
    <3>1. Round("command", buf) = Waits
      BY <2>1, <2>2, RoundOf, Zenon
    <3> QED BY <1>2, <2>2, <3>1, Zenon
  <2>3. CASE Len(u) <= Len(buf)
    <3> DEFINE round == Round("command", buf)
    <3>1. round = GivesUp(<<Refused>>, 0)
      BY <2>1, <2>3, RoundOf, Zenon
    <3> HIDE DEF round
    <3>2. round.kind = "gives_up" /\ round.items = <<Refused>>
      BY <3>1 DEF GivesUp
    <3>3. Whole(frame, round)
      BY <1>2, <3>2, Zenon DEF Whole
    <3> QED BY <1>2, <2>3, <3>3, Zenon DEF round
  <2> QED BY <2>2, <2>3
<1>5. Clear("command", Alphabet, frame)
  BY <1>2, <1>4, ClearIf, Zenon
<1> QED BY <1>2, <1>3, <1>5 DEF frame

\* Lines that are no number of elements.
NotCounts == {text \in Seq(Alphabet) : OneLine(text) /\ (~IsInt(text) \/ stoi(text) <= 0)}

\* An array whose number of elements is none.
BadCount(text) == Malformed(<<"*">> \o text \o EOL)

\* An array whose count is no positive number is refused once its first line is
\* there (resp.cpp:52-68).
LEMMA BadCountClear ==
    ASSUME NEW text \in NotCounts
    PROVE  /\ BadCount(text) \in FramesOf(Alphabet, CommandItem) /\ BadCount(text).bytes # <<>>
           /\ Clear("command", Alphabet, BadCount(text))
<1> DEFINE u == <<"*">> \o text \o EOL
           D == Len(text)
<1>1. /\ text \in Seq(Alphabet) /\ OneLine(text) /\ (~IsInt(text) \/ stoi(text) <= 0)
      /\ D \in Nat /\ <<>> \in Seq(Alphabet) /\ "*" \in Alphabet /\ "*" # CR
  BY MarksInAlphabet DEF NotCounts
<1>2. IsHeaded(u, "*", text, <<>>)
  <2> DEFINE none == <<>>
  <2>0. none \in Seq(Alphabet)
    OBVIOUS
  <2> HIDE DEF none
  <2>1. IsHeaded(u \o none, "*", text, none)
    BY <1>1, <2>0, HeadBytes
  <2>2. u \in Seq(Alphabet)
    <3> DEFINE one == <<"*">>
               y == one \o text
    <3>1. one \in Seq(Alphabet) /\ EOL \in Seq(Alphabet)
      BY MarksInAlphabet
    <3> HIDE DEF one
    <3>2. Joins(y, one, text, Alphabet)
      BY <1>1, <3>1, ConcatJoins
    <3>3. y \in Seq(Alphabet)
      BY <3>2, Zenon DEF Joins
    <3> HIDE DEF y
    <3>4. Joins(y \o EOL, y, EOL, Alphabet)
      BY <3>1, <3>3, ConcatJoins
    <3>5. y \o EOL \in Seq(Alphabet)
      BY <3>4, Zenon DEF Joins
    <3> QED BY <3>5 DEF y, one
  <2> HIDE DEF u
  <2>3. u \o none = u
    BY <2>2, ConcatEmptySeq DEF none
  <2>4. IsHeaded(u, "*", text, none)
    BY <2>1, <2>3, Zenon
  <2> QED BY <2>4 DEF none
<1> HIDE DEF u, D
<1>3. u \in Seq(Alphabet) /\ Len(u) = D + 3 /\ u # <<>>
  <2>1. u \in Seq(Alphabet) /\ Len(u) = D + 3 + Len(<<>>)
    BY <1>2, Zenon DEF IsHeaded, D
  <2> QED BY <1>1, <2>1
<1>4. ASSUME NEW buf \in Seq(Alphabet), Continues(buf, 0, u)
      PROVE  parse_command(buf) = IF Len(u) <= Len(buf) THEN ProtocolError ELSE NeedMore(0)
  <2> DEFINE crlf == find_crlf(buf, 1)
             count == SubSeq(buf, 2, crlf - 1)
             bulks == BulkStrings(buf, crlf + 2, stoi(count))
  <2>1. CASE buf = <<>>
    <3>1. ~(Len(u) <= Len(buf))
      BY <1>1, <1>3, <2>1
    <3> QED BY <2>1, <3>1, Zenon DEF parse_command
  <2>2. CASE buf # <<>>
    <3>1. 1 \in 1 .. Len(buf) /\ Head(buf) = buf[1]
      BY <2>2
    <3>2. Continues(buf, 1 - 1, u)
      <4>1. 1 - 1 = 0
        OBVIOUS
      <4> QED BY <1>4, <4>1, Zenon
    <3>3. HeadAt(buf, 1, "*", text, <<>>, u)
      BY <1>1, <1>2, <3>1, <3>2, Zenon DEF HeadAt
    <3>4. HeadFound(buf, 1, "*", text, <<>>)
      BY <3>3, HeadRead, Zenon
    <3>5. /\ buf[1] = "*"
          /\ IF 1 + D + 2 <= Len(buf) THEN crlf = 1 + D + 1 /\ SubSeq(buf, 1 + 1, 1 + D) = text
             ELSE crlf = Npos
      BY <3>4, Zenon DEF HeadFound, D
    <3>6. parse_command(buf) =
             IF crlf = Npos THEN NeedMore(0)
             ELSE IF ~IsInt(count) \/ stoi(count) <= 0 THEN ProtocolError
             ELSE IF bulks.kind # "ok" THEN bulks
             ELSE Parsed(CommandOf(bulks.parts), bulks.pos - 1)
      BY <2>2, <3>1, <3>5, Zenon DEF parse_command, parse_resp_array, ArrayResult
    <3>7. 1 + D + 2 <= Len(buf) <=> Len(u) <= Len(buf)
      BY <1>1, <1>3
    <3> HIDE DEF crlf
    <3>8. CASE ~(1 + D + 2 <= Len(buf))
      BY <3>5, <3>6, <3>7, <3>8, Zenon
    <3>9. CASE 1 + D + 2 <= Len(buf)
      <4>1. crlf = 1 + D + 1 /\ crlf # Npos /\ crlf - 1 = 1 + D /\ 1 + 1 = 2
        BY <1>1, <3>5, <3>9 DEF Npos
      <4>2. count = text
        BY <3>5, <3>9, <4>1, Zenon
      <4> HIDE DEF count, bulks
      <4>3. ~IsInt(count) \/ stoi(count) <= 0
        BY <1>1, <4>2, Zenon
      <4> QED BY <3>6, <3>7, <3>9, <4>1, <4>3, Zenon
    <3> QED BY <3>8, <3>9
  <2> QED BY <2>1, <2>2
<1>5. BadCount(text) = Malformed(u)
  BY Zenon DEF BadCount, u
<1> QED BY <1>3, <1>4, <1>5, RefusedClear, Zenon

-----------------------------------------------------------------------------
(* Commands as lines of quoted words *)

\* How a sender writes a symbol inside double quotes.
Quoted(ch) == CASE ch \in {DQ, BS} -> <<BS, ch>>
                [] ch = LF -> <<BS, "n">>
                [] ch = TAB -> <<BS, "t">>
                [] OTHER -> <<ch>>

\* The symbols of a word, written so.
QuotedSymbols(word) == [i \in 1 .. Len(word) |-> Quoted(word[i])]

\* A symbol is written in quotes without newlines.
LEMMA QuotedTyped ==
    ASSUME NEW ch \in Alphabet
    PROVE  /\ Quoted(ch) \in Seq(Alphabet) /\ Quoted(ch) # <<>>
           /\ \A i \in 1 .. Len(Quoted(ch)) : Quoted(ch)[i] # LF
<1>1. BS \in Alphabet /\ "n" \in Alphabet /\ "t" \in Alphabet
  BY AlphabetAssumption, Zenon
<1>2. BS # LF /\ "n" # LF /\ "t" # LF /\ DQ # LF
  BY DEF BS, LF, DQ
<1>3. CASE ch \in {DQ, BS}
  <2>1. Quoted(ch) = <<BS, ch>>
    BY <1>3 DEF Quoted, DQ, BS, LF, TAB
  <2> QED BY <1>1, <1>2, <1>3, <2>1
<1>4. CASE ch = LF
  <2>1. Quoted(ch) = <<BS, "n">>
    BY <1>4 DEF Quoted, DQ, BS, LF, TAB
  <2> QED BY <1>1, <1>2, <2>1
<1>5. CASE ch = TAB
  <2>1. Quoted(ch) = <<BS, "t">>
    BY <1>5 DEF Quoted, DQ, BS, LF, TAB
  <2> QED BY <1>1, <1>2, <2>1
<1>6. CASE ch \notin {DQ, BS} /\ ch # LF /\ ch # TAB
  <2>1. Quoted(ch) = <<ch>>
    BY <1>6 DEF Quoted
  <2> QED BY <1>6, <2>1
<1> QED BY <1>3, <1>4, <1>5, <1>6

\* A round of the scan takes one symbol of the word.
LEMMA QuotedStep ==
    ASSUME NEW ch \in Alphabet, NEW token \in Seq(Alphabet), NEW more \in Seq(Alphabet)
    PROVE  QuotedSymbol(Scan(token, Quoted(ch) \o more, FALSE)) = Scan(Append(token, ch), more, FALSE)
<1> DEFINE q == Quoted(ch)
           r == q \o more
           s == Scan(token, r, FALSE)
<1> SUFFICES QuotedSymbol(s) = Scan(Append(token, ch), more, FALSE)
  BY Zenon
<1>1. ~s.closed /\ s.rest = r /\ s.token = token
  BY Zenon DEF Scan
<1> HIDE DEF s
<1>2. QuotedSymbol(s) =
         IF r = <<>> THEN s
         ELSE IF Head(r) = DQ THEN Scan(token, Tail(r), TRUE)
         ELSE IF Head(r) = BS /\ Len(r) > 1 THEN Scan(token \o Escape(r[2]), From(r, 3), FALSE)
         ELSE Scan(Append(token, Head(r)), Tail(r), FALSE)
  <2> HIDE DEF r
  <2> QED BY <1>1, Zenon DEF QuotedSymbol
<1>3. q \in Seq(Alphabet) /\ q # <<>>
  BY QuotedTyped
<1>4. Joins(r, q, more, Alphabet)
  <2> HIDE DEF q
  <2> QED BY <1>3, ConcatJoins
<1> HIDE DEF r
<1>5. ASSUME NEW c \in Alphabet, q = <<BS, c>>, Escape(c) = <<ch>>
      PROVE  QuotedSymbol(s) = Scan(Append(token, ch), more, FALSE)
  <2> HIDE DEF q
  <2>1. Len(q) = 2 /\ q[1] = BS /\ q[2] = c /\ 1 \in 1 .. 2 /\ 2 \in 1 .. 2
    BY <1>5
  <2>2. /\ r \in Seq(Alphabet) /\ Len(r) = 2 + Len(more) /\ Len(more) \in Nat
        /\ r[1] = BS /\ r[2] = c /\ \A i \in 1 .. Len(more) : r[2 + i] = more[i]
    BY <1>4, <2>1, Zenon DEF Joins
  <2>3. r # <<>> /\ Head(r) = BS /\ Len(r) > 1 /\ BS # DQ
    BY <2>2 DEF BS, DQ
  <2>4. From(r, 3) = more
    <3> DEFINE t == From(r, 3)
    <3>1. t \in Seq(Alphabet) /\ Len(t) = Len(more) /\ \A i \in 1 .. Len(more) : t[i] = r[2 + i]
      BY <2>2 DEF From
    <3> HIDE DEF t
    <3> QED BY <2>2, <3>1, SeqEqual DEF t
  <2>5. token \o <<ch>> = Append(token, ch)
    OBVIOUS
  <2> QED BY <1>2, <1>5, <2>2, <2>3, <2>4, <2>5, Zenon
<1>6. CASE ch \in {DQ, BS}
  <2>1. q = <<BS, ch>> /\ Escape(ch) = <<ch>>
    BY <1>6 DEF Quoted, Escape, DQ, BS, LF, TAB
  <2> HIDE DEF q
  <2> QED BY <1>5, <2>1, Zenon
<1>7. CASE ch = LF
  <2>1. q = <<BS, "n">>
    BY <1>7 DEF Quoted, DQ, BS, LF, TAB
  <2>2. Escape("n") = <<ch>> /\ "n" \in Alphabet
    <3>1. "n" \in Alphabet
      BY AlphabetAssumption, Zenon
    <3> QED BY <1>7, <3>1 DEF Escape, DQ, BS, LF, TAB
  <2> HIDE DEF q
  <2> QED BY <1>5, <2>1, <2>2, Zenon
<1>8. CASE ch = TAB
  <2>1. q = <<BS, "t">>
    BY <1>8 DEF Quoted, DQ, BS, LF, TAB
  <2>2. Escape("t") = <<ch>> /\ "t" \in Alphabet
    <3>1. "t" \in Alphabet
      BY AlphabetAssumption, Zenon
    <3> QED BY <1>8, <3>1 DEF Escape, DQ, BS, LF, TAB
  <2> HIDE DEF q
  <2> QED BY <1>5, <2>1, <2>2, Zenon
<1>9. CASE ch \notin {DQ, BS} /\ ch # LF /\ ch # TAB
  <2>1. q = <<ch>>
    BY <1>9 DEF Quoted
  <2> HIDE DEF q
  <2>2. Len(q) = 1 /\ q[1] = ch /\ 1 \in 1 .. 1
    BY <2>1
  <2>3. /\ r \in Seq(Alphabet) /\ Len(r) = 1 + Len(more) /\ Len(more) \in Nat
        /\ r[1] = ch /\ \A i \in 1 .. Len(more) : r[1 + i] = more[i]
    BY <1>4, <2>2, Zenon DEF Joins
  <2>4. r # <<>> /\ Head(r) = ch /\ ch # DQ /\ ch # BS
    BY <1>9, <2>3
  <2>5. Tail(r) = more
    <3> DEFINE t == Tail(r)
    <3>1. t \in Seq(Alphabet) /\ Len(t) = Len(more) /\ \A i \in 1 .. Len(more) : t[i] = r[1 + i]
      BY <2>3
    <3> HIDE DEF t
    <3> QED BY <2>3, <3>1, SeqEqual DEF t
  <2> QED BY <1>2, <2>4, <2>5, Zenon
<1> QED BY <1>6, <1>7, <1>8, <1>9, Zenon

\* The scan of a quoted word finds the word.
LEMMA DoubleQuotedRead ==
    ASSUME NEW word \in Seq(Alphabet), NEW more \in Seq(Alphabet)
    PROVE  DoubleQuoted(FlattenSeq(QuotedSymbols(word)) \o (<<DQ>> \o more)) = Scan(word, more, TRUE)
<1> DEFINE qs == QuotedSymbols(word)
           tail == <<DQ>> \o more
           text == FlattenSeq(qs) \o tail
           N == Len(word)
           M == Len(text)
           start == Scan(<<>>, text, FALSE)
           last == Scan(word, more, TRUE)
           P(f) == f = [k \in 0 .. M |-> IF k = 0 THEN start ELSE QuotedSymbol(f[k - 1])]
<1>1. N \in Nat /\ \A i \in 1 .. N : word[i] \in Alphabet
  OBVIOUS
<1>2. qs \in Seq(Seq(Alphabet)) /\ Len(qs) = N
      /\ \A i \in 1 .. N : qs[i] = Quoted(word[i]) /\ qs[i] # <<>>
  <2> HIDE DEF N
  <2>1. qs = [i \in 1 .. N |-> Quoted(word[i])]
    BY DEF QuotedSymbols, N
  <2>2. \A i \in 1 .. N : Quoted(word[i]) \in Seq(Alphabet) /\ Quoted(word[i]) # <<>>
    BY <1>1, QuotedTyped
  <2> HIDE DEF qs
  <2> QED BY <1>1, <2>1, <2>2
<1>3. /\ tail \in Seq(Alphabet) /\ Len(tail) = 1 + Len(more) /\ Len(more) \in Nat
      /\ Head(tail) = DQ /\ Tail(tail) = more /\ tail # <<>>
  <2> DEFINE one == <<DQ>>
  <2>1. one \in Seq(Alphabet) /\ Len(one) = 1 /\ one[1] = DQ /\ 1 \in 1 .. 1
    BY MarksInAlphabet
  <2> HIDE DEF one
  <2>2. Joins(one \o more, one, more, Alphabet)
    BY <2>1, ConcatJoins
  <2>3. Joins(tail, one, more, Alphabet)
    BY <2>2 DEF one
  <2> HIDE DEF tail
  <2>4. /\ tail \in Seq(Alphabet) /\ Len(tail) = 1 + Len(more) /\ Len(more) \in Nat
        /\ tail[1] = DQ /\ \A i \in 1 .. Len(more) : tail[1 + i] = more[i]
    BY <2>1, <2>3, Zenon DEF Joins
  <2>5. Head(tail) = DQ /\ tail # <<>>
    BY <2>4
  <2> DEFINE t == Tail(tail)
  <2>6. t \in Seq(Alphabet) /\ Len(t) = Len(more) /\ \A i \in 1 .. Len(more) : t[i] = tail[1 + i]
    BY <2>4
  <2> HIDE DEF t
  <2>7. t = more
    BY <2>4, <2>6, SeqEqual
  <2> QED BY <2>4, <2>5, <2>7 DEF t
<1> HIDE DEF qs, tail, N
<1>4. N + 1 \in 0 .. M /\ M \in Nat
  <2>1. FlattenSeq(qs) \in Seq(Alphabet) /\ N <= Len(FlattenSeq(qs))
    <3>1. qs \in Seq(Seq(Alphabet)) /\ \A i \in 1 .. Len(qs) : qs[i] # <<>>
      BY <1>2
    <3> QED BY <1>2, <3>1, PiecesFrames
  <2>2. Joins(text, FlattenSeq(qs), tail, Alphabet)
    BY <1>3, <2>1, ConcatJoins
  <2> HIDE DEF text
  <2> QED BY <1>1, <1>3, <2>1, <2>2 DEF Joins
<1>5. PICK h : /\ h[0] = text /\ h[N] = tail
               /\ \A k \in 0 .. N : h[k] \in Seq(Alphabet)
               /\ \A k \in 0 .. (N - 1) : h[k] = qs[k + 1] \o h[k + 1]
  <2>1. qs \in Seq(Seq(Alphabet)) /\ \A i \in 1 .. Len(qs) : qs[i] # <<>>
    BY <1>2
  <2>2. tail \in Seq(Alphabet) /\ Len(qs) = N
    BY <1>2, <1>3
  <2>3. PICK h : Leaves(h, qs, tail, Alphabet)
    BY <2>1, <2>2, PiecesLeft
  <2> QED BY <2>2, <2>3, Zenon DEF Leaves
<1> HIDE DEF text, M
<1>6. PICK f : Runs(f, "quoted", text, start, M) /\ DoubleQuoted(text) = f[M]
  <2>1. \A f : P(f) <=> Runs(f, "quoted", text, start, M)
    <3> HIDE DEF start
    <3> QED BY DEF Runs, Turn
  <2>2. \E f : P(f)
    <3> HIDE DEF P, start
    <3>1. M \in Nat
      BY <1>4
    <3>2. \E f : Runs(f, "quoted", text, start, M)
      BY <3>1, RunsExist, Zenon
    <3> QED BY <2>1, <3>2, Zenon
  <2>3. DoubleQuoted(text) = (CHOOSE f : P(f))[M]
    BY Zenon DEF DoubleQuoted, M
  <2> HIDE DEF P, start
  <2>4. P(CHOOSE f : P(f))
    BY <2>2, Zenon
  <2> QED BY <2>1, <2>3, <2>4, Zenon
<1> DEFINE g == [k \in 0 .. N + 1 |-> IF k <= N THEN Scan(SubSeq(word, 1, k), h[k], FALSE) ELSE last]
<1>7. \A s, n : Turn("quoted", text, s, n) = QuotedSymbol(s)
  BY DEF Turn
<1>8. /\ \A k \in 0 .. N : g[k] = Scan(SubSeq(word, 1, k), h[k], FALSE)
      /\ g[N + 1] = last
  <2> HIDE DEF last
  <2>1. N + 1 \in 0 .. N + 1 /\ ~(N + 1 <= N) /\ \A k \in 0 .. N : k \in 0 .. N + 1 /\ k <= N
    BY <1>1
  <2> QED BY <2>1, Zenon
<1> HIDE DEF g
<1>9. g[0] = start
  <2>1. SubSeq(word, 1, 0) = <<>> /\ 0 \in 0 .. N
    BY <1>1
  <2> QED BY <1>5, <1>8, <2>1, Zenon
<1>10. ASSUME NEW k \in 0 .. N PROVE QuotedSymbol(g[k]) = g[k + 1]
  <2>1. CASE k = N
    <3> DEFINE s == Scan(word, tail, FALSE)
    <3>1. SubSeq(word, 1, N) = word /\ N \in 0 .. N
      BY <1>1, SubSeqFull DEF N
    <3>2. g[k] = s /\ g[k + 1] = last
      BY <1>5, <1>8, <2>1, <3>1, Zenon
    <3>3. ~s.closed /\ s.rest = tail /\ s.token = word
      BY Zenon DEF Scan
    <3> HIDE DEF s
    <3>4. QuotedSymbol(s) = Scan(word, more, TRUE)
      BY <1>3, <3>3, Zenon DEF QuotedSymbol
    <3> QED BY <3>2, <3>4, Zenon
  <2>2. CASE k # N
    <3>1. k \in 0 .. (N - 1) /\ k + 1 \in 1 .. N /\ k + 1 \in 0 .. N
      BY <1>1, <2>2
    <3> DEFINE ch == word[k + 1]
               token == SubSeq(word, 1, k)
               next == h[k + 1]
    <3>2. ch \in Alphabet /\ token \in Seq(Alphabet) /\ next \in Seq(Alphabet)
      BY <1>1, <1>5, <3>1 DEF N
    <3>3. h[k] = Quoted(ch) \o next
      BY <1>2, <1>5, <3>1, Zenon
    <3>4. Append(token, ch) = SubSeq(word, 1, k + 1)
      <4>1. k \in 0 .. (Len(word) - 1)
        BY <3>1 DEF N
      <4> QED BY <4>1, SubSeqMore
    <3>5. g[k] = Scan(token, Quoted(ch) \o next, FALSE) /\ g[k + 1] = Scan(SubSeq(word, 1, k + 1), next, FALSE)
      BY <1>8, <3>1, <3>3, Zenon
    <3> HIDE DEF ch, token, next
    <3>6. QuotedSymbol(Scan(token, Quoted(ch) \o next, FALSE)) = Scan(Append(token, ch), next, FALSE)
      BY <3>2, QuotedStep, Zenon
    <3> QED BY <3>4, <3>5, <3>6, Zenon
  <2> QED BY <2>1, <2>2
<1>11. QuotedSymbol(last) = last
  <2>1. last.closed
    BY Zenon DEF Scan
  <2> HIDE DEF last
  <2> QED BY <2>1, Zenon DEF QuotedSymbol
<1>12. f[M] = g[N + 1]
  <2> DEFINE end == N + 1
  <2>1. end \in 0 .. M /\ \A k \in 0 .. (end - 1) : k \in 0 .. N
    BY <1>1, <1>4
  <2> HIDE DEF start, end, last
  <2>2. \A k \in 0 .. (end - 1) : \A n : Turn("quoted", text, g[k], n) = g[k + 1]
    BY <1>7, <1>10, <2>1, Zenon
  <2>3. \A n : Turn("quoted", text, g[end], n) = g[end]
    BY <1>7, <1>8, <1>11, Zenon DEF end
  <2>4. Steps(g, "quoted", text, end) /\ M \in Nat /\ end \in 0 .. M
    BY <1>4, <2>1, <2>2, <2>3, Zenon DEF Steps
  <2>5. Runs(f, "quoted", text, start, M)
    BY <1>6
  <2>6. f[M] = g[end]
    BY <1>9, <2>4, <2>5, RunsReach
  <2> QED BY <2>6 DEF end
<1> QED BY <1>6, <1>8, <1>12, Zenon DEF text, tail, qs

\* A word as it stands in a line: after a space, in double quotes.
LineWord(word) == <<SP>> \o Quote(word)

\* A word of a line: a space, and its symbols between quotes.
LEMMA LineWordIs ==
    ASSUME NEW word \in Seq(Alphabet)
    PROVE  LET qs == QuotedSymbols(word)
           IN  /\ FlattenSeq(qs) \in Seq(Alphabet)
               /\ \A i \in 1 .. Len(FlattenSeq(qs)) : FlattenSeq(qs)[i] # LF
               /\ LineWord(word) = <<SP>> \o ((<<DQ>> \o FlattenSeq(qs)) \o <<DQ>>)
<1> DEFINE qs == QuotedSymbols(word)
           body == FlattenSeq(qs)
           N == Len(word)
           NotLF == Alphabet \ {LF}
<1>1. N \in Nat /\ \A i \in 1 .. N : word[i] \in Alphabet
  OBVIOUS
<1>2. qs \in Seq(Seq(NotLF)) /\ \A i \in 1 .. Len(qs) : qs[i] # <<>>
  <2> HIDE DEF N, NotLF
  <2>1. qs = [i \in 1 .. N |-> Quoted(word[i])]
    BY DEF QuotedSymbols, N
  <2>2. \A i \in 1 .. N : Quoted(word[i]) \in Seq(NotLF) /\ Quoted(word[i]) # <<>>
    <3> SUFFICES ASSUME NEW i \in 1 .. N PROVE Quoted(word[i]) \in Seq(NotLF) /\ Quoted(word[i]) # <<>>
      OBVIOUS
    <3> DEFINE q == Quoted(word[i])
    <3>1. q \in Seq(Alphabet) /\ q # <<>> /\ \A j \in 1 .. Len(q) : q[j] # LF
      BY <1>1, QuotedTyped
    <3> HIDE DEF q
    <3> QED BY <3>1 DEF NotLF, q
  <2> HIDE DEF qs
  <2> QED BY <1>1, <2>1, <2>2
<1> HIDE DEF qs
<1>3. body \in Seq(NotLF)
  <2> HIDE DEF NotLF
  <2> QED BY <1>2, PiecesFrames
<1> HIDE DEF body
<1>4. body \in Seq(Alphabet) /\ \A i \in 1 .. Len(body) : body[i] # LF
  BY <1>3
<1>5. Quote(word) = <<DQ>> \o body \o <<DQ>>
  BY Zenon DEF Quote, Quoted, QuotedSymbols, qs, body
<1> QED BY <1>4, <1>5, Zenon DEF LineWord, qs, body

\* A round of tokenize takes the next word of the line.
LEMMA TokenStep ==
    ASSUME NEW word \in Seq(Alphabet), NEW tokens, NEW more \in Seq(Alphabet)
    PROVE  /\ NextToken(Tokens(tokens, LineWord(word) \o more)) = Tokens(Append(tokens, word), more)
           /\ LineWord(word) \in Seq(Alphabet) /\ LineWord(word) # <<>>
           /\ \A i \in 1 .. Len(LineWord(word)) : LineWord(word)[i] # LF
           /\ Len(LineWord(word)) >= 2 /\ LineWord(word)[1] = SP /\ LineWord(word)[2] = DQ
<1> DEFINE body == FlattenSeq(QuotedSymbols(word))
           sp == <<SP>>
           dq == <<DQ>>
           lw == LineWord(word)
           tail == dq \o more
           scanned == body \o tail
           text == dq \o scanned
           rest == lw \o more
           s == Tokens(tokens, rest)
<1>1. body \in Seq(Alphabet) /\ (\A i \in 1 .. Len(body) : body[i] # LF) /\ lw = sp \o ((dq \o body) \o dq)
  BY LineWordIs, Zenon
<1>2. /\ sp \in Seq(Alphabet) /\ Len(sp) = 1 /\ sp[1] = SP
      /\ dq \in Seq(Alphabet) /\ Len(dq) = 1 /\ dq[1] = DQ /\ 1 \in 1 .. 1
      /\ SP # LF /\ DQ # LF
  BY MarksInAlphabet DEF SP, DQ, LF
<1> HIDE DEF body, sp, dq, lw
<1>3. scanned \in Seq(Alphabet) /\ tail \in Seq(Alphabet)
  BY <1>1, <1>2, ConcatProperties
<1>4. rest = sp \o text
  <2> DEFINE a == dq \o body
  <2>1. a \in Seq(Alphabet) /\ a \o dq \in Seq(Alphabet)
    BY <1>1, <1>2, ConcatProperties
  <2> DEFINE b == a \o dq
  <2>2. sp \in Seq(Alphabet) /\ dq \in Seq(Alphabet)
    BY <1>2
  <2>3. (sp \o b) \o more = sp \o (b \o more)
    <3>1. b \in Seq(Alphabet)
      BY <2>1
    <3> HIDE DEF b
    <3> QED BY <2>2, <3>1, ConcatAssociative
  <2>4. (a \o dq) \o more = a \o (dq \o more)
    <3>1. a \in Seq(Alphabet)
      BY <2>1
    <3> HIDE DEF a
    <3> QED BY <2>2, <3>1, ConcatAssociative
  <2>5. (dq \o body) \o tail = dq \o (body \o tail)
    <3>1. dq \in Seq(Alphabet) /\ body \in Seq(Alphabet) /\ tail \in Seq(Alphabet)
      BY <1>1, <1>3, <2>2
    <3>2. \A x, y, z \in Seq(Alphabet) : (x \o y) \o z = x \o (y \o z)
      BY ConcatAssociative
    <3> HIDE DEF tail
    <3> QED BY <3>1, <3>2, Zenon
  <2> QED BY <1>1, <2>3, <2>4, <2>5, Zenon
<1> HIDE DEF scanned
<1>5. Joins(text, dq, scanned, Alphabet)
  BY <1>2, <1>3, ConcatJoins
<1> HIDE DEF text
<1>6. /\ text \in Seq(Alphabet) /\ Len(text) = 1 + Len(scanned) /\ Len(scanned) \in Nat
      /\ text[1] = DQ /\ \A i \in 1 .. Len(scanned) : text[1 + i] = scanned[i]
  BY <1>2, <1>5, Zenon DEF Joins
<1>7. text # <<>> /\ Head(text) = DQ /\ Tail(text) = scanned
  <2> DEFINE t == Tail(text)
  <2>1. text # <<>> /\ Head(text) = DQ
    BY <1>6
  <2>2. t \in Seq(Alphabet) /\ Len(t) = Len(scanned) /\ \A i \in 1 .. Len(scanned) : t[i] = text[1 + i]
    BY <1>6
  <2> HIDE DEF t
  <2>3. t = scanned
    BY <1>3, <1>6, <2>2, SeqEqual
  <2> QED BY <2>1, <2>3 DEF t
<1>8. SkipSpace(rest) = text
  <2> DEFINE u == sp \o text
             I == {i \in 1 .. Len(u) : NotSpace(u[i])}
  <2>1. Joins(u, sp, text, Alphabet)
    BY <1>2, <1>6, ConcatJoins
  <2> HIDE DEF u
  <2>2. /\ u \in Seq(Alphabet) /\ Len(u) = 1 + Len(text) /\ Len(text) \in Nat
        /\ u[1] = SP /\ \A i \in 1 .. Len(text) : u[1 + i] = text[i]
    BY <1>2, <2>1, Zenon DEF Joins
  <2>3. 1 \in 1 .. Len(text) /\ 1 + 1 = 2
    BY <1>6
  <2>4. u[2] = DQ
    BY <1>6, <2>2, <2>3, Zenon
  <2>5. ~NotSpace(SP) /\ NotSpace(DQ)
    BY DEF NotSpace, IsSpace, SP, DQ, CR, LF, TAB
  <2>6. I # {} /\ Min(I) = 2
    <3>1. 2 \in 1 .. Len(u) /\ Len(u) \in Nat
      BY <1>6, <2>2
    <3>2. 2 \in I /\ I \in SUBSET (1 .. Len(u)) /\ 1 \notin I
      BY <2>2, <2>4, <2>5, <3>1
    <3>3. \A j \in 1 .. (2 - 1) : j \notin I
      BY <3>2
    <3> HIDE DEF I
    <3> QED BY <3>1, <3>2, <3>3, FirstIs, Zenon
  <2>7. SelectInSeq(u, NotSpace) = 2
    BY <2>6, Zenon DEF SelectInSeq
  <2>8. From(u, 2) = text
    <3> DEFINE t == From(u, 2)
    <3>1. t \in Seq(Alphabet) /\ Len(t) = Len(text) /\ \A i \in 1 .. Len(text) : t[i] = u[1 + i]
      BY <2>2 DEF From
    <3> HIDE DEF t
    <3>2. t = text
      BY <1>6, <2>2, <3>1, SeqEqual, Zenon
    <3> QED BY <3>2 DEF t
  <2>9. SkipSpace(u) = text
    <3>1. 2 # 0
      OBVIOUS
    <3> QED BY <2>7, <2>8, <3>1, Zenon DEF SkipSpace
  <2> HIDE DEF rest
  <2> QED BY <1>4, <2>9, Zenon DEF u
<1> HIDE DEF rest
<1>9. DoubleQuoted(scanned) = Scan(word, more, TRUE)
  BY DoubleQuotedRead, Zenon DEF scanned, tail, body, dq
<1>10. NextToken(s) = Tokens(Append(tokens, word), more)
  <2> DEFINE next == DoubleQuoted(scanned)
  <2>1. next.token = word /\ next.rest = more
    <3> DEFINE found == Scan(word, more, TRUE)
    <3>1. found.token = word /\ found.rest = more
      BY Zenon DEF Scan
    <3> HIDE DEF found
    <3> QED BY <1>9, <3>1, Zenon DEF found
  <2>2. s.rest = rest /\ s.tokens = tokens
    BY DEF Tokens
  <2> HIDE DEF s, next
  <2>3. NextToken(s) = Tokens(Append(tokens, next.token), next.rest)
    <3>1. (CASE Head(text) = DQ -> DoubleQuoted(Tail(text))
             [] Head(text) = SQ -> SingleQuoted(Tail(text))
             [] OTHER -> Unquoted(text)) = next
      BY <1>7, Zenon DEF next, DQ, SQ
    <3> QED BY <1>7, <1>8, <2>2, <3>1, Zenon DEF NextToken
  <2> QED BY <2>1, <2>3, Zenon
<1>11. /\ lw \in Seq(Alphabet) /\ lw # <<>> /\ \A i \in 1 .. Len(lw) : lw[i] # LF
       /\ Len(lw) >= 2 /\ lw[1] = SP /\ lw[2] = DQ
  <2> DEFINE a == dq \o body
             b == a \o dq
  <2>1. Joins(a, dq, body, Alphabet)
    BY <1>1, <1>2, ConcatJoins
  <2> HIDE DEF a
  <2>2. /\ a \in Seq(Alphabet) /\ Len(a) = 1 + Len(body) /\ Len(body) \in Nat
        /\ a[1] = DQ /\ \A i \in 1 .. Len(body) : a[1 + i] = body[i]
    BY <1>2, <2>1, Zenon DEF Joins
  <2>3. Joins(b, a, dq, Alphabet)
    BY <1>2, <2>2, ConcatJoins
  <2> HIDE DEF b
  <2>4. /\ b \in Seq(Alphabet) /\ Len(b) = Len(a) + 1
        /\ (\A i \in 1 .. Len(a) : b[i] = a[i]) /\ b[Len(a) + 1] = DQ
    BY <1>2, <2>3, Zenon DEF Joins
  <2>5. Joins(sp \o b, sp, b, Alphabet)
    BY <1>2, <2>4, ConcatJoins
  <2>6. lw = sp \o b
    BY <1>1, Zenon DEF b, a
  <2>7. Joins(lw, sp, b, Alphabet)
    BY <2>5, <2>6, Zenon
  <2>8. /\ lw \in Seq(Alphabet) /\ Len(lw) = 1 + Len(b) /\ lw[1] = SP
        /\ \A i \in 1 .. Len(b) : lw[1 + i] = b[i]
    BY <1>2, <2>7, Zenon DEF Joins
  <2>9. Len(lw) = Len(body) + 3 /\ lw[2] = DQ /\ lw[Len(body) + 3] = DQ
        /\ \A i \in 1 .. Len(body) : lw[2 + i] = body[i]
    <3>1. /\ 1 \in 1 .. Len(a) /\ 1 \in 1 .. Len(b) /\ 1 + 1 = 2 /\ Len(lw) = Len(body) + 3
          /\ Len(a) + 1 \in 1 .. Len(b) /\ 1 + (Len(a) + 1) = Len(body) + 3
      BY <2>2, <2>4, <2>8
    <3>2. \A i \in 1 .. Len(body) : 1 + i \in 1 .. Len(a) /\ 1 + i \in 1 .. Len(b) /\ 1 + (1 + i) = 2 + i
      BY <2>2, <2>4
    <3>3. lw[2] = DQ
      BY <2>2, <2>4, <2>8, <3>1, Zenon
    <3>4. lw[Len(body) + 3] = DQ
      BY <2>4, <2>8, <3>1, Zenon
    <3>5. \A i \in 1 .. Len(body) : lw[2 + i] = body[i]
      BY <2>2, <2>4, <2>8, <3>2, Zenon
    <3> QED BY <3>1, <3>3, <3>4, <3>5, Zenon
  <2>10. ASSUME NEW i \in 1 .. Len(lw) PROVE lw[i] # LF
    <3>1. i = 1 \/ i = 2 \/ i = Len(body) + 3 \/ (i - 2 \in 1 .. Len(body) /\ 2 + (i - 2) = i)
      BY <2>2, <2>9
    <3>2. CASE i - 2 \in 1 .. Len(body) /\ 2 + (i - 2) = i
      BY <1>1, <2>9, <3>2, Zenon
    <3> QED BY <1>2, <2>8, <2>9, <3>1, <3>2, Zenon
  <2> QED BY <2>2, <2>8, <2>9, <2>10
<1> QED BY <1>10, <1>11, Zenon DEF s, rest, lw

\* The words of a line.
LineWords(words) == [i \in 1 .. Len(words) |-> LineWord(words[i])]

\* A line of quoted words starts with a space and a quote, and has no newline
\* before its end.
LEMMA LineTyped ==
    ASSUME NEW words \in Words
    PROVE  LET ws == LineWords(words)
               line == FlattenSeq(ws)
           IN  /\ ws \in Seq(Seq(Alphabet)) /\ Len(ws) = Len(words)
               /\ \A i \in 1 .. Len(ws) : ws[i] # <<>> /\ ws[i] = LineWord(words[i])
               /\ line \in Seq(Alphabet) /\ Len(words) <= Len(line)
               /\ \A i \in 1 .. Len(line) : line[i] # LF
               /\ Len(line) >= 2 /\ line[1] = SP /\ line[2] = DQ
<1> DEFINE ws == LineWords(words)
           line == FlattenSeq(ws)
           K == Len(words)
           NotLF == Alphabet \ {LF}
           Good(lw) == /\ lw \in Seq(NotLF) /\ lw # <<>> /\ Len(lw) >= 2 /\ lw[1] = SP /\ lw[2] = DQ
<1>1. K \in Nat \ {0} /\ \A i \in 1 .. K : words[i] \in Seq(Alphabet)
  BY PartsFrames
<1>2. \A i \in 1 .. K : Good(LineWord(words[i]))
  <2> HIDE DEF K
  <2> SUFFICES ASSUME NEW i \in 1 .. K PROVE Good(LineWord(words[i]))
    OBVIOUS
  <2> DEFINE lw == LineWord(words[i])
  <2>1. <<>> \in Seq(Alphabet) /\ words[i] \in Seq(Alphabet)
    BY <1>1
  <2>2. /\ lw \in Seq(Alphabet) /\ lw # <<>> /\ \A j \in 1 .. Len(lw) : lw[j] # LF
        /\ Len(lw) >= 2 /\ lw[1] = SP /\ lw[2] = DQ
    BY <2>1, TokenStep, Zenon
  <2> HIDE DEF lw
  <2>3. lw \in Seq(NotLF)
    BY <2>2
  <2> QED BY <2>2, <2>3, Zenon DEF lw
<1> HIDE DEF K, Good, NotLF
<1>3. ws = [i \in 1 .. K |-> LineWord(words[i])]
  BY DEF LineWords, K
<1> HIDE DEF ws
<1>4. /\ Len(ws) = K /\ \A i \in 1 .. K : ws[i] = LineWord(words[i]) /\ Good(ws[i])
      /\ \A i \in 1 .. K : ws[i] \in Seq(NotLF)
  <2>1. Len(ws) = K /\ \A i \in 1 .. K : ws[i] = LineWord(words[i])
    BY <1>1, <1>3
  <2>2. \A i \in 1 .. K : Good(ws[i])
    BY <1>2, <2>1, Zenon
  <2> QED BY <2>1, <2>2, Zenon DEF Good
<1>5. ws \in Seq(Seq(NotLF)) /\ \A i \in 1 .. Len(ws) : ws[i] # <<>>
  <2>1. ws \in Seq(Seq(NotLF))
    BY <1>1, <1>3, <1>4
  <2>2. \A i \in 1 .. K : ws[i] # <<>>
    BY <1>4, Zenon DEF Good
  <2> QED BY <1>4, <2>1, <2>2, Zenon
<1>6. /\ Pieces(ws) \in Streams(NotLF, {}) /\ Len(Pieces(ws)) = K /\ BytesOf(Pieces(ws)) = line
      /\ line \in Seq(NotLF) /\ K <= Len(line)
      /\ \A i \in 1 .. K : Pieces(ws)[i].bytes = ws[i]
  BY <1>4, <1>5, PiecesFrames
<1>7. line[1] = SP /\ line[2] = DQ /\ Len(line) >= 2
  <2> DEFINE fs == Pieces(ws)
             b == fs[0 + 1].bytes
  <2> HIDE DEF fs, line
  <2>1. fs \in Streams(NotLF, {}) /\ 0 \in 0 .. (Len(fs) - 1) /\ 0 + 1 \in 1 .. K /\ Len(fs) \in Nat
    BY <1>1, <1>6 DEF fs
  <2>2. /\ Offset(fs, 0) \in Nat /\ Offset(fs, 0 + 1) = Offset(fs, 0) + Len(b)
        /\ Offset(fs, 0 + 1) <= Len(BytesOf(fs)) /\ b \in Seq(NotLF)
        /\ \A i \in 1 .. Len(b) : BytesOf(fs)[Offset(fs, 0) + i] = b[i]
    BY <2>1, FrameAt
  <2>3. Laid(fs)
    BY <2>1, FramesLaid DEF Streams
  <2>4. Offset(fs, 0) = 0
    BY <2>3, Zenon DEF Laid
  <2>5. Good(b)
    BY <1>4, <1>6, <2>1, Zenon DEF fs
  <2>6. Len(b) >= 2 /\ b[1] = SP /\ b[2] = DQ
    BY <2>5, Zenon DEF Good
  <2> HIDE DEF b
  <2>7. 1 \in 1 .. Len(b) /\ 2 \in 1 .. Len(b) /\ 0 + 1 = 1 /\ 0 + 2 = 2 /\ Len(b) \in Nat
    BY <2>2, <2>6
  <2>8. line[0 + 1] = SP /\ line[0 + 2] = DQ
    BY <1>6, <2>2, <2>4, <2>6, <2>7, Zenon DEF fs
  <2>9. Len(line) >= 2
    <3>1. Len(b) <= Len(line) /\ Len(line) \in Nat
      BY <1>6, <2>2, <2>4, <2>7 DEF fs
    <3> QED BY <2>6, <2>7, <3>1
  <2> QED BY <2>7, <2>8, <2>9, Zenon
<1>8. line \in Seq(Alphabet) /\ \A i \in 1 .. Len(line) : line[i] # LF
  <2> HIDE DEF line
  <2> QED BY <1>6 DEF NotLF
<1>9. ws \in Seq(Seq(Alphabet))
  <2>1. Seq(NotLF) \subseteq Seq(Alphabet)
    BY SeqMonotonic DEF NotLF
  <2> QED BY <1>5, <2>1, SeqMonotonic
<1> QED BY <1>4, <1>5, <1>6, <1>7, <1>8, <1>9, Zenon DEF ws, K

\* tokenize finds the words of a line.
LEMMA TokenizeRead ==
    ASSUME NEW words \in Words
    PROVE  tokenize(FlattenSeq(LineWords(words))) = words
<1> DEFINE ws == LineWords(words)
           line == FlattenSeq(ws)
           N == Len(words)
           M == Len(line)
           none == <<>>
           start == Tokens(none, line)
           P(f) == f = [k \in 0 .. M |-> IF k = 0 THEN start ELSE NextToken(f[k - 1])]
<1>1. words \in Seq(Seq(Alphabet)) /\ N \in Nat /\ \A i \in 1 .. N : words[i] \in Seq(Alphabet)
  BY DEF Words
<1>2. /\ ws \in Seq(Seq(Alphabet)) /\ Len(ws) = N /\ line \in Seq(Alphabet) /\ N <= M
      /\ \A i \in 1 .. Len(ws) : ws[i] # <<>> /\ ws[i] = LineWord(words[i])
  BY LineTyped, Zenon
<1>3. none \in Seq(Alphabet) /\ line \o none = line /\ M \in Nat /\ N \in 0 .. M
  <2> HIDE DEF line
  <2>1. line \o none = line
    BY <1>2, ConcatEmptySeq
  <2> QED BY <1>1, <1>2, <2>1
<1> HIDE DEF ws, N, M, none
<1>4. PICK h : Leaves(h, ws, none, Alphabet)
  BY <1>2, <1>3, PiecesLeft
<1>5. /\ h[0] = line /\ h[N] = none /\ \A k \in 0 .. N : h[k] \in Seq(Alphabet)
      /\ \A k \in 0 .. (N - 1) : h[k] = ws[k + 1] \o h[k + 1]
  BY <1>2, <1>3, <1>4, Zenon DEF Leaves
<1> HIDE DEF line
<1>6. PICK f : Runs(f, "tokens", line, start, M) /\ tokenize(line) = f[M].tokens
  <2>1. \A f : P(f) <=> Runs(f, "tokens", line, start, M)
    <3> HIDE DEF start
    <3> QED BY DEF Runs, Turn
  <2>2. \E f : P(f)
    <3> HIDE DEF P, start
    <3>1. \E f : Runs(f, "tokens", line, start, M)
      BY <1>3, RunsExist, Zenon
    <3> QED BY <2>1, <3>1, Zenon
  <2>3. tokenize(line) = (CHOOSE f : P(f))[M].tokens
    BY Zenon DEF tokenize, M, none
  <2> HIDE DEF P, start
  <2>4. P(CHOOSE f : P(f))
    BY <2>2, Zenon
  <2> QED BY <2>1, <2>3, <2>4, Zenon
<1> DEFINE g == [k \in 0 .. N |-> Tokens(SubSeq(words, 1, k), h[k])]
<1>7. \A s, n : Turn("tokens", line, s, n) = NextToken(s)
  BY DEF Turn
<1>8. \A k \in 0 .. N : g[k] = Tokens(SubSeq(words, 1, k), h[k])
  BY Zenon
<1> HIDE DEF g
<1>9. g[0] = start
  <2>1. SubSeq(words, 1, 0) = none /\ 0 \in 0 .. N
    BY <1>1 DEF none
  <2> QED BY <1>5, <1>8, <2>1, Zenon
<1>10. ASSUME NEW k \in 0 .. (N - 1) PROVE NextToken(g[k]) = g[k + 1]
  <2>1. k \in 0 .. N /\ k + 1 \in 1 .. N /\ k + 1 \in 0 .. N /\ k \in 0 .. (Len(words) - 1)
    BY <1>1 DEF N
  <2> DEFINE word == words[k + 1]
             tokens == SubSeq(words, 1, k)
             next == h[k + 1]
  <2>2. word \in Seq(Alphabet) /\ next \in Seq(Alphabet)
    BY <1>1, <1>5, <2>1, Zenon
  <2>3. h[k] = LineWord(word) \o next
    BY <1>2, <1>5, <2>1, Zenon
  <2>4. Append(tokens, word) = SubSeq(words, 1, k + 1)
    BY <1>1, <2>1, SubSeqMore
  <2>5. g[k] = Tokens(tokens, LineWord(word) \o next) /\ g[k + 1] = Tokens(SubSeq(words, 1, k + 1), next)
    BY <1>8, <2>1, <2>3, Zenon
  <2> HIDE DEF word, tokens, next
  <2>6. NextToken(Tokens(tokens, LineWord(word) \o next)) = Tokens(Append(tokens, word), next)
    BY <2>2, TokenStep, Zenon
  <2> QED BY <2>4, <2>5, <2>6, Zenon
<1>11. g[N] = Tokens(words, none) /\ g[N].tokens = words
  <2>1. SubSeq(words, 1, N) = words /\ N \in 0 .. N
    BY <1>1, SubSeqFull DEF N
  <2>2. g[N] = Tokens(words, none)
    BY <1>5, <1>8, <2>1, Zenon
  <2> QED BY <2>2 DEF Tokens
<1>12. NextToken(g[N]) = g[N]
  <2>1. g[N].rest = none
    BY <1>11 DEF Tokens
  <2>2. SkipSpace(none) = <<>>
    <3>1. SelectInSeq(none, NotSpace) = 0
      BY DEF SelectInSeq, none
    <3> QED BY <3>1, Zenon DEF SkipSpace
  <2> DEFINE s == g[N]
  <2> HIDE DEF s
  <2>3. SkipSpace(s.rest) = <<>>
    BY <2>1, <2>2, Zenon DEF s
  <2>4. NextToken(s) = s
    BY <2>3, Zenon DEF NextToken
  <2> QED BY <2>4 DEF s
<1>13. f[M] = g[N]
  <2> HIDE DEF start
  <2>1. Steps(g, "tokens", line, N)
    BY <1>7, <1>10, <1>12, Zenon DEF Steps
  <2>2. Runs(f, "tokens", line, start, M) /\ M \in Nat /\ N \in 0 .. M
    BY <1>3, <1>6
  <2> QED BY <1>9, <2>1, <2>2, RunsReach
<1> QED BY <1>6, <1>11, <1>13, Zenon DEF line, ws

\* The line at the front of the buffer, once it is ended.
LEMMA LineEndRead ==
    ASSUME NEW text \in Seq(Alphabet), \A i \in 1 .. Len(text) : text[i] # LF,
           NEW buf \in Seq(Alphabet), Continues(buf, 0, text \o EOL)
    PROVE  IF Len(text) + 2 <= Len(buf)
           THEN /\ LineEnd(buf) = [line_end |-> Len(text) + 1, consume |-> Len(text) + 2]
                /\ SubSeq(buf, 1, Len(text)) = text
           ELSE LineEnd(buf).line_end = Npos
<1> DEFINE D == Len(text)
           L == Len(buf)
           t == text \o EOL
           crlf == find_crlf(buf, 1)
           newline == SelectInSeq(buf, IsNewline)
<1>1. D \in Nat /\ L \in Nat
  OBVIOUS
<1>2. /\ Len(t) = D + 2 /\ \A i \in 1 .. D : t[i] = text[i]
      /\ t[D + 1] = CR /\ t[D + 2] = LF
  <2> DEFINE e == EOL
  <2>1. e \in Seq(Alphabet) /\ Len(e) = 2 /\ e[1] = CR /\ e[2] = LF /\ 1 \in 1 .. 2 /\ 2 \in 1 .. 2
    BY MarksInAlphabet DEF EOL
  <2> HIDE DEF e
  <2>2. Joins(text \o e, text, e, Alphabet)
    BY <2>1, ConcatJoins
  <2>3. Joins(t, text, e, Alphabet)
    BY <2>2, Zenon DEF e
  <2> HIDE DEF t
  <2> QED BY <2>1, <2>3, Zenon DEF Joins, D
<1> HIDE DEF D, L, t
<1>3. \A i \in 1 .. D + 2 : i <= L => buf[i] = t[i]
  <2>1. \A i \in 1 .. D + 2 : 0 + i = i
    BY <1>1
  <2> QED BY <1>2, <2>1, Zenon DEF Continues, t, L
<1>4. \A i \in 1 .. D + 1 : i <= L => buf[i] # LF
  <2> SUFFICES ASSUME NEW i \in 1 .. D + 1, i <= L PROVE buf[i] # LF
    OBVIOUS
  <2>1. i \in 1 .. D + 2 /\ (i \in 1 .. D \/ i = D + 1)
    BY <1>1
  <2>2. CR # LF
    BY DEF CR, LF
  <2> QED BY <1>2, <1>3, <2>1, <2>2, Zenon DEF D
<1>5. CASE D + 2 <= L
  <2>1. /\ D + 1 \in 1 .. (L - 1) /\ D + 1 \in 1 .. D + 2 /\ D + 1 <= L /\ D + 2 \in 1 .. D + 2
        /\ (D + 1) + 1 = D + 2
    BY <1>1, <1>5
  <2>2. buf[D + 1] = CR /\ buf[(D + 1) + 1] = LF
    BY <1>2, <1>3, <1>5, <2>1, Zenon
  <2>3. ASSUME NEW i \in 1 .. ((D + 1) - 1) PROVE ~(buf[i] = CR /\ buf[i + 1] = LF)
    <3>1. i + 1 \in 1 .. D + 1 /\ i + 1 <= L
      BY <1>1, <1>5
    <3> QED BY <1>4, <3>1, Zenon
  <2>4. crlf = D + 1
    BY <1>1, <2>1, <2>2, <2>3, CrlfIs DEF L
  <2>5. D + 1 # Npos
    BY <1>1 DEF Npos
  <2> HIDE DEF crlf
  <2>6. LineEnd(buf) = [line_end |-> crlf, consume |-> crlf + 1]
    BY <2>4, <2>5, Zenon DEF LineEnd, crlf
  <2>7. SubSeq(buf, 1, D) = text
    <3> DEFINE front == SubSeq(buf, 1, D)
    <3>1. front \in Seq(Alphabet) /\ Len(front) = D /\ \A i \in 1 .. D : front[i] = buf[i]
      BY <1>1, <1>5 DEF L
    <3> HIDE DEF front
    <3>2. ASSUME NEW i \in 1 .. D PROVE front[i] = text[i]
      <4>1. i \in 1 .. D + 2 /\ i <= L
        BY <1>1, <1>5
      <4> QED BY <1>2, <1>3, <3>1, <4>1, Zenon
    <3>3. front = text
      BY <3>1, <3>2, SeqEqual DEF D
    <3> QED BY <3>3 DEF front
  <2> QED BY <1>5, <2>1, <2>4, <2>6, <2>7, Zenon DEF D, L
<1>6. CASE ~(D + 2 <= L)
  <2>1. \A i \in 1 .. L : i \in 1 .. D + 1 /\ i <= L
    BY <1>1, <1>6
  <2>2. \A i \in 1 .. L : buf[i] # LF
    BY <1>4, <2>1, Zenon
  <2>3. crlf = Npos
    <3>1. \A i \in 1 .. (L - 1) : i + 1 \in 1 .. L
      BY <1>1
    <3>2. \A i \in 1 .. (Len(buf) - 1) : ~(buf[i] = CR /\ buf[i + 1] = LF)
      BY <2>2, <3>1, Zenon DEF L
    <3> QED BY <3>2, NoCrlf
  <2>4. newline = Npos
    <3>1. {i \in 1 .. L : IsNewline(buf[i])} = {}
      BY <2>2 DEF IsNewline
    <3> QED BY <3>1 DEF SelectInSeq, L, Npos
  <2> HIDE DEF crlf, newline
  <2>5. LineEnd(buf) = [line_end |-> newline, consume |-> newline]
    BY <2>3, Zenon DEF LineEnd, crlf, newline
  <2>6. LineEnd(buf).line_end = Npos
    BY <2>4, <2>5
  <2> QED BY <1>6, <2>6, Zenon DEF D, L
<1> QED BY <1>5, <1>6

\* What parse_command makes of a line that is no array.
LEMMA InlineRead ==
    ASSUME NEW text \in Seq(Alphabet), \A i \in 1 .. Len(text) : text[i] # LF,
           (text \o EOL)[1] # "*", Len(text) + 1 <= InlineLimit,
           NEW buf \in Seq(Alphabet), Continues(buf, 0, text \o EOL)
    PROVE  parse_command(buf) =
             IF Len(text) + 2 <= Len(buf)
             THEN IF Range(text) \subseteq {SP, TAB, CR} THEN NeedMore(Len(text) + 2)
                  ELSE IF ~parse(text).ok THEN ProtocolError
                  ELSE Parsed(parse(text).command, Len(text) + 2)
             ELSE NeedMore(0)
<1> DEFINE D == Len(text)
           L == Len(buf)
           end == LineEnd(buf)
           line == SubSeq(buf, 1, end.line_end - 1)
           result == parse(line)
           cut == NeedMore(0)
<1>1. D \in Nat /\ L \in Nat /\ Len(text \o EOL) = D + 2
  BY DEF EOL
<1>2. IF D + 2 <= L
      THEN end = [line_end |-> D + 1, consume |-> D + 2] /\ SubSeq(buf, 1, D) = text
      ELSE end.line_end = Npos
  BY LineEndRead, Zenon
<1> HIDE DEF D, L, end
<1>3. CASE buf = <<>>
  <2>1. ~(D + 2 <= L)
    BY <1>1, <1>3 DEF L
  <2> QED BY <1>3, <2>1, Zenon DEF parse_command, D, L
<1>4. CASE buf # <<>>
  <2>1. 0 + 1 = 1 /\ 1 <= L /\ Head(buf) = buf[1] /\ 1 \in 1 .. D + 2
    BY <1>1, <1>4 DEF L
  <2>2. buf[1] = (text \o EOL)[1]
    BY <1>1, <2>1, Zenon DEF Continues, L
  <2>3. Head(buf) # "*"
    BY <2>1, <2>2, Zenon
  <2>4. parse_command(buf) =
           IF end.line_end = Npos THEN IF L > InlineLimit THEN ProtocolError ELSE cut
           ELSE IF Range(line) \subseteq {SP, TAB, CR} THEN NeedMore(end.consume)
           ELSE IF ~result.ok THEN ProtocolError
           ELSE Parsed(result.command, end.consume)
    BY <1>4, <2>3, Zenon DEF parse_command, parse_inline, LineResult, end, L
  <2>5. CASE ~(D + 2 <= L)
    <3>1. ~(L > InlineLimit)
      BY <1>1, <2>5, StreamAssumption DEF D
    <3>2. end.line_end = Npos
      BY <1>2, <2>5, Zenon
    <3>3. parse_command(buf) = cut
      BY <2>4, <3>1, <3>2, Zenon
    <3> HIDE DEF cut
    <3> QED BY <2>5, <3>3, Zenon DEF cut, D, L
  <2>6. CASE D + 2 <= L
    <3>1. end = [line_end |-> D + 1, consume |-> D + 2] /\ SubSeq(buf, 1, D) = text
      BY <1>2, <2>6, Zenon
    <3>2. end.line_end = D + 1 /\ end.consume = D + 2 /\ end.line_end # Npos /\ end.line_end - 1 = D
      BY <1>1, <3>1 DEF Npos
    <3>3. line = text
      BY <3>1, <3>2, Zenon
    <3> HIDE DEF line
    <3> QED BY <2>4, <2>6, <3>2, <3>3, Zenon DEF D, L
  <2> QED BY <2>5, <2>6
<1> QED BY <1>3, <1>4

\* The commands that a line can hold.
LineCommands == {words \in Words : Len(FlattenSeq(LineWords(words))) + 1 <= InlineLimit}

\* A line of any quoted words within the limit is clear to process_client.
LEMMA InlineClear ==
    ASSUME NEW words \in LineCommands
    PROVE  LET frame == OfCommand(InlineCommand(words, EOL))
           IN  /\ frame \in FramesOf(Alphabet, CommandItem) /\ frame.bytes # <<>>
               /\ Clear("command", Alphabet, frame)
<1> DEFINE line == FlattenSeq(LineWords(words))
           u == line \o EOL
           command == CommandOf(words)
<1>1. words \in Words /\ Len(line) + 1 <= InlineLimit
  BY DEF LineCommands
<1>2. /\ line \in Seq(Alphabet) /\ Len(line) \in Nat /\ \A i \in 1 .. Len(line) : line[i] # LF
      /\ Len(line) >= 2 /\ line[1] = SP /\ line[2] = DQ
  <2>1. /\ line \in Seq(Alphabet) /\ \A i \in 1 .. Len(line) : line[i] # LF
        /\ Len(line) >= 2 /\ line[1] = SP /\ line[2] = DQ
    BY <1>1, LineTyped, Zenon
  <2> HIDE DEF line
  <2>2. Len(line) \in Nat
    BY <2>1
  <2> QED BY <2>1, <2>2, Zenon
<1>3. parse(line).ok /\ parse(line).command = command
  <2>1. tokenize(line) = words
    BY <1>1, TokenizeRead
  <2>2. words # <<>>
    BY <1>1, PartsFrames
  <2> HIDE DEF line, command
  <2>3. parse(line) = [ok |-> TRUE, command |-> command]
    BY <2>1, <2>2, Zenon DEF parse, command
  <2> QED BY <2>3
<1>4. InlineCommand(words, EOL) = Frame(u, <<command>>)
  BY Zenon DEF InlineCommand, LineWords, LineWord
<1> HIDE DEF line, command
<1>5. u \in Seq(Alphabet) /\ Len(u) = Len(line) + 2 /\ u[1] = line[1] /\ u # <<>>
  <2> DEFINE e == EOL
  <2>1. e \in Seq(Alphabet) /\ Len(e) = 2
    BY MarksInAlphabet DEF EOL
  <2> HIDE DEF e
  <2>2. Joins(line \o e, line, e, Alphabet)
    BY <1>2, <2>1, ConcatJoins
  <2>3. Joins(u, line, e, Alphabet)
    BY <2>2, Zenon DEF e
  <2> HIDE DEF u
  <2>4. 1 \in 1 .. Len(line)
    BY <1>2
  <2>5. u \in Seq(Alphabet) /\ Len(u) = Len(line) + Len(e) /\ u[1] = line[1]
    BY <2>3, <2>4, Zenon DEF Joins
  <2> QED BY <1>2, <2>1, <2>5
<1>6. ~(Range(line) \subseteq {SP, TAB, CR})
  <2>1. 2 \in DOMAIN line
    BY <1>2
  <2>2. line[2] \in Range(line)
    BY <2>1 DEF Range
  <2>3. DQ \notin {SP, TAB, CR}
    BY DEF DQ, SP, TAB, CR
  <2> QED BY <1>2, <2>2, <2>3, Zenon
<1>7. u[1] # "*"
  BY <1>2, <1>5 DEF SP
<1>8. ASSUME NEW buf \in Seq(Alphabet), Continues(buf, 0, u)
      PROVE  parse_command(buf) = IF Len(u) <= Len(buf) THEN Parsed(command, Len(u)) ELSE NeedMore(0)
  <2>1. parse_command(buf) =
             IF Len(line) + 2 <= Len(buf)
             THEN IF Range(line) \subseteq {SP, TAB, CR} THEN NeedMore(Len(line) + 2)
                  ELSE IF ~parse(line).ok THEN ProtocolError
                  ELSE Parsed(parse(line).command, Len(line) + 2)
             ELSE NeedMore(0)
    BY <1>1, <1>2, <1>7, <1>8, InlineRead
  <2> HIDE DEF u
  <2> QED BY <1>3, <1>5, <1>6, <2>1, Zenon
<1> HIDE DEF u
<1> QED BY <1>1, <1>4, <1>5, <1>8, CommandClear, Zenon DEF command

\* Lines of white space.
BlankLines == {text \in Seq({SP, TAB, CR}) : Len(text) + 1 <= InlineLimit}

\* A blank line within the limit is taken and gives nothing (resp.cpp:164-169).
LEMMA BlankClear ==
    ASSUME NEW text \in BlankLines
    PROVE  LET frame == Frame(text \o EOL, <<>>)
           IN  /\ frame \in FramesOf(Alphabet, CommandItem) /\ frame.bytes # <<>>
               /\ Clear("command", Alphabet, frame)
<1> DEFINE u == text \o EOL
           none == <<>>
           frame == Frame(u, none)
<1>1. text \in Seq(Alphabet) /\ Len(text) \in Nat /\ Len(text) + 1 <= InlineLimit
  <2>1. {SP, TAB, CR} \subseteq Alphabet
    BY AlphabetAssumption, Zenon
  <2> QED BY <2>1, SeqMonotonic DEF BlankLines
<1>2. \A i \in 1 .. Len(text) : text[i] \in {SP, TAB, CR}
  BY DEF BlankLines
<1>3. Range(text) \subseteq {SP, TAB, CR}
  BY <1>1, <1>2 DEF Range
<1>4. \A i \in 1 .. Len(text) : text[i] # LF /\ text[i] # "*"
  BY <1>2 DEF SP, TAB, CR, LF
<1>5. u \in Seq(Alphabet) /\ Len(u) = Len(text) + 2 /\ u # <<>> /\ u[1] # "*"
  <2> DEFINE e == EOL
  <2>1. e \in Seq(Alphabet) /\ Len(e) = 2 /\ e[1] # "*"
    BY MarksInAlphabet DEF EOL, CR
  <2> HIDE DEF e
  <2>2. Joins(text \o e, text, e, Alphabet)
    BY <1>1, <2>1, ConcatJoins
  <2>3. Joins(u, text, e, Alphabet)
    BY <2>2, Zenon DEF e
  <2> HIDE DEF u
  <2>4. /\ u \in Seq(Alphabet) /\ Len(u) = Len(text) + Len(e)
        /\ \A i \in 1 .. Len(text) : u[i] = text[i]
        /\ \A i \in 1 .. Len(e) : u[Len(text) + i] = e[i]
    BY <2>3, Zenon DEF Joins
  <2>5. u[1] # "*"
    <3>1. CASE Len(text) = 0
      BY <2>1, <2>4, <3>1
    <3>2. CASE Len(text) # 0
      BY <1>1, <1>4, <2>4, <3>2
    <3> QED BY <3>1, <3>2
  <2> QED BY <1>1, <2>1, <2>4, <2>5
<1>6. ASSUME NEW buf \in Seq(Alphabet), Continues(buf, 0, u)
      PROVE  parse_command(buf) = IF Len(u) <= Len(buf) THEN NeedMore(Len(u)) ELSE NeedMore(0)
  <2>1. parse_command(buf) =
             IF Len(text) + 2 <= Len(buf)
             THEN IF Range(text) \subseteq {SP, TAB, CR} THEN NeedMore(Len(text) + 2)
                  ELSE IF ~parse(text).ok THEN ProtocolError
                  ELSE Parsed(parse(text).command, Len(text) + 2)
             ELSE NeedMore(0)
    BY <1>1, <1>4, <1>5, <1>6, InlineRead
  <2> HIDE DEF u
  <2> QED BY <1>3, <1>5, <2>1, Zenon
<1> HIDE DEF u, none
<1>7. frame = [bytes |-> u, gives |-> none, last |-> FALSE]
  BY Zenon DEF Frame
<1> HIDE DEF frame
<1>8. frame.bytes = u /\ frame.gives = none /\ ~frame.last
  BY <1>7
<1>9. frame \in FramesOf(Alphabet, CommandItem)
  <2>1. none \in Seq(CommandItem)
    BY DEF none
  <2> QED BY <1>5, <1>7, <2>1 DEF FramesOf
<1>10. ASSUME NEW buf \in Seq(Alphabet), Continues(buf, 0, frame.bytes)
       PROVE  IF Len(frame.bytes) <= Len(buf)
              THEN Len(buf) < Len(frame.bytes) + MaxRead => Whole(frame, Round("command", buf))
              ELSE Round("command", buf) = Waits
  <2>1. parse_command(buf) = IF Len(u) <= Len(buf) THEN NeedMore(Len(u)) ELSE NeedMore(0)
    BY <1>6, <1>8, <1>10, Zenon
  <2>2. CASE ~(Len(u) <= Len(buf))
    <3>1. Round("command", buf) = Waits
      BY <2>1, <2>2, RoundOf, Zenon
    <3> QED BY <1>8, <2>2, <3>1, Zenon
  <2>3. CASE Len(u) <= Len(buf)
    <3> DEFINE round == Round("command", buf)
    <3>1. Len(u) \in Nat \ {0}
      BY <1>1, <1>5
    <3>2. round = Takes(none, Len(u))
      BY <2>1, <2>3, <3>1, RoundOf, Zenon DEF none
    <3> HIDE DEF round
    <3>3. Whole(frame, round)
      BY <1>8, <3>2, Zenon DEF Whole
    <3> QED BY <1>8, <2>3, <3>3, Zenon DEF round
  <2> QED BY <2>2, <2>3
<1>11. Clear("command", Alphabet, frame)
  BY <1>5, <1>8, <1>10, ClearIf, Zenon
<1> QED BY <1>5, <1>8, <1>9, <1>11 DEF frame, u, none

-----------------------------------------------------------------------------
(* What clients may send *)

\* Commands of any words, as arrays of bulk strings and as lines that the
\* server's limit allows; blank lines; arrays of no or of a bad number of
\* elements.
CommandFrame ==
    {OfCommand(ArrayCommand(words)) : words \in Words}
      \cup {OfCommand(InlineCommand(words, EOL)) : words \in LineCommands}
      \cup {Frame(text \o EOL, <<>>) : text \in BlankLines}
      \cup {BadCount(text) : text \in NotCounts}

\* Every stream of frames, however it is cut into reads, is executed by the
\* server's loop command by command: the ones whose last byte has arrived, in
\* order and with the words that the sender wrote, whatever symbols these
\* hold, and the connection is given up exactly at QUIT or a malformed count
\* (server.cpp:242-311, resp.cpp:27-185, parser.cpp:7-85).
THEOREM CommandsIntact ==
    ASSUME Commands \subseteq Seq(CommandFrame)
    PROVE  Spec => []CommandsArriveIntact
<1>1. Served("command", Alphabet, CommandItem)
  <2>1. ASSUME NEW frame \in CommandFrame
        PROVE  /\ frame \in FramesOf(Alphabet, CommandItem) /\ frame.bytes # <<>>
               /\ Clear("command", Alphabet, frame)
    <3>1. CASE \E words \in Words : frame = OfCommand(ArrayCommand(words))
      BY <3>1, ArrayClear, Zenon
    <3>2. CASE \E words \in LineCommands : frame = OfCommand(InlineCommand(words, EOL))
      BY <3>2, InlineClear, Zenon
    <3>3. CASE \E text \in BlankLines : frame = Frame(text \o EOL, <<>>)
      BY <3>3, BlankClear, Zenon
    <3>4. CASE \E text \in NotCounts : frame = BadCount(text)
      BY <3>4, BadCountClear, Zenon
    <3> QED BY <3>1, <3>2, <3>3, <3>4, Zenon DEF CommandFrame
  <2>2. Written("command") = Commands
    BY DEF Written
  <2> QED BY <2>1, <2>2, ServedIf, Zenon
<1>2. Init => StreamInv("command")
  BY InitInv
<1>3. StreamInv("command") /\ [Next]_vars => StreamInv("command")'
  BY <1>1, NextInv
<1>4. StreamInv("command") => CommandsArriveIntact
  BY <1>1, InTurnIntact DEF CommandsArriveIntact
<1> QED BY <1>2, <1>3, <1>4, PTL DEF Spec

=============================================================================
