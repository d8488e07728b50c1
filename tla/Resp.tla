-------------------------------- MODULE Resp --------------------------------
(***************************************************************************)
(* The RESP2 wire format on the server's side (src/resp/resp.cpp): parsing *)
(* a command from the front of a connection's read buffer, and turning a   *)
(* handler's textual response into bytes.  A buffer is a sequence of the   *)
(* symbols of Parser; one symbol is one byte.                              *)
(***************************************************************************)
EXTENDS Parser

CONSTANT InlineLimit    \* an unfinished line longer than this is refused

Npos == 0

\* The first position p >= start with CR LF at p, p + 1.
find_crlf(buffer, start) ==
    LET at == {p \in start .. (Len(buffer) - 1) :
                 buffer[p] = CR /\ buffer[p + 1] = LF}
    IN  IF at = {} THEN Npos ELSE Min(at)

Digits == <<"0", "1", "2", "3", "4", "5", "6", "7", "8", "9">>

IsDigit(ch) == ch \in Range(Digits)

NotDigit(ch) == ~IsDigit(ch)

DigitValue(ch) == (CHOOSE i \in 1 .. 10 : Digits[i] = ch) - 1

Signed(text) == text # <<>> /\ Head(text) \in {"-", "+"}

UnsignedPart(text) == IF Signed(text) THEN Tail(text) ELSE text

LeadingDigits(text) ==
    LET end == SelectInSeq(text, NotDigit)
    IN  IF end = 0 THEN text ELSE SubSeq(text, 1, end - 1)

\* The digits std::stoi reads: after white space and a sign, as many as there
\* are; what follows them is ignored.
NumberDigits(text) == LeadingDigits(UnsignedPart(SkipSpace(text)))

\* std::stoll throws unless this holds.
IsNumber(text) == NumberDigits(text) # <<>>

\* The number some digits stand for.
Number(digits) ==
    LET value[i \in 0 .. Len(digits)] ==
            IF i = 0 THEN 0 ELSE 10 * value[i - 1] + DigitValue(digits[i])
    IN  value[Len(digits)]

stoi(text) ==
    LET value == Number(NumberDigits(text))
    IN  IF SkipSpace(text)[1] = "-" THEN -value ELSE value

IntMax == 2147483647

\* std::stoi throws unless this holds.
IsInt(text) == IsNumber(text) /\ stoi(text) >= -IntMax - 1 /\ stoi(text) <= IntMax

Decimal[n \in Nat] ==
    IF n < 10 THEN <<Digits[n + 1]>>
    ELSE Decimal[n \div 10] \o <<Digits[(n % 10) + 1]>>

to_string(n) == IF n < 0 THEN <<"-">> \o Decimal[-n] ELSE Decimal[n]

-----------------------------------------------------------------------------
(* Client to server.  A result is need_more, protocol_error or a command,  *)
(* with the number of bytes it consumes.                                   *)

NeedMore(consumed) == [kind |-> "need_more", consumed |-> consumed]

ProtocolError == [kind |-> "protocol_error", consumed |-> 0]

Parsed(command, consumed) ==
    [kind |-> "ok", command |-> command, consumed |-> consumed]

\* The elements of an array that are read, and where the next one starts.
Bulks(parts, pos) == [kind |-> "ok", parts |-> parts, pos |-> pos]

\* One round of the loop over the elements of an array: the bulk string at
\* s.pos, whose length may be that of the null string, which has no bytes.
BulkString(buffer, s) ==
    LET crlf == find_crlf(buffer, s.pos)
        length == SubSeq(buffer, s.pos + 1, crlf - 1)
        data == crlf + 2
        after == data + stoi(length)
    IN  IF s.kind # "ok" THEN s
        ELSE IF s.pos > Len(buffer) THEN NeedMore(0)
        ELSE IF buffer[s.pos] # "$" THEN ProtocolError
        ELSE IF crlf = Npos THEN NeedMore(0)
        ELSE IF ~IsInt(length) THEN ProtocolError
        ELSE IF stoi(length) < 0 THEN Bulks(Append(s.parts, <<>>), data)
        ELSE IF after + 1 > Len(buffer) THEN NeedMore(0)
        ELSE IF buffer[after] # CR \/ buffer[after + 1] # LF THEN ProtocolError
        ELSE Bulks(Append(s.parts, SubSeq(buffer, data, after - 1)), after + 2)

\* The first count elements from position pos on.
BulkStrings(buffer, pos, count) ==
    LET after[i \in 0 .. count] ==
            IF i = 0 THEN Bulks(<<>>, pos) ELSE BulkString(buffer, after[i - 1])
    IN  after[count]

\* The command whose words the elements of an array are.
ArrayResult(bulks) ==
    IF bulks.kind # "ok" THEN bulks ELSE Parsed(CommandOf(bulks.parts), bulks.pos - 1)

parse_resp_array(buffer) ==
    LET crlf == find_crlf(buffer, 1)
        count == SubSeq(buffer, 2, crlf - 1)
    IN  IF crlf = Npos THEN NeedMore(0)
        ELSE IF ~IsInt(count) \/ stoi(count) <= 0 THEN ProtocolError
        ELSE ArrayResult(BulkStrings(buffer, crlf + 2, stoi(count)))

IsNewline(ch) == ch = LF

\* The end of the first line: [line_end, consume], or Npos.  A CR LF anywhere
\* in the buffer is preferred to an earlier bare LF.
LineEnd(buffer) ==
    LET crlf == find_crlf(buffer, 1)
        newline == SelectInSeq(buffer, IsNewline)
    IN  IF crlf # Npos THEN [line_end |-> crlf, consume |-> crlf + 1]
        ELSE [line_end |-> newline, consume |-> newline]

\* The command of a line that has been parsed.
LineResult(result, consumed) ==
    IF ~result.ok THEN ProtocolError ELSE Parsed(result.command, consumed)

\* Faulty form: a blank line is left in the buffer.
parse_inline_stuck(buffer) ==
    LET end == LineEnd(buffer)
        line == SubSeq(buffer, 1, end.line_end - 1)
    IN  IF end.line_end = Npos
        THEN IF Len(buffer) > InlineLimit THEN ProtocolError ELSE NeedMore(0)
        ELSE IF Range(line) \subseteq {SP, TAB, CR} THEN NeedMore(0)
        ELSE LineResult(parse(line), end.consume)

parse_inline(buffer) ==
    LET end == LineEnd(buffer)
        line == SubSeq(buffer, 1, end.line_end - 1)
    IN  IF end.line_end = Npos
        THEN IF Len(buffer) > InlineLimit THEN ProtocolError ELSE NeedMore(0)
        ELSE IF Range(line) \subseteq {SP, TAB, CR} THEN NeedMore(end.consume)
        ELSE LineResult(parse(line), end.consume)

parse_command(buffer) ==
    IF buffer = <<>> THEN NeedMore(0)
    ELSE IF Head(buffer) = "*" THEN parse_resp_array(buffer)
    ELSE parse_inline(buffer)

-----------------------------------------------------------------------------
(* Server to client.                                                       *)

EOL == <<CR, LF>>

simple_string(text) == <<"+">> \o text \o EOL

error(text) == <<"-">> \o text \o EOL

integer(n) == <<":">> \o to_string(n) \o EOL

bulk_string(text) == <<"$">> \o to_string(Len(text)) \o EOL \o text \o EOL

null_bulk_string == <<"$", "-", "1", CR, LF>>

empty_array == <<"*", "0", CR, LF>>

array(elements) ==
    <<"*">> \o to_string(Len(elements)) \o EOL \o FlattenSeq(elements)

\* std::getline: the first line of text, and what follows its newline.
GetLine(text) == UpTo(text, {LF}, 1)

\* The lines of text; a final newline ends the last line.
Lines[text \in Seq(Alphabet)] ==
    IF text = <<>> THEN <<>> ELSE <<GetLine(text).token>> \o Lines[GetLine(text).rest]

IsQuoted(text) == Len(text) >= 2 /\ Head(text) = DQ /\ Last(text) = DQ

Unquote(text) == SubSeq(text, 2, Len(text) - 1)

\* "1) ..." opens a numbered list.
IsNumbered(text) ==
    Len(text) >= 3 /\ text[1] \in Range(Tail(Digits)) /\ text[2] = ")"

\* Faulty form: the last ") " of the line.
ListMark_last(line) ==
    LET at == {p \in 1 .. (Len(line) - 1) : line[p] = ")" /\ line[p + 1] = SP}
    IN  IF at = {} THEN Npos ELSE Max(at)

\* What follows the first ") " of a line; Npos where there is none.
ListMark(line) ==
    LET at == {p \in 1 .. (Len(line) - 1) : line[p] = ")" /\ line[p + 1] = SP}
    IN  IF at = {} THEN Npos ELSE Min(at)

\* A number where the text starts with one, else a bulk string.
IntegerOrBulk(text) == IF IsNumber(text) THEN integer(stoi(text)) ELSE bulk_string(text)

IsPush(text) ==
    Len(text) >= 2 /\ text[1] \in {"subscribe", "unsubscribe", "message"} /\ text[2] = SP

\* One line "<type> <channel> <third>" as an array of three.
PushArray(line) ==
    LET type == Unquoted(SkipSpace(line))
        channel == Unquoted(SkipSpace(type.rest))
        third == SkipSpace(channel.rest)
    IN  array(<<bulk_string(type.token), bulk_string(channel.token),
                IF type.token = <<"message">> THEN bulk_string(third)
                ELSE IntegerOrBulk(third)>>)

\* The element that a line of a numbered list stands for.
ListElement(serialize, line) ==
    LET p == ListMark(line)
        content == From(line, p + 2)
    IN  IF p = Npos THEN bulk_string(line)
        ELSE IF IsQuoted(content) THEN bulk_string(Unquote(content))
        ELSE serialize[content]

\* The form is found by looking at the text; serialize finds that of a list's
\* elements.  The symbols "(integer)", "WRONGTYPE" and "NOAUTH" stand for the
\* word and the space after it.
Serialized(serialize, response) ==
    LET lines == Lines[response]
        first == Head(response)
    IN  CASE response \in {<<>>, <<"(nil)">>} -> null_bulk_string
          [] response \in {<<"OK">>, <<"PONG">>, <<"QUEUED">>} -> simple_string(response)
          [] response = <<"(empty list)">> -> empty_array
          [] OTHER ->
             IF first \in {"ERR", "WRONGTYPE", "NOAUTH"} THEN error(response)
             ELSE IF first = "(integer)" /\ IsNumber(Tail(response))
             THEN integer(stoi(Tail(response)))
             ELSE IF IsQuoted(response) THEN bulk_string(Unquote(response))
             ELSE IF IsNumbered(response)
             THEN array([i \in 1 .. Len(lines) |-> ListElement(serialize, lines[i])])
             ELSE IF IsPush(response)
             THEN FlattenSeq([i \in 1 .. Len(lines) |-> PushArray(lines[i])])
             ELSE bulk_string(response)

serialize_response[response \in Seq(Alphabet)] == Serialized(serialize_response, response)

=============================================================================
