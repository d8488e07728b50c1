------------------------------- MODULE Client -------------------------------
(***************************************************************************)
(* How the client library (src/networking/client.cpp) takes one RESP value *)
(* from the front of its read buffer and turns it into the text it shows.  *)
(***************************************************************************)
EXTENDS Resp

\* A result is not ok while the buffer does not hold a whole value.
Incomplete == [ok |-> FALSE]

Value(text, consumed) == [ok |-> TRUE, text |-> text, consumed |-> consumed]

\* The line "<number>) <text>", closed by a newline unless it is the last.
Numbered(i, text, last) ==
    to_string(i) \o <<")", SP>> \o text \o (IF last THEN <<>> ELSE <<LF>>)

\* A bulk string of len bytes after the first consumed bytes of buffer.
BulkValue(buffer, consumed, len) ==
    LET whole == consumed + len + 2
    IN  IF len < 0 THEN Value(<<"(nil)">>, consumed)
        ELSE IF whole > Len(buffer) THEN Incomplete
        ELSE Value(<<DQ>> \o SubSeq(buffer, consumed + 1, whole - 2) \o <<DQ>>, whole)

\* One round of the loop over the elements of an array: the i-th of count joins
\* the ones before it.  parse_value takes it from the buffer.
Element(parse_value, buffer, count, before, i) ==
    LET elem == parse_value[From(buffer, before.consumed + 1)]
    IN  IF ~before.ok \/ ~elem.ok THEN Incomplete
        ELSE Value(before.text \o Numbered(i, elem.text, i = count),
                   before.consumed + elem.consumed)

\* An array of count elements after the first consumed bytes of buffer.
ArrayValue(parse_value, buffer, consumed, count) ==
    LET elements[i \in 0 .. count] ==
            IF i = 0 THEN Value(<<>>, consumed)
            ELSE Element(parse_value, buffer, count, elements[i - 1], i)
    IN  IF count < 0 THEN Value(<<"(nil)">>, consumed)
        ELSE IF count = 0 THEN Value(<<"(empty array)">>, consumed)
        ELSE elements[count]

\* The value at the front of buffer; parse_value takes the elements of an array.
ReadValue(parse_value, buffer) ==
    LET crlf == find_crlf(buffer, 1)
        type == Head(buffer)
        line == SubSeq(buffer, 2, crlf - 1)
        consumed == crlf + 1
    IN  IF buffer = <<>> THEN Incomplete
        ELSE IF crlf = Npos THEN Incomplete
        ELSE CASE type \in {"+", "-"} -> Value(line, consumed)
               [] type = ":" -> Value(<<"(integer)">> \o line, consumed)
               [] type \in {"$", "*"} ->
                  IF ~IsInt(line) THEN Value(<<"(error)">>, consumed)
                  ELSE IF type = "$" THEN BulkValue(buffer, consumed, stoi(line))
                  ELSE ArrayValue(parse_value, buffer, consumed, stoi(line))
               [] OTHER -> Value(SubSeq(buffer, 1, crlf - 1), consumed)

parse_resp_value[data \in Seq(Alphabet)] == ReadValue(parse_resp_value, data)

=============================================================================
