------------------------------- MODULE Stream -------------------------------
(***************************************************************************)
(* A TCP connection delivers its bytes in pieces of any size.  Three       *)
(* readers of this code put them together again: the server's command loop *)
(* (Server::process_client), the client's reply loop                       *)
(* (Client::read_resp_response) and the older length-prefixed reader       *)
(* (Protocol::read_message).  One connection at a time is modelled: what   *)
(* its sender wrote, how much of it has arrived, what the reader keeps in  *)
(* its buffer and what it has taken out.                                   *)
(***************************************************************************)
EXTENDS Client, Protocol

CONSTANTS
    Commands,   \* the sequences of frames a sender may write to the server,
    Replies,    \* to the client,
    Messages,   \* and to read_message; see Frame below
    MaxRead,    \* no read takes more bytes than this
    MaxBuffer   \* the server gives up on a longer rest after a command

ASSUME StreamAssumption ==
    /\ MaxRead \in Nat \ {0} /\ MaxBuffer \in Nat /\ InlineLimit \in Nat /\ MaxMessage \in Nat
    /\ MaxRead <= MaxBuffer

VARIABLES
    stream,     \* [reader, frames]: what the sender writes; frames <<>> when down
    arrived,    \* how many of its bytes the reader has read
    buffer,     \* read_buffer
    out,        \* the commands, texts or messages taken so far
    open        \* the reader has not given up the connection

vars == <<stream, arrived, buffer, out, open>>

-----------------------------------------------------------------------------
(* What senders write.  A frame is its bytes, what a reader must make of   *)
(* them, and whether the reader hangs up after it.                         *)

Frame(bytes, gives) == [bytes |-> bytes, gives |-> gives, last |-> FALSE]

BulkStringsOf(texts) == [i \in 1 .. Len(texts) |-> bulk_string(texts[i])]

\* A command as RESP client libraries send it.
ArrayCommand(words) == Frame(array(BulkStringsOf(words)), <<CommandOf(words)>>)

Quote(word) ==
    LET Quoted(ch) == CASE ch \in {DQ, BS} -> <<BS, ch>>
                        [] ch = LF -> <<BS, "n">>
                        [] ch = TAB -> <<BS, "t">>
                        [] OTHER -> <<ch>>
    IN  <<DQ>> \o FlattenSeq([i \in 1 .. Len(word) |-> Quoted(word[i])]) \o <<DQ>>

\* A command as a line of quoted words, ended by end.
InlineCommand(words, end) ==
    Frame(FlattenSeq([i \in 1 .. Len(words) |-> <<SP>> \o Quote(words[i])]) \o end,
          <<CommandOf(words)>>)

BlankLine == Frame(<<SP, CR, LF>>, <<>>)

\* The words QUIT and "protocol error" as the readers report them.
QUIT == <<"QUIT">>

Refused == [name |-> <<"protocol error">>, args |-> <<>>]

Closing(frame) == [bytes |-> frame.bytes, gives |-> frame.gives, last |-> TRUE]

Malformed(bytes) == Closing(Frame(bytes, <<Refused>>))

\* Lines joined by newlines.
Joined(lines) ==
    FlattenSeq([i \in 1 .. Len(lines) |->
                  IF i = Len(lines) THEN lines[i] ELSE lines[i] \o <<LF>>])

NumberedList(texts) ==
    FlattenSeq([i \in 1 .. Len(texts) |-> Numbered(i, texts[i], i = Len(texts))])

InQuotes(text) == <<DQ>> \o text \o <<DQ>>

AllInQuotes(texts) == [i \in 1 .. Len(texts) |-> InQuotes(texts[i])]

IntegerText(n) == <<"(integer)">> \o to_string(n)

\* A handler's reply of which the client shows the very text.
SameReply(text) == Frame(serialize_response[text], <<text>>)

\* The replies of GET and LPOP; of DEL and LPUSH; of LRANGE and KEYS.
StringReply(value) == SameReply(InQuotes(value))

IntegerReply(n) == SameReply(IntegerText(n))

\* A text of no other form is shown as a string: what INFO answers, and PING
\* when its argument, which comes back as it is, has none of the other forms.
TextReply(text) == Frame(serialize_response[text], <<InQuotes(text)>>)

\* A text that serialize_response takes for a reply of another form.
TakenFor(text, shown) == Frame(serialize_response[text], <<shown>>)

\* An error that echoes a name with CR LF inside is sent as it is: the client
\* takes its two lines for two replies.
SplitError(line, rest) ==
    LET whole == serialize_response[line \o EOL \o rest]
        cut == Len(serialize_response[line])
    IN  <<Frame(SubSeq(whole, 1, cut), <<line>>),
          Frame(SubSeq(whole, cut + 1, Len(whole)), <<rest>>)>>

ListReply(values) ==
    IF values = <<>>
    THEN Frame(serialize_response[<<"(empty list)">>], <<<<"(empty array)">>>>)
    ELSE SameReply(NumberedList(AllInQuotes(values)))

\* What EXEC answers: the replies to the queued commands, one per line.
ExecReply(replies) == SameReply(NumberedList(replies))

\* The array a subscriber sees: what happened, on which channel, and a third
\* part in the form the client shows it.
Event(what, channel, third) == NumberedList(<<InQuotes(what), InQuotes(channel), third>>)

\* SUBSCRIBE answers one line per channel, each an array of its own: frame i
\* is what line i adds to the reply.
SubscribeReply(names) ==
    LET Line(i) == <<"subscribe", SP>> \o names[i] \o <<SP>> \o to_string(i)
        Reply(n) == IF n = 0 THEN <<>>
                    ELSE serialize_response[Joined([i \in 1 .. n |-> Line(i)])]
        Added(i) == SubSeq(Reply(Len(names)), Len(Reply(i - 1)) + 1, Len(Reply(i)))
    IN  [i \in 1 .. Len(names) |->
           Frame(Added(i), <<Event(<<"subscribe">>, names[i], IntegerText(i))>>)]

\* What PubSubManager::publish writes to a subscriber.
PushedMessage(channel, payload) ==
    Frame(array(BulkStringsOf(<<<<"message">>, channel, payload>>)),
          <<Event(<<"message">>, channel, InQuotes(payload))>>)

LengthPrefixed(message) == Frame(encode(message), <<message>>)

-----------------------------------------------------------------------------
(* The readers' loops.  In one round a reader waits for more bytes, takes  *)
(* items from the front of its buffer, or gives the connection up.         *)

Waits == [kind |-> "waits"]

Takes(items, consumed) == [kind |-> "takes", items |-> items, consumed |-> consumed]

GivesUp(items, consumed) == [kind |-> "gives_up", items |-> items, consumed |-> consumed]

\* What the server's loop does with the result of parse_command.
ProcessResult(buf, result) ==
    CASE result.kind = "protocol_error" -> GivesUp(<<Refused>>, 0)
      [] result.kind = "need_more" ->
         IF result.consumed > 0 THEN Takes(<<>>, result.consumed) ELSE Waits
      [] result.kind = "ok" ->
         IF Len(buf) - result.consumed > MaxBuffer THEN GivesUp(<<>>, result.consumed)
         ELSE IF result.command.name = QUIT
         THEN GivesUp(<<result.command>>, result.consumed)
         ELSE Takes(<<result.command>>, result.consumed)

process_client(buf) == ProcessResult(buf, parse_command(buf))

read_resp_response(buf) ==
    LET value == parse_resp_value[buf]
    IN  IF value.ok THEN Takes(<<value.text>>, value.consumed) ELSE Waits

ReadMessages(buf) ==
    LET next == read_message(buf)
    IN  CASE next.kind = "wait" -> Waits
          [] next.kind = "refused" -> GivesUp(<<>>, 0)
          [] next.kind = "ok" -> Takes(<<next.message>>, next.consumed)

Round(reader, buf) ==
    CASE reader = "command" -> process_client(buf)
      [] reader = "reply" -> read_resp_response(buf)
      [] reader = "message" -> ReadMessages(buf)

\* The loop goes on, or has given the connection up.
GoesOn(buf, taken) == [buffer |-> buf, out |-> taken, open |-> TRUE]

Stops(buf, taken) == [buffer |-> buf, out |-> taken, open |-> FALSE]

\* The loop breaks or returns at s.
Ends(reader, s) == ~s.open \/ Round(reader, s.buffer).kind = "waits"

\* Where a round that takes something, or gives up, leaves s.
After(s, round) ==
    LET rest == From(s.buffer, round.consumed + 1)
        taken == s.out \o round.items
    IN  IF round.kind = "takes" THEN GoesOn(rest, taken) ELSE Stops(rest, taken)

Again(reader, s) == IF Ends(reader, s) THEN s ELSE After(s, Round(reader, s.buffer))

\* The one of the first most states at which the loop ends.
LoopEnd(reader, after, most) == after[CHOOSE k \in 0 .. most : Ends(reader, after[k])]

\* Where the loop ends on a buffer, with what was taken before.  A round after
\* which it goes on takes a byte at least.
Reader(reader, buf, taken) ==
    LET after[k \in 0 .. Len(buf)] ==
            IF k = 0 THEN GoesOn(buf, taken) ELSE Again(reader, after[k - 1])
    IN  LoopEnd(reader, after, Len(buf))

-----------------------------------------------------------------------------
Nobody == [reader |-> "nobody", frames |-> <<>>]

BytesOf(frames) == FlattenSeq([i \in 1 .. Len(frames) |-> frames[i].bytes])

Init == /\ stream = Nobody
        /\ arrived = 0
        /\ buffer = <<>>
        /\ out = <<>>
        /\ open = FALSE

\* A new connection.
Connect ==
    /\ stream.reader = "nobody"
    /\ \/ \E frames \in Commands : stream' = [reader |-> "command", frames |-> frames]
       \/ \E frames \in Replies : stream' = [reader |-> "reply", frames |-> frames]
       \/ \E frames \in Messages : stream' = [reader |-> "message", frames |-> frames]
    /\ open' = TRUE
    /\ UNCHANGED <<arrived, buffer, out>>

\* The next n bytes arrive in one read.
Arrive(n) ==
    LET bytes == BytesOf(stream.frames)
    IN  /\ open
        /\ n <= MaxRead /\ arrived + n <= Len(bytes)
        /\ arrived' = arrived + n
        /\ \E read \in {Reader(stream.reader,
                            buffer \o SubSeq(bytes, arrived + 1, arrived + n), out)} :
              /\ buffer' = read.buffer
              /\ out' = read.out
              /\ open' = read.open
        /\ UNCHANGED stream

\* The connection ends, wherever it is: the reader has given it up or the
\* peer is gone.  The next one starts with an empty buffer.
Disconnect ==
    /\ stream.reader # "nobody"
    /\ stream' = Nobody
    /\ arrived' = 0
    /\ buffer' = <<>>
    /\ out' = <<>>
    /\ open' = FALSE

Next == \/ Connect
        \/ \E n \in 1 .. (Len(BytesOf(stream.frames)) - arrived) : Arrive(n)
        \/ Disconnect

Spec == Init /\ [][Next]_vars

-----------------------------------------------------------------------------
\* The frames of which every byte has arrived, up to the first one after
\* which the reader hangs up.
WholeFrames ==
    {j \in 1 .. Len(stream.frames) :
       /\ Len(BytesOf(SubSeq(stream.frames, 1, j))) <= arrived
       /\ \A i \in 1 .. (j - 1) : ~stream.frames[i].last}

\* What the reader must have made of them.
Due ==
    FlattenSeq([j \in 1 .. Cardinality(WholeFrames) |-> stream.frames[j].gives])

HangsUp == \E j \in WholeFrames : stream.frames[j].last

\* However the bytes are cut into reads, the server's loop has executed
\* exactly the commands whose last byte has arrived: none is dropped, merged
\* with the next, run twice or held back, the words of each (quoted or with
\* line ends inside) are the ones the sender wrote, and the connection is
\* given up exactly at QUIT or a malformed frame (server.cpp:242-311,
\* resp.cpp:27-185, parser.cpp:7-85).
CommandsArriveIntact == stream.reader = "command" => out = Due /\ open = ~HangsUp

\* However the bytes are cut, the client has taken exactly the replies whose
\* last byte has arrived, and what it shows for each is what the handler
\* answered, although the server finds a reply's RESP type by looking at its
\* text (resp.cpp:227-366, client.cpp:82-262).  Where that look is wrong, the
\* client shows the reply the text is taken for (TakenFor, SplitError), and
\* still no reply after it is lost, merged or shown in another's place.
RepliesArriveIntact == stream.reader = "reply" => out = Due

\* However the bytes are cut, read_message has returned exactly the payloads
\* that were encoded, and refuses exactly a length above the limit
\* (protocol.cpp:9-86).
MessagesArriveIntact == stream.reader = "message" => out = Due /\ open = ~HangsUp

=============================================================================
