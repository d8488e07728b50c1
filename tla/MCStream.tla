------------------------------ MODULE MCStream ------------------------------
(***************************************************************************)
(* Streams of one, two or three frames for the readers of Stream.          *)
(***************************************************************************)
EXTENDS Stream

AnySymbol == STRING

A == <<"a">>
B == <<"b">>

\* Every way to put n frames of a set in a row.
Rows(frames, n) == [1 .. n -> frames]

Upto(frames, n) == UNION {Rows(frames, k) : k \in 1 .. n}

EmptyWord == <<>>

\* Words with everything inside that quoting and framing must carry.
OddWords == {EmptyWord, <<SP>>, <<DQ, BS>>, <<LF>>, <<CR, LF>>, <<"b", TAB>>, <<"*", "$">>}

CommandFrames == {ArrayCommand(<<A>>), ArrayCommand(<<B, EmptyWord>>)}
              \cup {ArrayCommand(<<A, w>>) : w \in {<<CR, LF>>, <<"*", "1">>}}
              \cup {InlineCommand(<<A, w>>, EOL) : w \in OddWords}
              \cup {BlankLine, Closing(ArrayCommand(<<QUIT>>)),
                    Closing(InlineCommand(<<QUIT>>, EOL)),
                    Frame(<<"a", SP, SQ, "b", BS, SP, SQ, CR, LF>>, <<CommandOf(<<A, <<"b", BS, SP>>>>)>>),
                    Frame(<<"a", SP, DQ, "b", SP, CR, LF>>, <<CommandOf(<<A, <<"b", SP>>>>)>>),
                    Frame(<<"*", "1", CR, LF, "$", "-", "1", CR, LF>>, <<CommandOf(<<EmptyWord>>)>>)}

TelnetLines == {InlineCommand(<<A>>, <<LF>>), InlineCommand(<<B, A>>, <<LF>>)}

NotCommands == {Malformed(<<"*", "a", CR, LF>>), Malformed(<<"*", "0", CR, LF>>),
                Malformed(<<"*", "1", CR, LF, "+">>),
                Malformed(<<"*", "1", CR, LF, "$", "1", CR, LF, "a", "b", CR>>),
                Malformed(<<"*", "1", CR, LF, "$", "a", CR, LF>>),
                Malformed([i \in 1 .. InlineLimit + 1 |-> "b"])}

\* Values a key may hold.
OddValues == {EmptyWord, A, <<DQ>>, <<LF>>, <<CR, LF>>, <<"1", ")", SP>>, <<"OK">>, <<"(nil)">>}

\* Elements of a list and names of keys, without newlines (see Misread).
OneLine == {EmptyWord, A, <<DQ>>, <<"1", ")", SP>>, <<"(nil)">>}

ReplyFrames == {SameReply(text) : text \in {<<"OK">>, <<"PONG">>, <<"QUEUED">>, <<"(nil)">>,
                                         <<"ERR", "a">>, <<"WRONGTYPE", "a">>, <<"NOAUTH", "a">>}}
             \cup {TextReply(<<"a", SP, "b">>), TextReply(<<"b", LF, "a", LF>>)}
             \cup {IntegerReply(n) : n \in {-2, 0, 10}}
             \cup {StringReply(v) : v \in OddValues}
             \cup {ListReply(<<>>)} \cup {ListReply(<<v>>) : v \in OneLine}
             \cup {ListReply(<<v, A>>) : v \in OneLine}
             \cup Range(SubscribeReply(<<A>>))
             \cup {PushedMessage(A, v) : v \in {EmptyWord, <<CR, LF>>}}
             \cup {ExecReply(<<<<"OK">>, IntegerText(1)>>), ExecReply(<<<<"ERR", "a">>, InQuotes(A)>>)}

\* The texts that are taken for another reply: PING's argument when it is empty
\* or reads like a list or a subscription; a list with an element that has a
\* newline, where serialize_response cuts it; LRANGE inside EXEC, whose list
\* joins the outer one; a subscription to a channel with a space.
Misread == {TakenFor(EmptyWord, <<"(nil)">>),
            TakenFor(<<"1", ")", SP, "a">>, NumberedList(<<InQuotes(A)>>)),
            TakenFor(<<"subscribe", SP, "a", SP, "1">>, Event(<<"subscribe">>, A, IntegerText(1))),
            TakenFor(NumberedList(AllInQuotes(<<<<"a", LF, "b">>>>)),
                     NumberedList(<<InQuotes(<<DQ, "a">>), InQuotes(<<"b", DQ>>)>>)),
            TakenFor(NumberedList(<<NumberedList(AllInQuotes(<<A, B>>))>>),
                     NumberedList(<<NumberedList(<<InQuotes(A)>>), InQuotes(B)>>)),
            TakenFor(<<"subscribe", SP, "a", SP, "b", SP, "1">>,
                     Event(<<"subscribe">>, A, InQuotes(<<"b", SP, "1">>)))}

Bytes(n) == [i \in 1 .. n |-> i % 256]

MessageFrames == {LengthPrefixed(Bytes(n)) : n \in {0, 1, 3, 258}}

NotMessages == {Closing(Frame(<<4, 0, 0, 1>>, <<>>))}

CommandsValue == Upto(CommandFrames, 2) \cup Upto(TelnetLines, 2)
                   \cup {<<c, n>> : c \in CommandFrames, n \in NotCommands}

RepliesValue == Upto(ReplyFrames, 2)
                  \cup {SubscribeReply(<<A, B>>) \o <<r>> : r \in ReplyFrames}
                  \cup {<<m, StringReply(A)>> : m \in Misread}
                  \cup {SplitError(<<"ERR", "a">>, B) \o <<StringReply(A)>>}

MessagesValue == Upto(MessageFrames \cup NotMessages, 2)

=============================================================================
