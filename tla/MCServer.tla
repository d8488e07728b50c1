------------------------------ MODULE MCServer ------------------------------
(***************************************************************************)
(* Two connections to a server with one key and one channel.               *)
(***************************************************************************)
EXTENDS Server

CONSTANTS k1, v1, ch, c1, c2

Line(key, value) == [key |-> key, value |-> value]

\* Several files, of which one cannot be read, and a key set more than once:
\* no password in the end, or one.
MCConfigs ==
    {<<<<Line("requirepass", "old"), Line("port", "7000")>>, <<Line("requirepass", "")>>>>,
     <<Unreadable, <<Line("requirepass", "old"), Line("requirepass", "secret"), Blank>>>>}

MCChannelArgs == {<<ch>>}
MCKeyArgs == {<<k1>>}
MCBatches == {<<v1>>}

MCCommands ==
    [c \in Client |-> {[name |-> "GET", key |-> k1], [name |-> "SUBSCRIBE", channels |-> <<ch>>],
                       [name |-> "PUBLISH", channel |-> ch], [name |-> "MULTI"]}]

\* For the liveness properties the commands do not matter.
OneCommand == [c \in Client |-> {[name |-> "GET", key |-> k1]}]

NoFiles == {<<>>}

=============================================================================
