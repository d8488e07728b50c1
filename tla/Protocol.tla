------------------------------ MODULE Protocol ------------------------------
(***************************************************************************)
(* The length-prefixed framing that preceded RESP                          *)
(* (src/protocol/protocol.cpp): four bytes of length, most significant     *)
(* first, then the payload.  A byte is a number of 0 .. 255.               *)
(***************************************************************************)
EXTENDS Integers, Sequences

CONSTANT MaxMessage     \* read_message refuses a longer payload

HeaderSize == 4

\* Faulty form: the bytes in the order of a little-endian host.
htonl_host(len) ==
    <<len % 256, (len \div 256) % 256, (len \div 65536) % 256, len \div 16777216>>

\* The four bytes of a length below 2^31, in network byte order.
htonl(len) ==
    <<len \div 16777216, (len \div 65536) % 256, (len \div 256) % 256, len % 256>>

ntohl(bytes) ==
    bytes[1] * 16777216 + bytes[2] * 65536 + bytes[3] * 256 + bytes[4]

encode(message) == htonl(Len(message)) \o message

\* read_message on what has arrived: the two read_exact calls block until
\* their bytes are there ("wait").
read_message(bytes) ==
    LET len == ntohl(bytes)
    IN  IF Len(bytes) < HeaderSize THEN [kind |-> "wait"]
        ELSE IF len > MaxMessage THEN [kind |-> "refused"]
        ELSE IF Len(bytes) < HeaderSize + len THEN [kind |-> "wait"]
        ELSE [kind |-> "ok", message |-> SubSeq(bytes, HeaderSize + 1, HeaderSize + len),
              consumed |-> HeaderSize + len]

=============================================================================
