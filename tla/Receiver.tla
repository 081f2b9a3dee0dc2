------------------------------ MODULE Receiver ------------------------------
(***************************************************************************)
(* How PeerAsync::receive() cuts the byte stream of the jet daemon into    *)
(* messages (lib/peerasync.cpp).                                           *)
(*                                                                         *)
(* A message is its length, HeaderSize bytes, and then that many bytes of  *)
(* data.  The socket does not block: a read returns any number of bytes up *)
(* to the number asked for, and receive() returns in the middle of a       *)
(* message and goes on with it when it is called again.  The bytes read so *)
(* far are kept in two buffers, each with a fill level, which outlive      *)
(* stop() and which start() resets.                                        *)
(*                                                                         *)
(* A byte is identified by the message it belongs to and its offset, so    *)
(* that a header or a message put together from the wrong bytes is told    *)
(* apart; the length such a header holds may be any.                       *)
(***************************************************************************)
EXTENDS Integers

CONSTANTS
    MaxMessageSize,     \* MAX_MESSAGE_SIZE
    Sizes,              \* the sizes of the messages the daemon sends
    MaxMessages,        \* bound: number of messages
    MaxFaults           \* bound: number of errors of the connection

HeaderSize == 4         \* sizeof(m_bigEndianLengthBuffer)

ASSUME ReceiverAssumption ==
    /\ MaxMessageSize \in Nat
    /\ Sizes \subseteq Nat
    /\ MaxMessages \in Nat
    /\ MaxFaults \in Nat

Messages == 1 .. MaxMessages

VARIABLES
    conn,       \* the socket: "up" (connected) or "down"
    size,       \* size of the data of each message
    sent,       \* number of messages the daemon has sent
    first,      \* the first message of this connection
    cur, off,   \* the next byte the socket returns: offset off of message cur
    lbuf,       \* m_bigEndianLengthBuffer
    llevel,     \* m_lengthBufferLevel
    dbuf,       \* m_dataBuffer
    dsize,      \* m_dataBuffer.size()
    dlevel,     \* m_dataBufferLevel
    handled,    \* what has been parsed and handled: messages, 0 for anything else
    faults      \* number of errors of the connection

stream == <<size, sent, first, cur, off>>
buffers == <<lbuf, llevel, dbuf, dsize, dlevel>>
vars == <<conn, stream, buffers, handled, faults>>

NoByte == [msg |-> 0, at |-> 0]
Byte(m, i) == [msg |-> m, at |-> i]
Bytes == [msg : 0 .. MaxMessages, at : Nat]

Init ==
    /\ conn = "up"
    /\ size = [m \in Messages |-> 0]
    /\ sent = 0
    /\ first = 1
    /\ cur = 1 /\ off = 0
    /\ lbuf = [i \in 0 .. (HeaderSize - 1) |-> NoByte] /\ llevel = 0
    /\ dbuf = [i \in 0 .. (MaxMessageSize - 1) |-> NoByte] /\ dsize = 0 /\ dlevel = 0
    /\ handled = {}
    /\ faults = 0

-----------------------------------------------------------------------------
(* The socket *)

Left == HeaderSize + size[cur] - off

\* m_socket.receive() returns n of at most max bytes: a read ends with the
\* message it is in, the rest is left for the next one.
Read(n, max) ==
    /\ conn = "up"
    /\ cur <= sent
    /\ n \in 1 .. max
    /\ n <= Left
    /\ cur' = IF n = Left THEN cur + 1 ELSE cur
    /\ off' = IF n = Left THEN 0 ELSE off + n

\* buffer with n bytes stored from a given level on.
Filled(buffer, level, n) ==
    [i \in DOMAIN buffer |-> IF i \in level .. (level + n - 1)
                             THEN Byte(cur, off + i - level) ELSE buffer[i]]

-----------------------------------------------------------------------------
(* receive() *)

\* The length a complete header holds: it is the size of message m if it is the
\* header of m, else it may be anything.
Lengths(header) ==
    {len \in Sizes :
        \A m \in Messages :
            (\A i \in 0 .. (HeaderSize - 1) : header[i] = Byte(m, i)) => len = size[m]}

\* Faulty variant: the size is not checked.
AcceptsAll(len) == TRUE

\* Faulty variant: a message of the maximum size is refused.
AcceptsBelow(len) == len < MaxMessageSize

Accepts(len) == len <= MaxMessageSize

\* Part of a header arrives.
ReadLength(n) ==
    /\ llevel < HeaderSize
    /\ Read(n, HeaderSize - llevel)
    /\ llevel + n < HeaderSize
    /\ lbuf' = Filled(lbuf, llevel, n)
    /\ llevel' = llevel + n
    /\ UNCHANGED <<conn, size, sent, first, dbuf, dsize, dlevel, handled, faults>>

\* The rest of the header arrives: the data buffer is prepared, or the message
\* is too large and the connection is closed.
ReadLengthEnds(n, len) ==
    /\ llevel < HeaderSize
    /\ Read(n, HeaderSize - llevel)
    /\ llevel + n = HeaderSize
    /\ lbuf' = Filled(lbuf, llevel, n)
    /\ llevel' = HeaderSize
    /\ len \in Lengths(lbuf')
    /\ conn' = IF Accepts(len) THEN "up" ELSE "down"
    /\ dsize' = IF Accepts(len) THEN len ELSE dsize
    /\ UNCHANGED <<size, sent, first, dbuf, dlevel, handled, faults>>

\* A part of the data arrives.
ReadData(n) ==
    /\ llevel = HeaderSize
    /\ dlevel < dsize
    /\ Read(n, dsize - dlevel)
    /\ dbuf' = Filled(dbuf, dlevel, n)
    /\ dlevel' = dlevel + n
    /\ UNCHANGED <<conn, size, sent, first, lbuf, llevel, dsize, handled, faults>>

\* The buffers hold message m, from its first byte to its last.
Holds(m) ==
    /\ \A i \in 0 .. (HeaderSize - 1) : lbuf[i] = Byte(m, i)
    /\ dsize = size[m]
    /\ \A i \in 0 .. (dsize - 1) : dbuf[i] = Byte(m, HeaderSize + i)

\* Faulty variant: an empty message is dropped.
ParsedNotEmpty ==
    IF dsize = 0 THEN {}
    ELSE IF \E m \in Messages : Holds(m) THEN {m \in Messages : Holds(m)} ELSE {0}

\* What the parser gets.
Parsed == IF \E m \in Messages : Holds(m) THEN {m \in Messages : Holds(m)} ELSE {0}

\* Faulty variant: waits for the data of an empty message.
ProcessNotEmpty ==
    /\ conn = "up"
    /\ llevel = HeaderSize /\ dlevel = dsize /\ dsize > 0
    /\ handled' = handled \cup Parsed
    /\ llevel' = 0 /\ dsize' = 0 /\ dlevel' = 0
    /\ UNCHANGED <<conn, stream, lbuf, dbuf, faults>>

\* The message is complete: it is parsed and handled, and the buffers are reset.
Process ==
    /\ conn = "up"
    /\ llevel = HeaderSize /\ dlevel = dsize
    /\ handled' = handled \cup Parsed
    /\ llevel' = 0 /\ dsize' = 0 /\ dlevel' = 0
    /\ UNCHANGED <<conn, stream, lbuf, dbuf, faults>>

\* A read reports an error or the end of the stream: stop() disconnects.
ReceiveFails ==
    /\ conn = "up"
    /\ llevel < HeaderSize \/ dlevel < dsize
    /\ faults < MaxFaults
    /\ conn' = "down"
    /\ faults' = faults + 1
    /\ UNCHANGED <<stream, buffers, handled>>

\* Faulty variant: the buffers are not reset.
StartKeepsBuffers ==
    /\ conn = "down"
    /\ conn' = "up"
    /\ first' = sent + 1 /\ cur' = sent + 1 /\ off' = 0
    /\ UNCHANGED <<size, sent, buffers, handled, faults>>

\* start(), called by resume(): the buffers are reset and a new connection is
\* made.  What the daemon has sent on the old one is lost.
Start ==
    /\ conn = "down"
    /\ conn' = "up"
    /\ llevel' = 0 /\ dsize' = 0 /\ dlevel' = 0
    /\ first' = sent + 1 /\ cur' = sent + 1 /\ off' = 0
    /\ UNCHANGED <<size, sent, lbuf, dbuf, handled, faults>>

-----------------------------------------------------------------------------
\* The daemon sends another message.
DaemonSends(s) ==
    /\ conn = "up"
    /\ sent < MaxMessages
    /\ sent' = sent + 1
    /\ size' = [size EXCEPT ![sent + 1] = s]
    /\ UNCHANGED <<conn, first, cur, off, buffers, handled, faults>>

Receive ==
    \/ \E n \in 1 .. HeaderSize : ReadLength(n)
    \/ \E n \in 1 .. HeaderSize, len \in Sizes : ReadLengthEnds(n, len)
    \/ \E n \in 1 .. MaxMessageSize : ReadData(n)
    \/ Process

Next ==
    \/ Receive
    \/ ReceiveFails
    \/ Start
    \/ \E s \in Sizes : DaemonSends(s)

Spec == Init /\ [][Next]_vars

\* The event loop calls receive() as long as there is something to read.
FairSpec == Spec /\ WF_vars(Receive)

-----------------------------------------------------------------------------
(* Properties *)

\* The variables stay in their types, and no buffer is filled beyond its size.
TypeOK ==
    /\ conn \in {"up", "down"}
    /\ size \in [Messages -> Nat]
    /\ sent \in 0 .. MaxMessages
    /\ first \in 1 .. (sent + 1)
    /\ cur \in first .. (sent + 1)
    /\ off \in Nat
    /\ lbuf \in [0 .. (HeaderSize - 1) -> Bytes]
    /\ llevel \in 0 .. HeaderSize
    /\ dbuf \in [0 .. (MaxMessageSize - 1) -> Bytes]
    /\ dsize \in 0 .. MaxMessageSize
    /\ dlevel \in 0 .. dsize
    /\ handled \subseteq 0 .. MaxMessages
    /\ faults \in 0 .. MaxFaults

\* Whatever the socket returns at a time, and however many connections have
\* broken in the middle of a message, only complete messages reach the parser.
OnlyMessages == 0 \notin handled

\* No message of a connection is skipped: those before the one being read have
\* all been handled, or the last of them is about to be.
NoneSkipped ==
    conn = "up" => \A m \in first .. (cur - 1) :
                m \in handled \/ (m = cur - 1 /\ llevel = HeaderSize /\ dlevel = dsize)

\* The peer closes the connection by itself only when the daemon has sent a
\* message larger than the maximum.
ClosesOnlyOversize ==
    [][conn = "up" /\ conn' = "down" /\ faults' = faults => size[cur] > MaxMessageSize]_vars

\* Every message is handled in the end, unless the connection ends.
EveryMessageHandled ==
    \A m \in Messages : (conn = "up" /\ m \in first .. sent) ~> (m \in handled \/ conn = "down")

-----------------------------------------------------------------------------
(* The inductive invariant: what the buffers hold while connected.         *)

HandledUpTo(k) == \A m \in first .. k : m \in handled

\* A part of the header of message cur, or nothing.
InHeader ==
    /\ llevel < HeaderSize /\ dsize = 0 /\ dlevel = 0
    /\ off = llevel
    /\ off > 0 => cur <= sent
    /\ \A i \in 0 .. (llevel - 1) : lbuf[i] = Byte(cur, i)
    /\ HandledUpTo(cur - 1)

\* The header and a part of the data of message cur.
InData ==
    /\ llevel = HeaderSize /\ dlevel < dsize
    /\ cur <= sent
    /\ off = HeaderSize + dlevel
    /\ dsize = size[cur]
    /\ \A i \in 0 .. (HeaderSize - 1) : lbuf[i] = Byte(cur, i)
    /\ \A i \in 0 .. (dlevel - 1) : dbuf[i] = Byte(cur, HeaderSize + i)
    /\ HandledUpTo(cur - 1)

\* The message before cur.
AtEnd ==
    /\ llevel = HeaderSize /\ dlevel = dsize
    /\ off = 0
    /\ first <= cur - 1
    /\ Holds(cur - 1)
    /\ HandledUpTo(cur - 2)

InSync == conn = "up" => InHeader \/ InData \/ AtEnd

IndInv == TypeOK /\ OnlyMessages /\ InSync
=============================================================================
