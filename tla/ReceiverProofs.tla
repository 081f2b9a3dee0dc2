--------------------------- MODULE ReceiverProofs ---------------------------
(* Proofs about Receiver, for messages of any number and size. *)
EXTENDS Receiver, TLAPS

\* Nothing is in the buffers at first.
LEMMA InitInSync == Init => IndInv
  <1>1. SUFFICES ASSUME Init PROVE IndInv
    OBVIOUS
  <1>2. TypeOK
    <2>1. NoByte \in Bytes
      BY ReceiverAssumption DEF NoByte, Bytes
    <2>2. lbuf \in [0 .. (HeaderSize - 1) -> Bytes] /\ dbuf \in [0 .. (MaxMessageSize - 1) -> Bytes]
      BY <1>1, <2>1 DEF Init
    <2>3. size \in [Messages -> Nat]
      BY <1>1 DEF Init
    <2> QED
      BY <1>1, <2>2, <2>3, ReceiverAssumption DEF Init, TypeOK, HeaderSize
  <1>3. InHeader
    BY <1>1 DEF Init, InHeader, HandledUpTo, HeaderSize
  <1> QED
    BY <1>1, <1>2, <1>3 DEF IndInv, OnlyMessages, InSync, Init

\* The positions and levels are numbers.
LEMMA Numbers ==
    ASSUME TypeOK
    PROVE  /\ sent \in Nat /\ first \in Nat /\ cur \in Nat /\ off \in Nat
           /\ llevel \in Nat /\ dsize \in Nat /\ dlevel \in Nat
           /\ first >= 1 /\ first <= cur /\ cur <= sent + 1 /\ sent <= MaxMessages
           /\ llevel <= 4 /\ dlevel <= dsize /\ dsize <= MaxMessageSize
  BY ReceiverAssumption DEF TypeOK, HeaderSize

\* What a read does to the stream (m_socket.receive()).
LEMMA ReadStep ==
    ASSUME TypeOK, NEW max \in Nat, NEW n \in Nat, Read(n, max)
    PROVE  /\ cur \in Messages
           /\ size[cur] \in Nat
           /\ cur' \in cur .. (cur + 1)
           /\ off' \in Nat
           /\ n \in 1 .. max
           /\ off + n <= HeaderSize + size[cur]
           /\ off + n = HeaderSize + size[cur] => cur' = cur + 1 /\ off' = 0
           /\ off + n # HeaderSize + size[cur] => cur' = cur /\ off' = off + n
           /\ conn = "up" /\ cur <= sent
  <1>1. cur \in Messages
    BY ReceiverAssumption DEF TypeOK, Read, Messages
  <1>2. size[cur] \in Nat
    BY <1>1 DEF TypeOK
  <1> QED
    BY <1>1, <1>2, Numbers DEF Read, Left, HeaderSize

\* What a read does to a buffer of N bytes filled up to a level.
LEMMA FilledBytes ==
    ASSUME TypeOK, cur \in Messages,
           NEW N \in Nat, NEW b \in [0 .. (N - 1) -> Bytes],
           NEW level \in Nat, NEW n \in Nat, level + n <= N
    PROVE  /\ Filled(b, level, n) \in [0 .. (N - 1) -> Bytes]
           /\ \A i \in 0 .. (level - 1) : Filled(b, level, n)[i] = b[i]
           /\ \A i \in level .. (level + n - 1) :
                 Filled(b, level, n)[i] = Byte(cur, off + i - level)
  <1>1. \A i \in 0 .. (N - 1) : i \in level .. (level + n - 1) =>
            Byte(cur, off + i - level) \in Bytes
    BY ReceiverAssumption DEF TypeOK, Byte, Bytes, Messages
  <1> QED
    BY <1>1 DEF Filled

\* A part of a header arrives: the buffer still holds a part of that header.
LEMMA ReadLengthStep ==
    ASSUME IndInv, NEW n \in 1 .. HeaderSize, ReadLength(n)
    PROVE  IndInv'
  <1> USE DEF HeaderSize
  <1>1. TypeOK /\ InHeader
    BY Numbers DEF IndInv, InSync, InHeader, InData, AtEnd, ReadLength, Read
  <1>2. /\ cur \in Messages /\ size[cur] \in Nat /\ cur' = cur /\ off' = off + n
        /\ cur <= sent /\ n \in Nat
    BY <1>1, ReadStep, Numbers DEF ReadLength, InHeader
  <1>3. /\ lbuf' \in [0 .. 3 -> Bytes]
        /\ \A i \in 0 .. (llevel - 1) : lbuf'[i] = lbuf[i]
        /\ \A i \in llevel .. (llevel + n - 1) : lbuf'[i] = Byte(cur, off + i - llevel)
    <2>1. TypeOK /\ cur \in Messages /\ n \in Nat /\ llevel \in Nat /\ llevel + n <= 4
      BY <1>1, <1>2, Numbers DEF ReadLength
    <2>2. lbuf \in [0 .. (4 - 1) -> Bytes]
      BY <1>1 DEF TypeOK
    <2>3. /\ Filled(lbuf, llevel, n) \in [0 .. (4 - 1) -> Bytes]
          /\ \A i \in 0 .. (llevel - 1) : Filled(lbuf, llevel, n)[i] = lbuf[i]
          /\ \A i \in llevel .. (llevel + n - 1) :
                 Filled(lbuf, llevel, n)[i] = Byte(cur, off + i - llevel)
      BY ONLY 4 \in Nat, <2>1, <2>2, FilledBytes
    <2> QED
      BY <2>3 DEF ReadLength
  <1>4. TypeOK'
    BY <1>1, <1>2, <1>3 DEF TypeOK, ReadLength
  <1>5. \A i \in 0 .. (llevel' - 1) : lbuf'[i] = Byte(cur', i)
    BY <1>1, <1>2, <1>3 DEF ReadLength, InHeader, TypeOK
  <1>6. InHeader'
    BY <1>1, <1>2, <1>5 DEF InHeader, ReadLength, HandledUpTo, TypeOK
  <1> QED
    BY <1>4, <1>6 DEF IndInv, InSync, OnlyMessages, ReadLength

\* The header is complete: the data buffer gets the size of that message, or
\* the connection is closed.
LEMMA ReadLengthEndsStep ==
    ASSUME IndInv, NEW n \in 1 .. HeaderSize, NEW len \in Sizes, ReadLengthEnds(n, len)
    PROVE  IndInv' /\ (conn' = "down" => size[cur] > MaxMessageSize)
  <1> USE DEF HeaderSize
  <1>1. TypeOK /\ InHeader
    BY Numbers DEF IndInv, InSync, InHeader, InData, AtEnd, ReadLengthEnds, Read
  <1>2. /\ cur \in Messages /\ size[cur] \in Nat /\ cur <= sent /\ n \in Nat
        /\ cur' \in cur .. (cur + 1) /\ off' \in Nat
        /\ size[cur] = 0 => cur' = cur + 1 /\ off' = 0
        /\ size[cur] # 0 => cur' = cur /\ off' = 4
    BY <1>1, ReadStep, Numbers DEF ReadLengthEnds, InHeader
  <1>3. /\ lbuf' \in [0 .. 3 -> Bytes]
        /\ \A i \in 0 .. (llevel - 1) : lbuf'[i] = lbuf[i]
        /\ \A i \in llevel .. (llevel + n - 1) : lbuf'[i] = Byte(cur, off + i - llevel)
    <2>1. TypeOK /\ cur \in Messages /\ n \in Nat /\ llevel \in Nat /\ llevel + n <= 4
      BY <1>1, <1>2, Numbers DEF ReadLengthEnds
    <2>2. lbuf \in [0 .. (4 - 1) -> Bytes]
      BY <1>1 DEF TypeOK
    <2>3. /\ Filled(lbuf, llevel, n) \in [0 .. (4 - 1) -> Bytes]
          /\ \A i \in 0 .. (llevel - 1) : Filled(lbuf, llevel, n)[i] = lbuf[i]
          /\ \A i \in llevel .. (llevel + n - 1) :
                 Filled(lbuf, llevel, n)[i] = Byte(cur, off + i - llevel)
      BY ONLY 4 \in Nat, <2>1, <2>2, FilledBytes
    <2> QED
      BY <2>3 DEF ReadLengthEnds
  <1>4. \A i \in 0 .. 3 : lbuf'[i] = Byte(cur, i)
    BY <1>1, <1>2, <1>3 DEF ReadLengthEnds, InHeader, TypeOK
  <1>5. len = size[cur]
    BY <1>2, <1>4 DEF ReadLengthEnds, Lengths
  <1>6. TypeOK'
    <2>1. cur' \in first .. (sent + 1)
      BY <1>1, <1>2, Numbers
    <2>2. dsize' \in 0 .. MaxMessageSize /\ dlevel' \in 0 .. dsize'
      BY <1>1, <1>2, <1>5, Numbers, ReceiverAssumption DEF ReadLengthEnds, Accepts, InHeader
    <2>3. llevel' = 4 /\ conn' \in {"up", "down"}
      BY DEF ReadLengthEnds
    <2>4. UNCHANGED <<size, sent, first, dbuf, handled, faults>>
      BY DEF ReadLengthEnds
    <2> QED
      BY <1>1, <1>2, <1>3, <2>1, <2>2, <2>3, <2>4 DEF TypeOK
  <1>7. ASSUME conn' = "up" PROVE InData' \/ AtEnd'
    <2>1. dsize' = size[cur] /\ dlevel' = 0 /\ llevel' = 4
      BY <1>1, <1>5, <1>7 DEF ReadLengthEnds, InHeader
    <2>2. HandledUpTo(cur - 1) /\ handled' = handled /\ first' = first
      BY <1>1 DEF InHeader, ReadLengthEnds
    <2>3. CASE size[cur] = 0
      <3>1. cur' - 1 = cur /\ cur' - 2 = cur - 1 /\ first <= cur
        BY <1>1, <1>2, <2>3, Numbers
      <3>2. Holds(cur - 1)'
        BY <1>4, <2>1, <2>3, <3>1 DEF Holds, ReadLengthEnds
      <3>3. HandledUpTo(cur - 2)'
        BY <2>2, <3>1 DEF HandledUpTo
      <3> QED
        BY <1>2, <2>1, <2>2, <2>3, <3>1, <3>2, <3>3 DEF AtEnd
    <2>4. CASE size[cur] # 0
      BY <1>1, <1>2, <1>4, <2>1, <2>2, <2>4 DEF InData, HandledUpTo, ReadLengthEnds, TypeOK
    <2> QED
      BY <2>3, <2>4
  <1>8. conn' = "down" => size[cur] > MaxMessageSize
    BY <1>2, <1>5, ReceiverAssumption DEF ReadLengthEnds, Accepts
  <1> QED
    BY <1>6, <1>7, <1>8 DEF IndInv, InSync, OnlyMessages, ReadLengthEnds

\* A part of the data arrives, or the rest of it.
LEMMA ReadDataStep ==
    ASSUME IndInv, NEW n \in 1 .. MaxMessageSize, ReadData(n)
    PROVE  IndInv'
  <1> USE DEF HeaderSize
  <1>1. TypeOK /\ InData
    BY Numbers DEF IndInv, InSync, InHeader, InData, AtEnd, ReadData, Read
  <1>2. /\ cur \in Messages /\ size[cur] \in Nat /\ cur <= sent /\ n \in Nat
        /\ n <= dsize - dlevel
        /\ cur' \in cur .. (cur + 1) /\ off' \in Nat
        /\ dlevel + n = dsize => cur' = cur + 1 /\ off' = 0
        /\ dlevel + n # dsize => cur' = cur /\ off' = off + n
    <2>1. dsize - dlevel \in Nat /\ n \in Nat
      BY <1>1, Numbers
    <2>2. Read(n, dsize - dlevel) /\ off = 4 + dlevel /\ dsize = size[cur]
      BY <1>1 DEF ReadData, InData
    <2>3. /\ cur \in Messages /\ size[cur] \in Nat
          /\ cur' \in cur .. (cur + 1) /\ off' \in Nat
          /\ n \in 1 .. (dsize - dlevel)
          /\ off + n = 4 + size[cur] => cur' = cur + 1 /\ off' = 0
          /\ off + n # 4 + size[cur] => cur' = cur /\ off' = off + n
          /\ cur <= sent
      BY <1>1, <2>1, <2>2, ReadStep
    <2> QED
      BY <1>1, <2>1, <2>2, <2>3, Numbers
  <1>3. /\ dbuf' \in [0 .. (MaxMessageSize - 1) -> Bytes]
        /\ \A i \in 0 .. (dlevel - 1) : dbuf'[i] = dbuf[i]
        /\ \A i \in dlevel .. (dlevel + n - 1) : dbuf'[i] = Byte(cur, off + i - dlevel)
    <2>1. dlevel \in Nat /\ dlevel + n <= MaxMessageSize
          /\ dbuf \in [0 .. (MaxMessageSize - 1) -> Bytes]
      BY <1>1, <1>2, ReceiverAssumption DEF TypeOK
    <2> QED
      BY <1>1, <1>2, <2>1, FilledBytes, ReceiverAssumption DEF ReadData
  <1>4. TypeOK'
    BY <1>1, <1>2, <1>3, ReceiverAssumption DEF TypeOK, ReadData
  <1>5. \A i \in 0 .. (dlevel + n - 1) : dbuf'[i] = Byte(cur, HeaderSize + i)
    <2> TAKE i \in 0 .. (dlevel + n - 1)
    <2>1. CASE i < dlevel
      <3>1. i \in 0 .. (dlevel - 1)
        BY <1>1, <2>1, Numbers
      <3>2. dbuf[i] = Byte(cur, 4 + i)
        BY <1>1, <3>1 DEF InData
      <3> QED
        BY <1>3, <3>1, <3>2
    <2>2. CASE i >= dlevel
      <3>1. i \in dlevel .. (dlevel + n - 1) /\ off + i - dlevel = 4 + i
        BY <1>1, <1>2, <2>2, Numbers DEF InData
      <3> QED
        BY <1>3, <3>1
    <2> QED
      BY <1>1, <1>2, <2>1, <2>2, Numbers
  <1>6. HandledUpTo(cur - 1) /\ handled' = handled /\ first' = first
    BY <1>1 DEF InData, ReadData
  <1>7. CASE dlevel + n = dsize
    <2>1. cur' - 1 = cur /\ cur' - 2 = cur - 1 /\ first <= cur
      BY <1>1, <1>2, <1>7, Numbers
    <2>2. Holds(cur - 1)'
      <3>1. /\ \A i \in 0 .. (HeaderSize - 1) : lbuf'[i] = Byte(cur, i)
            /\ dsize' = size'[cur] /\ dsize' = dlevel + n
        BY <1>1, <1>7 DEF ReadData, InData
      <3>2. \A i \in 0 .. (dsize' - 1) : dbuf'[i] = Byte(cur, HeaderSize + i)
        BY <1>1, <1>2, <1>5, <3>1, Numbers
      <3> QED
        BY ONLY <2>1, <3>1, <3>2 DEF Holds
    <2>3. HandledUpTo(cur - 2)'
      BY <1>6, <2>1 DEF HandledUpTo
    <2>4. AtEnd'
      BY <1>2, <1>6, <1>7, <2>1, <2>2, <2>3 DEF AtEnd, ReadData
    <2> QED
      BY <1>4, <2>4 DEF IndInv, InSync, OnlyMessages, ReadData
  <1>8. CASE dlevel + n # dsize
    <2>1. InData'
      BY <1>1, <1>2, <1>5, <1>6, <1>8 DEF InData, HandledUpTo, TypeOK, ReadData
    <2> QED
      BY <1>4, <2>1 DEF IndInv, InSync, OnlyMessages, ReadData
  <1> QED
    BY <1>7, <1>8

\* What is parsed is the message before the next byte of the stream.
LEMMA ProcessStep ==
    ASSUME IndInv, Process
    PROVE  IndInv'
  <1> USE DEF HeaderSize
  <1>1. TypeOK /\ AtEnd /\ OnlyMessages
    BY Numbers DEF IndInv, InSync, InHeader, InData, AtEnd, Process
  <1>2. cur - 1 \in Messages
    BY <1>1, ReceiverAssumption DEF TypeOK, AtEnd, Messages
  <1>3. 0 \notin handled' /\ cur - 1 \in handled'
    BY <1>1, <1>2 DEF AtEnd, Process, OnlyMessages, Parsed, Messages
  <1>4. TypeOK'
    <2>1. Parsed \subseteq 0 .. MaxMessages
      BY ReceiverAssumption DEF Parsed, Messages
    <2> QED
      BY <1>1, <2>1, ReceiverAssumption DEF TypeOK, Process, stream
  <1>5. HandledUpTo(cur - 1)'
    BY <1>1, <1>3 DEF HandledUpTo, AtEnd, Process, stream, TypeOK
  <1>6. InHeader'
    BY <1>1, <1>5 DEF InHeader, AtEnd, Process, stream, TypeOK, HandledUpTo
  <1> QED
    BY <1>3, <1>4, <1>6 DEF IndInv, InSync, OnlyMessages

\* After start() the buffers are empty, whatever stop() has left in them.
LEMMA StartStep ==
    ASSUME IndInv, Start
    PROVE  IndInv'
  <1> USE DEF HeaderSize
  <1>1. TypeOK'
    BY ReceiverAssumption DEF IndInv, TypeOK, Start
  <1>2. InHeader'
    BY DEF IndInv, TypeOK, Start, InHeader, HandledUpTo
  <1> QED
    BY <1>1, <1>2 DEF IndInv, InSync, OnlyMessages, Start

\* Another message of the daemon changes nothing of those already sent.
LEMMA DaemonSendsStep ==
    ASSUME IndInv, NEW s \in Sizes, DaemonSends(s)
    PROVE  IndInv'
  <1> USE DEF HeaderSize
  <1>1. TypeOK'
    BY ReceiverAssumption DEF IndInv, TypeOK, DaemonSends, buffers, Messages
  <1>2. \A m \in 1 .. sent : size'[m] = size[m]
    BY ReceiverAssumption DEF IndInv, TypeOK, DaemonSends, Messages
  <1>3. InHeader => InHeader'
    BY DEF InHeader, HandledUpTo, DaemonSends, buffers, IndInv, TypeOK
  <1>4. InData => InData'
    BY <1>2 DEF InData, HandledUpTo, DaemonSends, buffers, IndInv, TypeOK
  <1>5. AtEnd => AtEnd'
    BY <1>2 DEF AtEnd, Holds, HandledUpTo, DaemonSends, buffers, IndInv, TypeOK
  <1> QED
    BY <1>1, <1>3, <1>4, <1>5 DEF IndInv, InSync, OnlyMessages, DaemonSends

\* Every step keeps the buffers in step with the stream, and only an oversize
\* message makes the peer close the connection by itself.
LEMMA NextInSync ==
    ASSUME IndInv, [Next]_vars
    PROVE  /\ IndInv'
           /\ conn = "up" /\ conn' = "down" /\ faults' = faults => size[cur] > MaxMessageSize
  <1>1. ASSUME NEW n \in 1 .. HeaderSize, ReadLength(n)
        PROVE  IndInv' /\ conn' = conn
    BY <1>1, ReadLengthStep DEF ReadLength
  <1>2. ASSUME NEW n \in 1 .. HeaderSize, NEW len \in Sizes, ReadLengthEnds(n, len)
        PROVE  IndInv' /\ (conn' = "down" => size[cur] > MaxMessageSize)
    BY <1>2, ReadLengthEndsStep
  <1>3. ASSUME NEW n \in 1 .. MaxMessageSize, ReadData(n)
        PROVE  IndInv' /\ conn' = conn
    BY <1>3, ReadDataStep DEF ReadData
  <1>4. ASSUME Process PROVE IndInv' /\ conn' = conn
    BY <1>4, ProcessStep DEF Process
  <1>5. ASSUME ReceiveFails PROVE IndInv' /\ faults' # faults
    BY <1>5, ReceiverAssumption
    DEF ReceiveFails, IndInv, TypeOK, OnlyMessages, InSync, stream, buffers, HeaderSize
  <1>6. ASSUME Start PROVE IndInv' /\ conn' = "up"
    BY <1>6, StartStep DEF Start
  <1>7. ASSUME NEW s \in Sizes, DaemonSends(s)
        PROVE  IndInv' /\ conn' = conn
    BY <1>7, DaemonSendsStep DEF DaemonSends
  <1>8. ASSUME UNCHANGED vars PROVE IndInv' /\ conn' = conn
    BY <1>8 DEF IndInv, TypeOK, OnlyMessages, InSync, InHeader, InData, AtEnd, Holds, HandledUpTo,
                vars, stream, buffers
  <1> QED
    BY <1>1, <1>2, <1>3, <1>4, <1>5, <1>6, <1>7, <1>8 DEF Next, Receive

\* The buffers of receive() are always in step with the stream of the daemon.
THEOREM Framing == Spec => []IndInv
  <1>1. Init => IndInv
    BY InitInSync
  <1>2. IndInv /\ [Next]_vars => IndInv'
    BY NextInSync
  <1> QED
    BY <1>1, <1>2, PTL DEF Spec

\* The variables stay in their types: no level exceeds its buffer.
THEOREM TypeCorrect == Spec => []TypeOK
  <1>1. IndInv => TypeOK
    BY DEF IndInv
  <1> QED
    BY <1>1, Framing, PTL

\* Only complete messages reach the parser, for any sizes, any way the reads
\* are cut and any number of broken connections.
THEOREM OnlyMessagesParsed == Spec => []OnlyMessages
  <1>1. IndInv => OnlyMessages
    BY DEF IndInv
  <1> QED
    BY <1>1, Framing, PTL

\* receive() skips no message of a connection.
THEOREM NoMessageSkipped == Spec => []NoneSkipped
  <1>1. IndInv => NoneSkipped
    BY DEF IndInv, InSync, InHeader, InData, AtEnd, HandledUpTo, NoneSkipped, TypeOK
  <1> QED
    BY <1>1, Framing, PTL

\* receive() closes the connection by itself only for an oversize message.
THEOREM NoNeedlessClose == Spec => ClosesOnlyOversize
  <1>1. IndInv /\ [Next]_vars
          => [conn = "up" /\ conn' = "down" /\ faults' = faults => size[cur] > MaxMessageSize]_vars
    BY NextInSync
  <1> QED
    BY <1>1, Framing, PTL DEF Spec, ClosesOnlyOversize
=============================================================================
