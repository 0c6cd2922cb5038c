---------------------------- MODULE SocketFraming -----------------------------
(***************************************************************************)
(* How JSONSocket lays messages on the stream of a QTcpSocket, reads them  *)
(* back in transactions and accounts for what was written.                 *)
(*                                                                         *)
(* The stream is a sequence of units, the pieces that may be split: halves *)
(* of the words of QDataStream and pieces of the data of a message.        *)
(***************************************************************************)
EXTENDS Integers, Sequences, SequencesExt

CONSTANT ChunkSize   \* _maxUploadChunkSize, in pieces of data

ChunkAssumption == ChunkSize \in Nat \ {0}

\* A message: its id, its method and the count of the pieces of its data. A heavy
\* method is one of RPZJSON::_heavyPayloadMethods.
Unknown == 0
Light == 1
Heavy == 2

pieces(message) == [i \in 1..message.size |-> [id |-> message.id, at |-> i, value |-> 0]]

halves(word) == [i \in 1..2 |-> [id |-> 0, at |-> i, value |-> word]]

\* ceil
chunksOf(size) == (size + ChunkSize - 1) \div ChunkSize

chunk(data, k) ==
  SubSeq(data, (k - 1) * ChunkSize + 1,
         IF k * ChunkSize > Len(data) THEN Len(data) ELSE k * ChunkSize)

\* _send: the header, then every chunk after its length
framed(message) ==
  LET data == pieces(message) IN
  halves(message.method) \o halves(message.size)
    \o FlattenSeq([k \in 1..chunksOf(message.size) |->
                     halves(Len(chunk(data, k))) \o chunk(data, k)])

\* operator>>: a word which is not there in full is read as zero
word(bytes, at) == IF at + 1 <= Len(bytes) THEN bytes[at].value ELSE 0

\* Mutant: a part of a chunk is no chunk.
expectedFullChunks(size) == size \div ChunkSize

expectedChunks(size) == chunksOf(size)

\* One round of the loop of _processIncomingData as far as the bytes are
\* concerned: what the header says, where the batch ends, and its data
batch(bytes) ==
  LET size == word(bytes, 3)
      count == expectedChunks(size)
      start[k \in 1..count + 1] ==
        IF k = 1 THEN 5 ELSE start[k - 1] + 2 + word(bytes, start[k - 1])
      end == start[count + 1] - 1
      complete == Len(bytes) >= 4 /\ end <= Len(bytes)
  IN [method |-> word(bytes, 1), size |-> size, complete |-> complete,
      rest |-> IF complete THEN SubSeq(bytes, end + 1, Len(bytes)) ELSE bytes,
      data |-> IF complete
               THEN FlattenSeq([k \in 1..count |->
                      SubSeq(bytes, start[k] + 2, start[k + 1] - 1)])
               ELSE <<>>]

---------------------------------------------------------------------------
(* What was written: the queue holds the length of every message that was  *)
(* not told uploaded.                                                       *)

sum(lengths) == FoldSeq(LAMBDA x, y : x + y, 0, lengths)

\* How many messages _onBytesWritten tells uploaded and dequeues
uploaded(waiting, bytes) ==
  CHOOSE n \in 0..Len(waiting) :
    /\ sum(SubSeq(waiting, 1, n)) <= bytes
    /\ n = Len(waiting) \/ sum(SubSeq(waiting, 1, n + 1)) > bytes

\* A part of the next one is forgotten
splits(waiting, bytes) == bytes # sum(SubSeq(waiting, 1, uploaded(waiting, bytes)))

onBytesWritten(waiting, bytes) ==
  SubSeq(waiting, uploaded(waiting, bytes) + 1, Len(waiting))
=============================================================================
