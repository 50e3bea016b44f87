--------------------------- MODULE NbBufferClient ---------------------------
(***************************************************************************)
(* The buffer with a client that keeps the rules the code relies on but    *)
(* does not enforce.  The asserts of buffer.c compare the call with        *)
(* buf->mode only; they do not see the bytes that peek and is_eof read     *)
(* ahead, nor a getc during writing.  The clients of the repository        *)
(* (benchmark.c, nbdiag.c, test-stream.c) write, flush, then read, or use  *)
(* a buffer in one direction only; those are the clients modelled here.    *)
(***************************************************************************)
EXTENDS NbBuffer

\* Writing starts on a buffer that holds no bytes that were read.  A file is
\* used in one direction only.
ClientWrite(n) ==
  /\ mode = "WRITING" \/ (mode = "IDLE" /\ block = <<>>)
  /\ ops = "file" => store_pos = 0 \/ written_total > 0
  /\ Write(n)

\* Reading starts after a flush.
ClientRead ==
  /\ mode # "WRITING"
  /\ ops = "file" => written_total = 0
  /\ \/ \E n \in 0..MaxCount : Read(n)
     \/ Getc \/ Peek \/ IsEof
     \/ pos > 0 /\ Ungetc

\* A flush in reading mode would throw away what was read ahead.
ClientFlush == (mode = "WRITING" \/ Unread = <<>>) /\ Flush

ClientNext ==
  /\ UNCHANGED ops
  /\ \/ \E n \in 0..MaxCount : ClientWrite(n)
     \/ ClientRead
     \/ WriteStep \/ ReadStep
     \/ ClientFlush \/ Delete

ClientSpec == Init /\ [][ClientNext]_vars /\ Fairness

-----------------------------------------------------------------------------
\* The queue a memory buffer stands for: what was flushed and not yet filled is
\* behind the unread bytes of the block, or before its unflushed ones.  A file,
\* of which this is not claimed, stands for a queue nobody uses.
Queued ==
  CASE call = Deleted \/ ops # "memory" -> <<>>
    [] call # Deleted /\ ops = "memory" /\ mode = "WRITING" -> Stored \o block
    [] call # Deleted /\ ops = "memory" /\ mode # "WRITING" -> Unread \o Stored
OfMemory(v, unused) == IF ops = "memory" THEN v ELSE unused

Fifo == INSTANCE ByteQueue WITH
  First <- FileLen, Chunk <- BufSize, queue <- Queued,
  total <- OfMemory(written_total, 0), taken <- OfMemory(out, <<>>),
  answer <- OfMemory(ret, "none"), open <- OfMemory(call # Deleted, TRUE)

\* A memory buffer is a first-in first-out queue of bytes, through any mixture
\* of fast and slow calls, flushes, fills and growths of the memory, and a
\* reading call comes up short only when every byte has been delivered.
IsFifo == Fifo!Spec

\* Reading a file: what the client got, followed by what is read ahead, is
\* exactly the part of the file before the descriptor's offset, however read(2)
\* splits it and however often it fails.
ReadsFileInOrder ==
  ops = "file" /\ written_total = 0 /\ call # Deleted =>
    out \o Unread = SubSeq(store, 1, store_pos)

\* Every byte written so far, in order.
Written == [i \in 1..written_total |-> FileLen + i]

\* Writing over a file: up to the descriptor's offset the file holds the written
\* bytes from the first on without a gap, the rest of them is in the block, and
\* after nb_buffer_delete nothing is missing; after a failed flush the file still
\* starts with a prefix of what was written.  Behind the offset it is unchanged.
WritesFileInOrder ==
  ops = "file" /\ written_total > 0 =>
    /\ IF call = Aborted
       THEN SubSeq(store, 1, store_pos) = SubSeq(Written, 1, store_pos)
       ELSE SubSeq(store, 1, store_pos) \o block = Written
    /\ Stored = [i \in 1..(Len(store) - store_pos) |-> store_pos + i]
=============================================================================
