--------------------------- MODULE NbBufferProofs ---------------------------
(***************************************************************************)
(* The buffer keeps within its block and keeps its bytes in order, for     *)
(* every block size, back-end, file length and order of calls: a file is   *)
(* read and written without a gap, and a memory buffer implements the      *)
(* queue of ByteQueue.tla.                                                 *)
(***************************************************************************)
EXTENDS NbBufferClient, SequenceTheorems, TLAPS

BufferInv == TypeOK /\ WithinBounds

-----------------------------------------------------------------------------
(* What the helpers do to the block, the back-end and the history.         *)

\* A part of a sequence of bytes that lies inside it is a sequence of bytes of
\* the expected length.
LEMMA PartOfSeq ==
  ASSUME NEW s \in Seq(Nat), NEW a \in Nat, NEW b \in Nat, b <= Len(s)
  PROVE  /\ SubSeq(s, a + 1, b) \in Seq(Nat)
         /\ Len(SubSeq(s, a + 1, b)) = IF a < b THEN b - a ELSE 0
<1>1. \A i \in (a + 1)..b : s[i] \in Nat
  BY ElementOfSeq, LenProperties
<1> QED BY <1>1, SubSeqProperties

\* A prefix of a sequence of bytes is one.
LEMMA PrefixOfSeq ==
  ASSUME NEW s \in Seq(Nat), NEW b \in Nat, b <= Len(s)
  PROVE  SubSeq(s, 1, b) \in Seq(Nat) /\ Len(SubSeq(s, 1, b)) = b
<1>1. \A i \in 1..b : s[i] \in Nat
  BY ElementOfSeq, LenProperties
<1> QED BY <1>1, SubSeqProperties

\* The bytes a client writes are bytes.
LEMMA FreshIsSeq ==
  ASSUME TypeOK, NEW n \in Nat
  PROVE  Fresh(n) \in Seq(Nat) /\ Len(Fresh(n)) = n
<1>1. Fresh(n) \in [1..n -> Nat]
  BY BoundsAssumption DEF Fresh, TypeOK
<1>2. Fresh(n) \in Seq(Nat)
  BY <1>1, SeqDef
<1> QED BY <1>1, <1>2, LenProperties

\* Put leaves exactly the p bytes it kept and the n bytes it copied.
LEMMA PutEffect ==
  ASSUME BufferInv, NEW p \in Nat, p <= Len(block), NEW n \in Nat, Put(p, n)
  PROVE  /\ block' \in Seq(Nat) /\ Len(block') = p + n
         /\ pos' = p + n /\ written_total' \in Nat
<1>1. SubSeq(block, 1, p) \in Seq(Nat) /\ Len(SubSeq(block, 1, p)) = p
  <2>1. block \in Seq(Nat) BY DEF BufferInv, TypeOK
  <2> QED BY <2>1, PrefixOfSeq
<1>2. Fresh(n) \in Seq(Nat) /\ Len(Fresh(n)) = n
  BY FreshIsSeq DEF BufferInv
<1>3. block' = SubSeq(block, 1, p) \o Fresh(n)
  BY DEF Put
<1>4. block' \in Seq(Nat) /\ Len(block') = p + n
  BY <1>1, <1>2, <1>3, ConcatProperties
<1>5. pos' = p + n /\ written_total' \in Nat
  BY DEF Put, BufferInv, TypeOK
<1> QED BY <1>4, <1>5

\* Taking k bytes that are there.
LEMMA TakeEffect ==
  ASSUME BufferInv, NEW k \in Nat, k <= Len(block) - pos, Take(k)
  PROVE  pos' \in Nat /\ pos' <= Len(block) /\ out' \in Seq(Nat)
<1>1. /\ block \in Seq(Nat) /\ out \in Seq(Nat) /\ pos \in Nat
      /\ Len(block) \in Nat
  BY LenProperties DEF BufferInv, TypeOK
<1>2. SubSeq(block, pos + 1, pos + k) \in Seq(Nat)
  BY <1>1, PartOfSeq
<1>3. out' \in Seq(Nat)
  BY <1>1, <1>2, ConcatProperties DEF Take
<1> QED BY <1>1, <1>3 DEF Take

\* A fill never asks for more than the store has or the block holds.
LEMMA FillCountsBounded ==
  ASSUME BufferInv, NEW n \in FillCounts
  PROVE  n \in Nat /\ n <= BufSize /\ n <= Len(store) - store_pos
<1>1. Len(store) \in Nat /\ store_pos \in Nat /\ store_pos <= Len(store)
  BY LenProperties DEF BufferInv, TypeOK, WithinBounds
<1> QED BY <1>1, BufSizeAssumption DEF FillCounts, Min2

\* nb_buffer_fill replaces the block by the next n bytes of the store.
LEMMA FillEffect ==
  ASSUME BufferInv, NEW n \in FillCounts, NEW k \in Nat, k <= n, FillAndTake(n, k)
  PROVE  /\ block' \in Seq(Nat) /\ Len(block') = n /\ n <= BufSize
         /\ pos' \in Nat /\ pos' <= n
         /\ store_pos' \in Nat /\ store_pos' <= Len(store)
         /\ out' \in Seq(Nat)
<1>1. n \in Nat /\ n <= BufSize /\ n <= Len(store) - store_pos
  BY FillCountsBounded
<1>2. /\ store \in Seq(Nat) /\ out \in Seq(Nat) /\ store_pos \in Nat
      /\ Len(store) \in Nat
  BY LenProperties DEF BufferInv, TypeOK
<1>3. Filled(n) \in Seq(Nat) /\ Len(Filled(n)) = n
  BY <1>1, <1>2, PartOfSeq DEF Filled
<1>4. SubSeq(Filled(n), 1, k) \in Seq(Nat)
  BY <1>1, <1>3, PrefixOfSeq
<1>5. out' \in Seq(Nat)
  BY <1>2, <1>4, ConcatProperties DEF FillAndTake
<1> QED BY <1>1, <1>2, <1>3, <1>5 DEF FillAndTake

\* write(2) of a part of the block keeps the offset inside the file.
LEMMA FileWriteEffect ==
  ASSUME BufferInv, NEW n \in Nat, n <= Len(block), FileWrite(n)
  PROVE  /\ store' \in Seq(Nat) /\ store_pos' \in Nat /\ store_pos' <= Len(store')
         /\ memory_size' \in Nat
<1> DEFINE head == SubSeq(store, 1, store_pos)
           body == SubSeq(block, 1, n)
           tail == SubSeq(store, (store_pos + n) + 1, Len(store))
<1>1. /\ store \in Seq(Nat) /\ block \in Seq(Nat) /\ store_pos \in Nat
      /\ Len(store) \in Nat /\ store_pos <= Len(store)
  BY LenProperties DEF BufferInv, TypeOK, WithinBounds
<1>2. head \in Seq(Nat) /\ Len(head) = store_pos
  BY <1>1, PrefixOfSeq
<1>3. body \in Seq(Nat) /\ Len(body) = n
  BY <1>1, PrefixOfSeq
<1>4. tail \in Seq(Nat) /\ Len(tail) \in Nat
  BY <1>1, PartOfSeq, store_pos + n \in Nat, LenProperties
<1>5. head \o body \in Seq(Nat) /\ Len(head \o body) = store_pos + n
  BY <1>2, <1>3, ConcatProperties
<1>6. (head \o body) \o tail \in Seq(Nat)
      /\ Len((head \o body) \o tail) = store_pos + n + Len(tail)
  BY <1>4, <1>5, ConcatProperties
<1>7. store' = (head \o body) \o tail
  BY DEF FileWrite
<1>8. store_pos' = store_pos + n /\ memory_size' \in Nat
  BY DEF FileWrite, BufferInv, TypeOK
<1> HIDE DEF head, body, tail
<1> QED BY <1>1, <1>4, <1>6, <1>7, <1>8

\* mem_flush: doubling the memory makes room for the block, since the memory is
\* either absent or at least a block long.
LEMMA MemFlushEffect ==
  ASSUME BufferInv, ops = "memory", MemFlush
  PROVE  /\ store' \in Seq(Nat) /\ store_pos' \in Nat /\ store_pos' <= Len(store')
         /\ memory_size' \in Nat
         /\ memory_size' = 0 \/ memory_size' >= BufSize
         /\ Len(store') <= memory_size'
<1>1. /\ store \in Seq(Nat) /\ block \in Seq(Nat) /\ store_pos \in Nat
      /\ memory_size \in Nat /\ Len(store) \in Nat /\ Len(block) \in Nat
      /\ store_pos <= Len(store) /\ Len(block) <= BufSize
      /\ Len(store) <= memory_size
      /\ memory_size = 0 \/ memory_size >= BufSize
  BY LenProperties DEF BufferInv, TypeOK, WithinBounds
<1>2. store' \in Seq(Nat) /\ Len(store') = Len(store) + Len(block)
  BY <1>1, ConcatProperties DEF MemFlush
<1> QED BY <1>1, <1>2, BufSizeAssumption DEF MemFlush, GrownSize, Max2

\* The part of WithinBounds that is about the back-end.
StoreSafe ==
  /\ store \in Seq(Nat) /\ store_pos \in Nat /\ memory_size \in Nat
  /\ store_pos <= Len(store)
  /\ ops = "memory" =>
       Len(store) <= memory_size /\ (memory_size = 0 \/ memory_size >= BufSize)

\* Either back-end keeps its store safe when it is flushed.
LEMMA OpsFlushEffect ==
  ASSUME BufferInv, ops' = ops, OpsFlush
  PROVE  StoreSafe'
<1>1. CASE ops = "memory"
  BY <1>1, MemFlushEffect DEF OpsFlush, StoreSafe
<1>2. CASE ops # "memory"
  <2>1. Len(block) \in Nat BY LenProperties DEF BufferInv, TypeOK
  <2> QED BY <1>2, <2>1, FileWriteEffect DEF OpsFlush, StoreSafe
<1> QED BY <1>1, <1>2

-----------------------------------------------------------------------------
(* Every operation keeps the invariant.                                    *)

\* nb_buffer_new_memory and nb_buffer_new_file.
LEMMA InitInv == Init => BufferInv
<1> SUFFICES ASSUME Init PROVE BufferInv
  OBVIOUS
<1> DEFINE file == [i \in 1..FileLen |-> i]
<1>1. file \in [1..FileLen -> Nat] /\ FileLen \in Nat
  BY BoundsAssumption
<1> HIDE DEF file
<1>2. file \in Seq(Nat)
  BY <1>1, SeqDef
<1>3. <<>> \in Seq(Nat) /\ Len(<<>>) = 0
  BY EmptySeq
<1>4. store \in Seq(Nat) /\ Len(store) \in Nat
      /\ (ops = "memory" => Len(store) = 0)
  BY <1>2, <1>3, LenProperties DEF Init, file
<1>5. TypeOK
  BY <1>3, <1>4 DEF Init, TypeOK, Modes, Backends, NoCall
<1>6. pos = 0 /\ Len(block) = 0 /\ store_pos = 0 /\ memory_size = 0
  BY <1>3 DEF Init
<1>7. WithinBounds
  BY <1>4, <1>6, BufSizeAssumption DEF WithinBounds
<1> QED BY <1>5, <1>7 DEF BufferInv

\* What a call in progress may become keeps its type.
LEMMA InCallType ==
  ASSUME NEW op \in {"read", "write"}, NEW left \in Nat
  PROVE  InCall(op, left) \in [op : {"none", "read", "write", "aborted", "deleted"}, left : Nat]
BY DEF InCall, NoCall

\* An assert that fails changes nothing but the call.
LEMMA AbortInv == ASSUME BufferInv, ops' = ops, Abort PROVE BufferInv'
BY DEF BufferInv, TypeOK, WithinBounds, Abort, Aborted, backend

\* A write(2) that fails or falls short ends the process behind what it wrote.
LEMMA FlushFailsInv == ASSUME BufferInv, ops' = ops, FlushFails PROVE BufferInv'
<1>1. PICK n \in 0..Len(block) : FileWrite(n)
  BY DEF FlushFails
<1>2. n \in Nat /\ n <= Len(block)
  BY LenProperties DEF BufferInv, TypeOK
<1>3. /\ store' \in Seq(Nat) /\ store_pos' \in Nat /\ store_pos' <= Len(store')
      /\ memory_size' \in Nat
  BY <1>1, <1>2, FileWriteEffect
<1>4. ops # "memory"
  BY DEF FlushFails
<1> QED BY <1>3, <1>4 DEF BufferInv, TypeOK, WithinBounds, FlushFails, Aborted

\* nb_buffer_write: the fast path copies what fits behind pos.
LEMMA WriteInv == ASSUME BufferInv, ops' = ops, NEW n \in Nat, Write(n) PROVE BufferInv'
<1>1. Len(block) \in Nat /\ pos \in Nat /\ pos <= Len(block) /\ Len(block) <= BufSize
  BY LenProperties DEF BufferInv, TypeOK, WithinBounds
<1>2. CASE Abort
  BY <1>2, AbortInv
<1>3. CASE n <= BufSize - Len(block) /\ Put(pos, n) /\ mode' = "WRITING"
           /\ ret' = "none" /\ UNCHANGED <<backend, out, call>>
  <2>1. /\ block' \in Seq(Nat) /\ Len(block') = pos + n
        /\ pos' = pos + n /\ written_total' \in Nat
    BY <1>1, <1>3, PutEffect
  <2> QED BY <1>1, <1>3, <2>1, BufSizeAssumption
          DEF BufferInv, TypeOK, WithinBounds, Modes, backend
<1>4. CASE call' = InCall("write", n) /\ mode' = "WRITING" /\ ret' = "none"
           /\ UNCHANGED <<backend, out, block, pos, written_total>>
  BY <1>4, InCallType DEF BufferInv, TypeOK, WithinBounds, Modes, backend
<1> QED BY <1>2, <1>3, <1>4 DEF Write

\* An iteration of write_internal fills the block no further than its end.
LEMMA WriteStepInv == ASSUME BufferInv, ops' = ops, WriteStep PROVE BufferInv'
<1>1. /\ Len(block) \in Nat /\ pos \in Nat /\ pos <= Len(block) /\ Len(block) <= BufSize
      /\ call.left \in Nat /\ BufSize \in Nat
  BY LenProperties, BufSizeAssumption DEF BufferInv, TypeOK, WithinBounds
<1>2. CASE /\ Len(block) < BufSize
           /\ LET n == Min2(BufSize - Len(block), call.left)
              IN  Put(pos, n) /\ call' = InCall("write", call.left - n)
           /\ UNCHANGED <<mode, backend, out, ret>>
  <2> DEFINE n == Min2(BufSize - Len(block), call.left)
  <2>1. n \in Nat /\ n <= BufSize - Len(block) /\ call.left - n \in Nat
    BY <1>1, <1>2 DEF Min2
  <2> HIDE DEF n
  <2>2. /\ block' \in Seq(Nat) /\ Len(block') = pos + n
        /\ pos' = pos + n /\ written_total' \in Nat
    BY <1>1, <1>2, <2>1, PutEffect DEF n
  <2>3. call' \in [op : {"none", "read", "write", "aborted", "deleted"}, left : Nat]
    BY <1>2, <2>1, InCallType DEF n
  <2> QED BY <1>1, <1>2, <2>1, <2>2, <2>3
          DEF BufferInv, TypeOK, WithinBounds, backend
<1>3. CASE /\ OpsFlush
           /\ LET n == Min2(BufSize, call.left)
              IN  Put(0, n) /\ call' = InCall("write", call.left - n)
           /\ UNCHANGED <<mode, out, ret>>
  <2> DEFINE n == Min2(BufSize, call.left)
  <2>1. n \in Nat /\ n <= BufSize /\ call.left - n \in Nat
    BY <1>1 DEF Min2
  <2> HIDE DEF n
  <2>2. /\ block' \in Seq(Nat) /\ Len(block') = 0 + n
        /\ pos' = 0 + n /\ written_total' \in Nat
    BY <1>1, <1>3, <2>1, PutEffect DEF n
  <2>3. call' \in [op : {"none", "read", "write", "aborted", "deleted"}, left : Nat]
    BY <1>3, <2>1, InCallType DEF n
  <2>4. StoreSafe'
    BY <1>3, OpsFlushEffect
  <2> QED BY <1>1, <1>3, <2>1, <2>2, <2>3, <2>4
          DEF BufferInv, TypeOK, WithinBounds, StoreSafe
<1> QED BY <1>2, <1>3, FlushFailsInv DEF WriteStep

\* A flush or a delete leaves an empty block and a safe back-end.
LEMMA EmptyBlockInv ==
  ASSUME BufferInv, ops' = ops, StoreSafe', block' = <<>>, pos' = 0, mode' \in Modes,
         ret' \in {"none", "ok", "eof"}, call' \in {call, Deleted},
         UNCHANGED <<written_total, out>>
  PROVE  BufferInv'
<1>1. <<>> \in Seq(Nat) /\ Len(<<>>) = 0
  BY EmptySeq
<1>2. TypeOK'
  BY <1>1 DEF BufferInv, TypeOK, StoreSafe, Deleted
<1>3. WithinBounds'
  BY <1>1, BufSizeAssumption DEF WithinBounds, StoreSafe
<1> QED BY <1>2, <1>3 DEF BufferInv

\* A call that leaves the back-end alone keeps it safe.
LEMMA StoreUnchanged == ASSUME BufferInv, ops' = ops, UNCHANGED backend PROVE StoreSafe'
BY DEF BufferInv, TypeOK, WithinBounds, StoreSafe, backend

\* nb_buffer_flush.
LEMMA FlushInv == ASSUME BufferInv, ops' = ops, Flush PROVE BufferInv'
<1>1. CASE /\ mode = "WRITING" => OpsFlush
           /\ mode # "WRITING" => UNCHANGED backend
           /\ block' = <<>> /\ pos' = 0 /\ mode' = "IDLE" /\ ret' = "none"
           /\ UNCHANGED <<written_total, call, out>>
  <2>1. StoreSafe'
    BY <1>1, OpsFlushEffect, StoreUnchanged
  <2> QED BY <1>1, <2>1, EmptyBlockInv DEF Modes
<1> QED BY <1>1, FlushFailsInv DEF Flush

\* nb_buffer_delete, with the flush it does.
LEMMA DeleteInv == ASSUME BufferInv, ops' = ops, Delete PROVE BufferInv'
<1>1. CASE /\ mode = "WRITING" => OpsFlush
           /\ mode # "WRITING" => UNCHANGED backend
           /\ block' = <<>> /\ pos' = 0 /\ call' = Deleted
           /\ UNCHANGED <<mode, written_total, out, ret>>
  <2>1. StoreSafe'
    BY <1>1, OpsFlushEffect, StoreUnchanged
  <2>2. mode' \in Modes /\ ret' \in {"none", "ok", "eof"}
    BY <1>1 DEF BufferInv, TypeOK
  <2> QED BY <1>1, <2>1, <2>2, EmptyBlockInv
<1> QED BY <1>1, FlushFailsInv DEF Delete

\* nb_buffer_read: the fast path takes what is in the block.
LEMMA ReadInv == ASSUME BufferInv, ops' = ops, NEW n \in Nat, Read(n) PROVE BufferInv'
<1>1. CASE Abort
  BY <1>1, AbortInv
<1>2. CASE /\ n <= Len(block) - pos /\ Take(n) /\ mode' = "READING"
           /\ ret' = (IF n = 0 THEN ret ELSE "ok") /\ UNCHANGED call
  <2>1. pos' \in Nat /\ pos' <= Len(block) /\ out' \in Seq(Nat)
    BY <1>2, TakeEffect
  <2> QED BY <1>2, <2>1 DEF BufferInv, TypeOK, WithinBounds, Take, Modes, backend
<1>3. CASE /\ call' = InCall("read", n) /\ mode' = "READING"
           /\ UNCHANGED <<block, pos, written_total, backend, out, ret>>
  BY <1>3, InCallType DEF BufferInv, TypeOK, WithinBounds, Modes, backend
<1> QED BY <1>1, <1>2, <1>3 DEF Read

\* A fill of which k bytes are consumed keeps everything but mode, call and ret.
LEMMA FillInv ==
  ASSUME BufferInv, ops' = ops, NEW n \in FillCounts, NEW k \in Nat, k <= n, FillAndTake(n, k),
         UNCHANGED mode, ret' \in {"none", "ok", "eof"},
         call' \in [op : {"none", "read", "write", "aborted", "deleted"}, left : Nat]
  PROVE  BufferInv'
<1>1. /\ block' \in Seq(Nat) /\ Len(block') = n /\ n <= BufSize
      /\ pos' \in Nat /\ pos' <= n
      /\ store_pos' \in Nat /\ store_pos' <= Len(store)
      /\ out' \in Seq(Nat)
  BY FillEffect
<1> QED BY <1>1 DEF BufferInv, TypeOK, WithinBounds, FillAndTake

\* An iteration of read_internal: the rest of the block, or the next fill.
LEMMA ReadStepInv == ASSUME BufferInv, ops' = ops, ReadStep PROVE BufferInv'
<1>1. /\ Len(block) \in Nat /\ pos \in Nat /\ pos <= Len(block)
      /\ call.left \in Nat /\ ret \in {"none", "ok", "eof"}
  BY LenProperties DEF BufferInv, TypeOK, WithinBounds
<1>2. CASE LET k == Min2(Len(block) - pos, call.left)
           IN  /\ Take(k)
               /\ call' = InCall("read", call.left - k)
               /\ ret' = IF k = call.left THEN "ok" ELSE ret
  <2> DEFINE k == Min2(Len(block) - pos, call.left)
  <2>1. k \in Nat /\ k <= Len(block) - pos /\ call.left - k \in Nat
    BY <1>1 DEF Min2
  <2> HIDE DEF k
  <2>2. pos' \in Nat /\ pos' <= Len(block) /\ out' \in Seq(Nat)
    BY <1>2, <2>1, TakeEffect DEF k
  <2>3. call' \in [op : {"none", "read", "write", "aborted", "deleted"}, left : Nat]
    BY <1>2, <2>1, InCallType DEF k
  <2>4. UNCHANGED <<mode, block, written_total, backend>>
        /\ ret' \in {"none", "ok", "eof"}
    BY <1>1, <1>2 DEF Take, ReadStep
  <2> QED BY <2>2, <2>3, <2>4 DEF BufferInv, TypeOK, WithinBounds, backend
<1>3. CASE \E n \in FillCounts :
             LET k == Min2(n, call.left)
             IN  /\ FillAndTake(n, k)
                 /\ call' = IF n = 0 THEN NoCall ELSE InCall("read", call.left - k)
                 /\ ret' = IF n = 0 THEN "eof" ELSE IF k = call.left THEN "ok" ELSE ret
  <2> PICK n \in FillCounts :
        /\ FillAndTake(n, Min2(n, call.left))
        /\ call' = IF n = 0 THEN NoCall ELSE InCall("read", call.left - Min2(n, call.left))
        /\ ret' = IF n = 0 THEN "eof" ELSE IF Min2(n, call.left) = call.left THEN "ok" ELSE ret
    BY <1>3
  <2> DEFINE k == Min2(n, call.left)
  <2>1. k \in Nat /\ k <= n /\ call.left - k \in Nat
    BY <1>1, FillCountsBounded DEF Min2
  <2>2. InCall("read", call.left - k)
          \in [op : {"none", "read", "write", "aborted", "deleted"}, left : Nat]
    BY <2>1, InCallType
  <2>3. call' \in [op : {"none", "read", "write", "aborted", "deleted"}, left : Nat]
    BY <2>2 DEF NoCall
  <2>4. UNCHANGED mode /\ ret' \in {"none", "ok", "eof"}
    BY <1>1 DEF ReadStep
  <2> HIDE DEF k
  <2> QED BY <2>1, <2>3, <2>4, FillInv DEF k
<1> QED BY <1>2, <1>3 DEF ReadStep

\* nb_buffer_getc (k = 1) and nb_buffer_peek (k = 0).
LEMMA GetOrPeekInv == ASSUME BufferInv, ops' = ops, NEW k \in {0, 1}, GetOrPeek(k) PROVE BufferInv'
<1>1. /\ Len(block) \in Nat /\ pos \in Nat /\ pos <= Len(block)
      /\ UNCHANGED <<mode, call>>
  BY LenProperties DEF BufferInv, TypeOK, WithinBounds, GetOrPeek
<1>2. CASE pos < Len(block) /\ Take(k) /\ ret' = "ok"
  <2>1. pos' \in Nat /\ pos' <= Len(block) /\ out' \in Seq(Nat)
    BY <1>1, <1>2, TakeEffect
  <2> QED BY <1>1, <1>2, <2>1 DEF BufferInv, TypeOK, WithinBounds, Take, backend
<1>3. CASE \E n \in FillCounts :
             FillAndTake(n, Min2(n, k)) /\ ret' = IF n = 0 THEN "eof" ELSE "ok"
  <2> PICK n \in FillCounts :
        FillAndTake(n, Min2(n, k)) /\ ret' = IF n = 0 THEN "eof" ELSE "ok"
    BY <1>3
  <2>1. Min2(n, k) \in Nat /\ Min2(n, k) <= n
    BY FillCountsBounded DEF Min2
  <2>2. call' \in [op : {"none", "read", "write", "aborted", "deleted"}, left : Nat]
    BY <1>1 DEF BufferInv, TypeOK
  <2> QED BY <1>1, <2>1, <2>2, FillInv
<1> QED BY <1>2, <1>3 DEF GetOrPeek

\* nb_buffer_ungetc, which its assert keeps off the beginning of the block.
LEMMA UngetcInv == ASSUME BufferInv, ops' = ops, Ungetc PROVE BufferInv'
<1>1. CASE Abort
  BY <1>1, AbortInv
<1>2. CASE /\ pos > 0 /\ pos' = pos - 1
           /\ block' = [block EXCEPT ![pos] = out[Len(out)]]
           /\ out' = SubSeq(out, 1, Len(out) - 1)
           /\ UNCHANGED <<mode, written_total, backend, call, ret>>
  <2>1. /\ block \in Seq(Nat) /\ out \in Seq(Nat) /\ out # <<>>
        /\ pos \in 1..Len(block) /\ Len(block) \in Nat
    BY <1>2, LenProperties DEF BufferInv, TypeOK, WithinBounds, Ungetc
  <2>2. Len(out) \in Nat \ {0}
    BY <2>1, EmptySeq
  <2>3. out[Len(out)] \in Nat
    BY <2>1, <2>2, ElementOfSeq
  <2>4. block' \in Seq(Nat) /\ Len(block') = Len(block)
    BY <1>2, <2>1, <2>3, ExceptSeq
  <2>5. out' \in Seq(Nat)
    BY <1>2, <2>1, <2>2, PrefixOfSeq
  <2> QED BY <1>2, <2>1, <2>4, <2>5 DEF BufferInv, TypeOK, WithinBounds, backend
<1> QED BY <1>1, <1>2 DEF Ungetc

\* nb_buffer_is_eof fills like a peek.
LEMMA IsEofInv == ASSUME BufferInv, ops' = ops, IsEof PROVE BufferInv'
BY AbortInv, GetOrPeekInv DEF IsEof, Peek

\* The invariant is inductive.
LEMMA StepInv == BufferInv /\ [Next]_vars => BufferInv'
<1> SUFFICES ASSUME BufferInv, [Next]_vars PROVE BufferInv'
  OBVIOUS
<1>0. ops' = ops
  BY DEF Next, vars
<1>1. ASSUME NEW n \in 0..MaxCount, Write(n) PROVE BufferInv'
  BY <1>0, <1>1, WriteInv, BoundsAssumption
<1>2. ASSUME NEW n \in 0..MaxCount, Read(n) PROVE BufferInv'
  BY <1>0, <1>2, ReadInv, BoundsAssumption
<1>3. CASE WriteStep
  BY <1>0, <1>3, WriteStepInv
<1>4. CASE ReadStep
  BY <1>0, <1>4, ReadStepInv
<1>5. CASE Getc \/ Peek
  BY <1>0, <1>5, GetOrPeekInv DEF Getc, Peek
<1>6. CASE Ungetc
  BY <1>0, <1>6, UngetcInv
<1>7. CASE IsEof
  BY <1>0, <1>7, IsEofInv
<1>8. CASE Flush
  BY <1>0, <1>8, FlushInv
<1>9. CASE Delete
  BY <1>0, <1>9, DeleteInv
<1>10. CASE UNCHANGED vars
  BY <1>10 DEF vars, BufferInv, TypeOK, WithinBounds
<1> QED BY <1>1, <1>2, <1>3, <1>4, <1>5, <1>6, <1>7, <1>8, <1>9, <1>10 DEF Next

-----------------------------------------------------------------------------
\* Every variable of the buffer keeps its type.
THEOREM TypeCorrect == Spec => []TypeOK
<1>1. BufferInv => TypeOK
  BY DEF BufferInv
<1> QED BY InitInv, StepInv, <1>1, PTL DEF Spec

\* No memcpy of buffer.c, buffer-memory.c or buffer-file.c leaves its memory:
\* for every block size, whatever the order of the calls, however read(2) and
\* write(2) split the data or fail.
THEOREM MemorySafe == Spec => []WithinBounds
<1>1. BufferInv => WithinBounds
  BY DEF BufferInv
<1> QED BY InitInv, StepInv, <1>1, PTL DEF Spec

-----------------------------------------------------------------------------
(* The end of the data is final for memory.                                *)

\* After a reading call came up short the block is empty, so that there is
\* nothing to put back into, and so is the memory behind memory_pos; a call that
\* writes has forgotten that.
EofInv ==
  /\ ops = "memory" /\ ret = "eof" =>
       pos = 0 /\ Len(block) = 0 /\ store_pos = Len(store)
  /\ call.op = "write" => ret = "none"

\* A fill of memory that has been read to its end finds nothing, and only then.
LEMMA FillAtEnd ==
  ASSUME BufferInv, ops = "memory", NEW n \in FillCounts
  PROVE  n = 0 <=> store_pos = Len(store)
<1>1. Len(store) \in Nat /\ store_pos \in Nat /\ store_pos <= Len(store)
  BY LenProperties DEF BufferInv, TypeOK, WithinBounds
<1> QED BY <1>1, BufSizeAssumption DEF FillCounts, Min2

\* What a fill that found nothing leaves behind.
LEMMA EmptyFill ==
  ASSUME BufferInv, NEW n \in FillCounts, NEW k \in Nat, k <= n, n = 0, FillAndTake(n, k)
  PROVE  /\ pos' = 0 /\ Len(block') = 0 /\ store' = store
         /\ ops = "memory" => store_pos' = Len(store)
<1>1. Len(block') = 0 /\ pos' = 0
  BY FillEffect DEF FillAndTake
<1>2. store' = store /\ store_pos' = store_pos + 0 /\ store_pos \in Nat
  BY DEF FillAndTake, BufferInv, TypeOK
<1> QED BY <1>1, <1>2, FillAtEnd

\* An iteration of read_internal that comes up short has met the end; one that
\* follows it meets it again.
LEMMA ReadStepEof ==
  ASSUME BufferInv, EofInv, ops' = ops, ReadStep
  PROVE  EofInv' /\ (ops = "memory" /\ ret = "eof" => ret' = "eof")
<1>1. /\ Len(block) \in Nat /\ pos \in Nat /\ pos <= Len(block) /\ call.left \in Nat
  BY LenProperties DEF BufferInv, TypeOK, WithinBounds
<1>2. CASE /\ pos < Len(block)
           /\ LET k == Min2(Len(block) - pos, call.left)
              IN  /\ Take(k)
                  /\ call' = InCall("read", call.left - k)
                  /\ ret' = IF k = call.left THEN "ok" ELSE ret
  <2>1. ~(ops = "memory" /\ ret = "eof")
    BY <1>1, <1>2 DEF EofInv
  <2>2. ~(ops' = "memory" /\ ret' = "eof") /\ call'.op # "write"
    BY <1>2, <2>1 DEF InCall, NoCall
  <2> QED BY <2>1, <2>2 DEF EofInv
<1>3. CASE \E n \in FillCounts :
             LET k == Min2(n, call.left)
             IN  /\ FillAndTake(n, k)
                 /\ call' = IF n = 0 THEN NoCall ELSE InCall("read", call.left - k)
                 /\ ret' = IF n = 0 THEN "eof" ELSE IF k = call.left THEN "ok" ELSE ret
  <2> PICK n \in FillCounts :
        /\ FillAndTake(n, Min2(n, call.left))
        /\ call' = IF n = 0 THEN NoCall ELSE InCall("read", call.left - Min2(n, call.left))
        /\ ret' = IF n = 0 THEN "eof" ELSE IF Min2(n, call.left) = call.left THEN "ok" ELSE ret
    BY <1>3
  <2>1. Min2(n, call.left) \in Nat /\ Min2(n, call.left) <= n
    BY <1>1, FillCountsBounded DEF Min2
  <2>2. call'.op # "write"
    BY DEF InCall, NoCall
  <2>3. CASE n = 0
    BY <2>1, <2>2, <2>3, EmptyFill DEF EofInv
  <2>4. CASE n # 0
    <3>1. ~(ops = "memory" /\ ret = "eof")
      BY <2>4, FillAtEnd DEF EofInv
    <3> QED BY <2>2, <2>4, <3>1 DEF EofInv
  <2> QED BY <2>3, <2>4
<1> QED BY <1>2, <1>3 DEF ReadStep

\* The same for the calls that fill an empty block themselves.
LEMMA GetOrPeekEof ==
  ASSUME BufferInv, EofInv, ops' = ops, NEW k \in {0, 1}, GetOrPeek(k)
  PROVE  EofInv' /\ (ops = "memory" /\ ret = "eof" => ret' = "eof")
<1>1. /\ Len(block) \in Nat /\ pos \in Nat /\ pos <= Len(block)
      /\ call'.op # "write"
  BY LenProperties DEF BufferInv, TypeOK, WithinBounds, GetOrPeek, Ready, NoCall
<1>2. CASE pos < Len(block) /\ Take(k) /\ ret' = "ok"
  BY <1>1, <1>2 DEF EofInv
<1>3. CASE \E n \in FillCounts :
             FillAndTake(n, Min2(n, k)) /\ ret' = IF n = 0 THEN "eof" ELSE "ok"
  <2> PICK n \in FillCounts :
        FillAndTake(n, Min2(n, k)) /\ ret' = IF n = 0 THEN "eof" ELSE "ok"
    BY <1>3
  <2>1. Min2(n, k) \in Nat /\ Min2(n, k) <= n
    BY FillCountsBounded DEF Min2
  <2>2. CASE n = 0
    BY <1>1, <2>1, <2>2, EmptyFill DEF EofInv
  <2>3. CASE n # 0
    BY <1>1, <2>3, FillAtEnd DEF EofInv
  <2> QED BY <2>2, <2>3
<1> QED BY <1>2, <1>3 DEF GetOrPeek

\* No step makes a reading call succeed after one that met the end of memory.
LEMMA EofStep ==
  BufferInv /\ EofInv /\ [Next]_vars =>
    EofInv' /\ (ops = "memory" /\ ret = "eof" => ret' \in {"eof", "none"})
<1> SUFFICES ASSUME BufferInv, EofInv, [Next]_vars
             PROVE  EofInv' /\ (ops = "memory" /\ ret = "eof" => ret' \in {"eof", "none"})
  OBVIOUS
<1>0. ops' = ops
  BY DEF Next, vars
<1>a. Len(block) \in Nat /\ Len(store) \in Nat /\ pos \in Nat /\ store_pos \in Nat
      /\ pos <= Len(block)
  BY LenProperties DEF BufferInv, TypeOK, WithinBounds
<1>b. CASE Abort
  BY <1>0, <1>b DEF Abort, Aborted, EofInv, backend
<1>c. CASE FlushFails
  BY <1>0, <1>c DEF FlushFails, Aborted, EofInv
<1>1. ASSUME NEW n \in 0..MaxCount, Write(n), ~Abort PROVE ret' = "none"
  BY <1>1 DEF Write
<1>2. ASSUME NEW n \in 0..MaxCount, Read(n), ~Abort
      PROVE  EofInv' /\ (ops = "memory" /\ ret = "eof" => ret' \in {"eof", "none"})
  <2>1. n \in Nat /\ call = NoCall
    BY <1>2, BoundsAssumption DEF Read, Ready
  <2>2. CASE /\ n <= Len(block) - pos /\ Take(n)
             /\ ret' = (IF n = 0 THEN ret ELSE "ok") /\ UNCHANGED call
    <3>1. CASE n = 0
      BY <1>0, <1>a, <2>1, <2>2, <3>1 DEF Take, EofInv, NoCall, backend
    <3>2. CASE n # 0
      BY <1>0, <1>a, <2>1, <2>2, <3>2 DEF EofInv, NoCall
    <3> QED BY <3>1, <3>2
  <2>3. CASE /\ call' = InCall("read", n)
             /\ UNCHANGED <<block, pos, written_total, backend, out, ret>>
    BY <1>0, <2>3 DEF EofInv, InCall, NoCall, backend
  <2> QED BY <1>2, <2>2, <2>3 DEF Read
<1>3. CASE WriteStep /\ ~FlushFails
  BY <1>3 DEF WriteStep, EofInv
<1>4. CASE ReadStep
  BY <1>0, <1>4, ReadStepEof
<1>5. CASE Getc \/ Peek \/ (IsEof /\ ~Abort)
  BY <1>0, <1>5, GetOrPeekEof DEF Getc, Peek, IsEof
<1>6. CASE Ungetc /\ ~Abort
  BY <1>0, <1>6 DEF Ungetc, Ready, NoCall, EofInv
<1>7. CASE Flush /\ ~FlushFails
  BY <1>7 DEF Flush, EofInv
<1>8. CASE Delete /\ ~FlushFails
  <2>1. pos' = 0 /\ block' = <<>> /\ ret' = ret /\ call'.op # "write"
    BY <1>8 DEF Delete, Deleted
  <2>2. Len(block') = 0
    BY <2>1, EmptySeq
  <2>3. CASE ops = "memory" /\ ret = "eof"
    <3>1. CASE mode # "WRITING"
      BY <1>0, <1>8, <2>1, <2>2, <2>3, <3>1 DEF Delete, EofInv, backend
    <3>2. CASE mode = "WRITING"
      <4>1. store' = store \o block /\ store_pos' = store_pos
        BY <1>8, <2>3, <3>2 DEF Delete, OpsFlush, MemFlush
      <4>2. Len(store') = Len(store) + Len(block)
        BY <4>1, ConcatProperties DEF BufferInv, TypeOK
      <4> QED BY <1>a, <2>1, <2>2, <2>3, <4>1, <4>2 DEF EofInv
    <3> QED BY <3>1, <3>2
  <2> QED BY <1>0, <2>1, <2>3 DEF EofInv
<1>9. CASE UNCHANGED vars
  BY <1>9 DEF vars, EofInv
<1>10. ASSUME ret' = "none" PROVE EofInv'
  BY <1>10 DEF EofInv
<1>11. CASE \E n \in 0..MaxCount : Write(n) \/ Read(n)
  BY <1>b, <1>1, <1>2, <1>10, <1>11
<1>12. CASE WriteStep \/ Flush \/ Delete
  BY <1>c, <1>3, <1>7, <1>8, <1>10, <1>12
<1>13. CASE Ungetc \/ IsEof
  BY <1>b, <1>5, <1>6, <1>13
<1> QED BY <1>4, <1>5, <1>9, <1>11, <1>12, <1>13 DEF Next

\* Once a reading call on memory has come up short, every later one does, until
\* something is written: for every block size and every order of calls.
THEOREM EofFinal == Spec => EofIsSticky
<1>1. Init => EofInv
  BY DEF Init, EofInv, NoCall
<1> QED BY InitInv, StepInv, EofStep, <1>1, PTL DEF Spec, EofIsSticky

-----------------------------------------------------------------------------
(* The order of the bytes.  They are numbered in the order in which they   *)
(* come, so every part of the state is a run of consecutive numbers: the   *)
(* invariant gives the two ends of each run, and every memcpy, fill and    *)
(* flush cuts or joins runs.                                               *)

\* The numbers behind a up to b.
Run(a, b) == [i \in 1..(b - a) |-> a + i]

\* The part of Run(a, b) with the numbers behind lo up to hi.
Cut(a, b, lo, hi) == SubSeq(Run(a, b), lo - a + 1, hi - a)

\* The part of s behind its first p elements up to the q-th.
Part(s, p, q) == SubSeq(s, p + 1, q)

\* The elements of that part are the numbers behind a.
Follow(s, p, q, a) == \A i \in (p + 1)..q : s[i] = a + (i - p)

\* The number of the byte before the first one that can be read.
Base == IF ops = "memory" THEN FileLen ELSE 0

\* Reading: what the client got ends where the block is read, and the block ends
\* where the back-end goes on.
ReadingBack ==
  /\ store = Run(Base, Base + Len(store))
  /\ Len(block) <= store_pos
  /\ block = Run(Base + store_pos - Len(block), Base + store_pos)
  /\ out = Run(Base, Base + store_pos - Len(block) + pos)

\* Writing to memory: the block goes on where the memory ends.
WritingMemory ==
  /\ store = Run(FileLen, FileLen + Len(store))
  /\ written_total = Len(store) + Len(block)
  /\ block = Run(FileLen + Len(store), FileLen + written_total)
  /\ pos = Len(block)
  /\ out = Run(FileLen, FileLen + store_pos)

\* Writing over a file: written bytes up to the offset, the old ones behind it.
Overwritten(offset) ==
  Run(FileLen, FileLen + offset) \o Run(offset, Max2(FileLen, offset))
WritingFile ==
  /\ store = Overwritten(store_pos)
  /\ written_total = store_pos + Len(block)
  /\ block = Run(FileLen + store_pos, FileLen + written_total)
  /\ pos = Len(block)
  /\ out = <<>>

\* The inductive invariant.  A file the client has not written to yet may be in
\* writing mode, but then nothing of it was read.
ClientInv ==
  /\ call.op = "write" => mode = "WRITING"
  /\ call.op = "read" => mode # "WRITING"
  /\ ops = "memory" /\ call # Deleted =>
       /\ call # Aborted
       /\ mode = "WRITING" => WritingMemory
       /\ mode # "WRITING" => ReadingBack /\ written_total = Len(store)
  /\ ops = "file" /\ written_total = 0 /\ call # Deleted =>
       /\ ReadingBack /\ Len(store) = FileLen
       /\ mode = "WRITING" => store_pos = 0
  /\ ops = "file" /\ written_total > 0 =>
       /\ call.op # "read"
       /\ IF call = Aborted
          THEN store = Overwritten(store_pos) /\ store_pos <= written_total
          ELSE WritingFile /\ (mode # "WRITING" => block = <<>>)

-----------------------------------------------------------------------------
(* Runs.                                                                   *)

\* A run is a sequence of consecutive numbers.
LEMMA RunIsSeq ==
  ASSUME NEW a \in Nat, NEW b \in Nat, a <= b
  PROVE  /\ Run(a, b) \in Seq(Nat) /\ Len(Run(a, b)) = b - a
         /\ \A i \in 1..(b - a) : Run(a, b)[i] = a + i
<1>1. Run(a, b) \in [1..(b - a) -> Nat]
  BY DEF Run
<1>2. b - a \in Nat
  OBVIOUS
<1>3. Run(a, b) \in Seq(Nat)
  BY <1>1, <1>2, SeqDef
<1>4. Len(Run(a, b)) = b - a
  BY <1>1, <1>2, <1>3, LenProperties
<1> QED BY <1>3, <1>4 DEF Run

\* The length of a run.
LEMMA RunLength == \A a, b \in Nat : a <= b => Len(Run(a, b)) = b - a
BY RunIsSeq

\* A sequence of consecutive numbers is a run.
LEMMA SeqIsRun ==
  ASSUME NEW a \in Nat, NEW b \in Nat, a <= b, NEW s \in Seq(Nat),
         Len(s) = b - a, \A i \in 1..(b - a) : s[i] = a + i
  PROVE  s = Run(a, b)
<1>1. /\ Run(a, b) \in Seq(Nat) /\ Len(Run(a, b)) = b - a
      /\ \A i \in 1..(b - a) : Run(a, b)[i] = a + i
  BY RunIsSeq
<1> QED BY <1>1, SeqEqual

\* No numbers.
LEMMA EmptyRun == ASSUME NEW a \in Nat PROVE Run(a, a) = <<>>
<1>1. Run(a, a) \in Seq(Nat) /\ Len(Run(a, a)) = 0
  BY RunIsSeq
<1> QED BY <1>1, EmptySeq

\* Runs that meet are joined.
LEMMA JoinedRuns ==
  ASSUME NEW a \in Nat, NEW b \in Nat, NEW c \in Nat, a <= b, b <= c
  PROVE  Run(a, b) \o Run(b, c) = Run(a, c)
<1>1. /\ Run(a, b) \in Seq(Nat) /\ Len(Run(a, b)) = b - a
      /\ \A i \in 1..(b - a) : Run(a, b)[i] = a + i
  BY RunIsSeq
<1>2. /\ Run(b, c) \in Seq(Nat) /\ Len(Run(b, c)) = c - b
      /\ \A i \in 1..(c - b) : Run(b, c)[i] = b + i
  BY RunIsSeq
<1> DEFINE s == Run(a, b) \o Run(b, c)
<1>3. /\ s \in Seq(Nat)
      /\ Len(s) = (b - a) + (c - b)
      /\ \A i \in 1..((b - a) + (c - b)) :
           s[i] = IF i <= b - a THEN Run(a, b)[i] ELSE Run(b, c)[i - (b - a)]
  <2>1. /\ s \in Seq(Nat)
        /\ Len(s) = Len(Run(a, b)) + Len(Run(b, c))
        /\ \A i \in 1..(Len(Run(a, b)) + Len(Run(b, c))) :
             s[i] = IF i <= Len(Run(a, b)) THEN Run(a, b)[i]
                                          ELSE Run(b, c)[i - Len(Run(a, b))]
    BY <1>1, <1>2, ConcatProperties
  <2> HIDE DEF s
  <2>2. Len(Run(a, b)) = b - a /\ Len(Run(b, c)) = c - b
    BY <1>1, <1>2
  <2> QED BY <2>1, <2>2
<1> HIDE DEF s
<1>4. Len(s) = c - a
  BY <1>3
<1>5. \A i \in 1..(c - a) : s[i] = a + i
  <2> SUFFICES ASSUME NEW i \in 1..(c - a) PROVE s[i] = a + i
    OBVIOUS
  <2>1. CASE i <= b - a
    BY <1>1, <1>3, <2>1
  <2>2. CASE ~(i <= b - a)
    <3>1. i - (b - a) \in 1..(c - b) /\ b + (i - (b - a)) = a + i
      BY <2>2
    <3> QED BY <1>2, <1>3, <2>2, <3>1
  <2> QED BY <2>1, <2>2
<1>6. s = Run(a, c)
  BY <1>3, <1>4, <1>5, SeqIsRun
<1> QED BY <1>6 DEF s

\* A part of a run is a run.
LEMMA CutIsRun ==
  \A a, b, lo, hi \in Nat : a <= lo /\ lo <= hi /\ hi <= b => Cut(a, b, lo, hi) = Run(lo, hi)
<1> SUFFICES ASSUME NEW a \in Nat, NEW b \in Nat, NEW lo \in Nat, NEW hi \in Nat,
                    a <= lo, lo <= hi, hi <= b
             PROVE  Cut(a, b, lo, hi) = Run(lo, hi)
  OBVIOUS
<1> DEFINE first == lo - a + 1
           last == hi - a
<1>1. first \in Nat /\ first >= 1 /\ last \in Nat /\ first <= last + 1 /\ last <= b - a
      /\ lo = a + first - 1 /\ hi = a + last
  OBVIOUS
<1> HIDE DEF first, last
<1>2. a <= b
  OBVIOUS
<1> DEFINE s == SubSeq(Run(a, b), first, last)
<1>3. /\ Run(a, b) \in Seq(Nat) /\ Len(Run(a, b)) = b - a
      /\ \A i \in 1..(b - a) : Run(a, b)[i] = a + i
  BY <1>2, RunIsSeq
<1>4. \A i \in first..last : Run(a, b)[i] \in Nat
  BY <1>1, <1>3
<1>5. /\ s \in Seq(Nat)
      /\ Len(s) = IF first <= last THEN last - first + 1 ELSE 0
      /\ \A i \in 1..(last - first + 1) : s[i] = Run(a, b)[first + i - 1]
  BY <1>1, <1>4, SubSeqProperties
<1> HIDE DEF s
<1>6. Len(s) = hi - lo
  BY <1>1, <1>5
<1>7. \A i \in 1..(hi - lo) : s[i] = lo + i
  BY <1>1, <1>3, <1>5
<1>8. s = Run(lo, hi)
  BY <1>5, <1>6, <1>7, SeqIsRun
<1> QED BY <1>8 DEF s, Cut, first, last

\* The quantities the runs are made of.
LEMMA Sizes ==
  ASSUME BufferInv
  PROVE  /\ FileLen \in Nat /\ Base \in Nat /\ BufSize \in Nat /\ BufSize > 0
         /\ Len(block) \in Nat /\ Len(store) \in Nat /\ Len(out) \in Nat
         /\ pos \in Nat /\ store_pos \in Nat /\ written_total \in Nat /\ call.left \in Nat
         /\ pos <= Len(block) /\ Len(block) <= BufSize /\ store_pos <= Len(store)
BY BufSizeAssumption, BoundsAssumption, LenProperties
   DEF BufferInv, TypeOK, WithinBounds, Base

\* The sequences.
LEMMA Bytes ==
  ASSUME BufferInv
  PROVE  block \in Seq(Nat) /\ store \in Seq(Nat) /\ out \in Seq(Nat)
BY DEF BufferInv, TypeOK

-----------------------------------------------------------------------------
(* What the helpers of NbBuffer do to the runs.                            *)

\* The client's next bytes are the next numbers.
LEMMA FreshRun ==
  ASSUME BufferInv, NEW n \in Nat
  PROVE  Fresh(n) = Run(FileLen + written_total, FileLen + written_total + n)
BY Sizes DEF Fresh, Run

\* memcpy behind the block's last byte.
LEMMA PutRun ==
  ASSUME BufferInv, NEW n \in Nat, NEW a \in Nat, a <= FileLen + written_total,
         block = Run(a, FileLen + written_total), pos = Len(block), Put(pos, n)
  PROVE  /\ block' = Run(a, FileLen + written_total') /\ pos' = Len(block')
         /\ written_total' = written_total + n
<1>1. SubSeq(block, 1, pos) = block
  BY Bytes, SubSeqFull
<1>2. Fresh(n) = Run(FileLen + written_total, FileLen + written_total + n)
  BY FreshRun
<1>3. written_total' = written_total + n /\ pos' = pos + n
  BY DEF Put
<1>4. block' = SubSeq(block, 1, pos) \o Fresh(n)
  BY DEF Put
<1> DEFINE b == FileLen + written_total
<1>5. b \in Nat /\ b + n \in Nat /\ a <= b /\ b <= b + n
  BY Sizes
<1>10. FileLen + written_total' = b + n
  BY <1>3, Sizes
<1>6. block = Run(a, b) /\ Fresh(n) = Run(b, b + n)
  BY <1>2
<1> HIDE DEF b
<1>7. block' = Run(a, b + n)
  <2>1. Run(a, b) \o Run(b, b + n) = Run(a, b + n)
    BY <1>5, JoinedRuns
  <2> QED BY <1>1, <1>4, <1>6, <2>1
<1>8. Len(block) = b - a /\ Len(block') = b + n - a
  <2>1. a <= b + n
    BY <1>5
  <2>2. Len(Run(a, b)) = b - a /\ Len(Run(a, b + n)) = (b + n) - a
    BY <1>5, <2>1, RunLength
  <2> QED BY <1>5, <1>6, <1>7, <2>2
<1>9. pos' = Len(block')
  BY <1>3, <1>5, <1>8
<1> QED BY <1>3, <1>7, <1>9, <1>10

\* memcpy to the beginning of a block that was just flushed.
LEMMA PutFirstRun ==
  ASSUME BufferInv, NEW n \in Nat, Put(0, n)
  PROVE  /\ block' = Run(FileLen + written_total, FileLen + written_total')
         /\ Len(block') = n /\ pos' = n /\ written_total' = written_total + n
<1>1. SubSeq(block, 1, 0) = <<>>
  BY SubSeqEmpty
<1>2. Fresh(n) = Run(FileLen + written_total, FileLen + written_total + n)
      /\ Fresh(n) \in Seq(Nat) /\ Len(Fresh(n)) = n
  BY FreshRun, FreshIsSeq DEF BufferInv
<1>3. written_total' = written_total + n /\ pos' = n
  BY DEF Put
<1>4. block' = Fresh(n)
  <2>1. block' = SubSeq(block, 1, 0) \o Fresh(n)
    BY DEF Put
  <2> QED BY <1>1, <1>2, <2>1, ConcatEmptySeq
<1>5. FileLen + written_total' = FileLen + written_total + n
  BY <1>3, Sizes
<1> QED BY <1>2, <1>3, <1>4, <1>5

\* Consuming bytes of the block.
LEMMA TakeRun ==
  ASSUME BufferInv, ReadingBack, ops' = ops, NEW k \in Nat, k <= Len(block) - pos, Take(k)
  PROVE  ReadingBack'
<1> DEFINE a == Base + store_pos - Len(block)
           b == Base + store_pos
<1>0. /\ Base \in Nat /\ store_pos \in Nat /\ Len(block) \in Nat /\ pos \in Nat
      /\ pos <= Len(block) /\ Len(block) <= store_pos
  BY Sizes DEF ReadingBack
<1>1. /\ a \in Nat /\ b \in Nat /\ a <= b /\ b - a = Len(block)
      /\ a + pos \in Nat /\ a + pos + k \in Nat
  BY <1>0
<1>2. block = Run(a, b) /\ out = Run(Base, a + pos)
  BY DEF ReadingBack
<1>3. /\ pos' = pos + k /\ block' = block /\ store' = store /\ store_pos' = store_pos
      /\ out' = out \o SubSeq(block, pos + 1, pos + k)
  BY DEF Take, backend
<1> HIDE DEF a, b
<1>4. SubSeq(block, pos + 1, pos + k) = Run(a + pos, a + (pos + k))
  <2> DEFINE lo == a + pos
             hi == a + (pos + k)
  <2>1. /\ lo \in Nat /\ hi \in Nat /\ a <= lo /\ lo <= hi /\ hi <= b
        /\ lo - a + 1 = pos + 1 /\ hi - a = pos + k
    BY <1>0, <1>1
  <2> HIDE DEF lo, hi
  <2>2. Cut(a, b, lo, hi) = Run(lo, hi)
    BY <1>1, <2>1, CutIsRun
  <2>3. Cut(a, b, lo, hi) = SubSeq(block, pos + 1, pos + k)
    BY <1>2, <2>1 DEF Cut
  <2> QED BY <2>2, <2>3 DEF lo, hi
<1>5. out' = Run(Base, a + (pos + k))
  <2>1. Base <= a + pos /\ a + pos <= a + (pos + k) /\ a + (pos + k) \in Nat
    BY <1>0, <1>1 DEF a
  <2>2. Run(Base, a + pos) \o Run(a + pos, a + (pos + k)) = Run(Base, a + (pos + k))
    BY <1>0, <1>1, <2>1, JoinedRuns
  <2> QED BY <1>2, <1>3, <1>4, <2>2
<1> QED BY <1>3, <1>5 DEF ReadingBack, Base, a

\* A fill goes on where the block ended.
LEMMA FillRun ==
  ASSUME BufferInv, ReadingBack, ops' = ops, pos = Len(block),
         NEW n \in FillCounts, NEW k \in Nat, k <= n, FillAndTake(n, k)
  PROVE  ReadingBack'
<1>0. /\ Base \in Nat /\ store_pos \in Nat /\ Len(block) \in Nat /\ Len(store) \in Nat
      /\ Len(block) <= store_pos /\ store_pos <= Len(store)
  BY Sizes DEF ReadingBack
<1>1. n \in Nat /\ n <= Len(store) - store_pos
  BY FillCountsBounded
<1>2. /\ store' = store /\ block' = Filled(n) /\ pos' = k
      /\ out' = out \o SubSeq(Filled(n), 1, k)
  BY DEF FillAndTake
<1>3. store_pos' = store_pos + n
  BY DEF FillAndTake
<1> DEFINE b == Base + store_pos
<1>4. b \in Nat /\ b + n \in Nat /\ b + k \in Nat /\ Base <= b /\ b <= b + n /\ b <= b + k
  BY <1>0, <1>1
<1>5. Filled(n) = Run(b, b + n)
  <2>1. store = Run(Base, Base + Len(store))
    BY DEF ReadingBack
  <2> DEFINE c == Base + Len(store)
             hi == b + n
  <2>2. /\ c \in Nat /\ hi \in Nat /\ Base <= b /\ b <= hi /\ hi <= c
        /\ b - Base + 1 = store_pos + 1 /\ hi - Base = store_pos + n
    BY <1>0, <1>1
  <2>3. store = Run(Base, c)
    BY <2>1
  <2> HIDE DEF c, hi
  <2>4. Cut(Base, c, b, hi) = Run(b, hi)
    BY <1>0, <1>4, <2>2, CutIsRun
  <2>5. Cut(Base, c, b, hi) = SubSeq(store, store_pos + 1, store_pos + n)
    BY <2>2, <2>3 DEF Cut
  <2> QED BY <2>4, <2>5 DEF Filled, hi
<1>6. out = Run(Base, b)
  <2>1. Base + store_pos - Len(block) + pos = b
    BY <1>0
  <2> QED BY <2>1 DEF ReadingBack
<1> HIDE DEF b
<1>7. SubSeq(Filled(n), 1, k) = Run(b, b + k)
  <2> DEFINE c == b + n
             hi == b + k
  <2>1. c \in Nat /\ hi \in Nat /\ b <= hi /\ hi <= c /\ b - b + 1 = 1 /\ hi - b = k
    BY <1>1, <1>4
  <2>2. Filled(n) = Run(b, c)
    BY <1>5
  <2> HIDE DEF c, hi
  <2>3. Cut(b, c, b, hi) = Run(b, hi)
    BY <1>4, <2>1, CutIsRun
  <2>4. Cut(b, c, b, hi) = SubSeq(Filled(n), 1, k)
    BY <2>1, <2>2 DEF Cut
  <2> QED BY <2>3, <2>4 DEF hi
<1>8. out' = Run(Base, b + k)
  <2>1. Run(Base, b) \o Run(b, b + k) = Run(Base, b + k)
    BY <1>0, <1>4, JoinedRuns
  <2> QED BY <1>2, <1>6, <1>7, <2>1
<1>9. Len(block') = n
  <2>1. Len(Run(b, b + n)) = (b + n) - b
    BY <1>4, RunLength
  <2> QED BY <1>1, <1>2, <1>4, <1>5, <2>1
<1>10. Base' = Base /\ Len(store') = Len(store)
  BY <1>2 DEF Base
<1>11. /\ Base + store_pos' = b + n
       /\ Base + store_pos' - n = b
       /\ Base + store_pos' - n + k = b + k
       /\ n <= store_pos'
  BY <1>0, <1>1, <1>3 DEF b
<1> QED BY <1>2, <1>5, <1>8, <1>9, <1>10, <1>11 DEF ReadingBack

\* A part of a sequence whose numbers follow each other is a run.
LEMMA PartIsRun ==
  ASSUME NEW s \in Seq(Nat), NEW p \in Nat, NEW q \in Nat, NEW a \in Nat, NEW b \in Nat,
         p <= q, q <= Len(s), b = a + (q - p), Follow(s, p, q, a)
  PROVE  Part(s, p, q) = Run(a, b)
<1>1. Len(s) \in Nat /\ \A i \in 1..Len(s) : s[i] \in Nat
  BY LenProperties, ElementOfSeq
<1>2. \A i \in (p + 1)..q : s[i] \in Nat
  BY <1>1
<1> DEFINE t == SubSeq(s, p + 1, q)
           first == p + 1
<1>3. first \in Int /\ q \in Int /\ q - first + 1 = q - p
  OBVIOUS
<1>4. /\ t \in Seq(Nat)
      /\ Len(t) = IF first <= q THEN q - first + 1 ELSE 0
      /\ \A i \in 1..(q - first + 1) : t[i] = s[first + i - 1]
  BY <1>2, <1>3, SubSeqProperties
<1> HIDE DEF t
<1>5. Len(t) = q - p
  BY <1>3, <1>4
<1>6. \A i \in 1..(q - p) : t[i] = a + i
  <2> USE DEF Follow
  <2> TAKE i \in 1..(q - p)
  <2>1. first + i - 1 \in (p + 1)..q /\ first + i - 1 - p = i
    OBVIOUS
  <2>2. t[i] = s[first + i - 1]
    BY <1>3, <1>4
  <2> QED BY <2>1, <2>2
<1>7. a <= b /\ b - a = q - p
  OBVIOUS
<1>8. t = Run(a, b)
  BY <1>4, <1>5, <1>6, <1>7, SeqIsRun
<1> QED BY <1>8 DEF t, Part

\* What the file holds when writing has come to the offset p.
LEMMA OverwrittenSeq ==
  ASSUME FileLen \in Nat, NEW p \in Nat
  PROVE  /\ Overwritten(p) \in Seq(Nat) /\ Len(Overwritten(p)) = Max2(FileLen, p)
         /\ \A i \in 1..Max2(FileLen, p) :
              Overwritten(p)[i] = IF i <= p THEN FileLen + i ELSE i
<1> DEFINE r == Run(FileLen, FileLen + p)
           t == Run(p, Max2(FileLen, p))
<1>1. FileLen + p \in Nat /\ Max2(FileLen, p) \in Nat /\ p <= Max2(FileLen, p)
  BY DEF Max2
<1>2. r \in Seq(Nat) /\ Len(r) = p /\ \A i \in 1..p : r[i] = FileLen + i
  <2> DEFINE c == FileLen + p
  <2>1. c \in Nat /\ FileLen <= c /\ c - FileLen = p
    BY <1>1
  <2> HIDE DEF c
  <2>2. /\ Run(FileLen, c) \in Seq(Nat) /\ Len(Run(FileLen, c)) = c - FileLen
        /\ \A i \in 1..(c - FileLen) : Run(FileLen, c)[i] = FileLen + i
    BY <2>1, RunIsSeq
  <2> QED BY <2>1, <2>2 DEF c
<1>3. /\ t \in Seq(Nat) /\ Len(t) = Max2(FileLen, p) - p
      /\ \A i \in 1..(Max2(FileLen, p) - p) : t[i] = p + i
  BY <1>1, RunIsSeq
<1> HIDE DEF r, t
<1>4. /\ r \o t \in Seq(Nat) /\ Len(r \o t) = Len(r) + Len(t)
      /\ \A i \in 1..(Len(r) + Len(t)) :
           (r \o t)[i] = IF i <= Len(r) THEN r[i] ELSE t[i - Len(r)]
  BY <1>2, <1>3, ConcatProperties
<1>5. Len(r) + Len(t) = Max2(FileLen, p)
  BY <1>1, <1>2, <1>3
<1>6. Overwritten(p) = r \o t
  BY DEF Overwritten, r, t
<1>7. Len(r \o t) = Max2(FileLen, p)
  BY <1>4, <1>5
<1> DEFINE m == Max2(FileLen, p)
<1>8. \A i \in 1..m : (r \o t)[i] = IF i <= p THEN FileLen + i ELSE i
  <2> TAKE i \in 1..m
  <2>1. (r \o t)[i] = IF i <= p THEN r[i] ELSE t[i - p]
    BY <1>2, <1>4, <1>5
  <2>2. CASE i <= p
    BY <1>2, <2>1, <2>2
  <2>3. CASE ~(i <= p)
    <3> HIDE DEF m
    <3>1. i - p \in 1..(m - p) /\ p + (i - p) = i
      BY <1>1, <2>3 DEF m
    <3> QED BY <1>3, <2>1, <2>3, <3>1 DEF m
  <2> QED BY <2>2, <2>3
<1> QED BY <1>4, <1>6, <1>7, <1>8

\* write(2) of the first n bytes of the block moves the border between what is
\* written and what is not.
LEMMA FileWriteRun ==
  ASSUME BufferInv, store = Overwritten(store_pos),
         written_total = store_pos + Len(block),
         block = Run(FileLen + store_pos, FileLen + written_total),
         NEW n \in Nat, n <= Len(block), FileWrite(n)
  PROVE  store' = Overwritten(store_pos + n) /\ store_pos' = store_pos + n
<1> DEFINE p == store_pos
           q == store_pos + n
           m == Len(store)
           F == FileLen
<1>1. p \in Nat /\ q \in Nat /\ m \in Nat /\ F \in Nat /\ p <= m /\ p <= q
      /\ q <= written_total /\ written_total \in Nat /\ n \in Nat /\ q - p = n
  <2>1. /\ FileLen \in Nat /\ Len(block) \in Nat /\ Len(store) \in Nat
        /\ store_pos \in Nat /\ written_total \in Nat /\ store_pos <= Len(store)
    BY Sizes
  <2> QED BY <2>1
<1>2. store \in Seq(Nat) /\ store = Overwritten(p)
  BY Bytes
<1>3. store' = SubSeq(store, 1, p) \o SubSeq(block, 1, n) \o SubSeq(store, q + 1, m)
      /\ store_pos' = q
  BY DEF FileWrite
<1>4. block = Run(F + p, F + written_total)
  OBVIOUS
<1> HIDE DEF p, q, m, F
<1>5. m = Max2(F, p) /\ \A i \in 1..m : store[i] = IF i <= p THEN F + i ELSE i
  BY <1>1, <1>2, OverwrittenSeq DEF m, F
<1>6. SubSeq(store, 1, p) = Run(F, F + p)
  <2> DEFINE b == F + p
  <2>1. 0 \in Nat /\ b \in Nat /\ 0 <= p /\ b = F + (p - 0) /\ 0 + 1 = 1
    BY <1>1
  <2>2. Follow(store, 0, p, F)
    BY <1>1, <1>5 DEF Follow
  <2> HIDE DEF b
  <2>3. Part(store, 0, p) = Run(F, b)
    BY <1>1, <1>2, <2>1, <2>2, PartIsRun DEF m
  <2> QED BY <2>1, <2>3 DEF Part, b
<1>7. SubSeq(block, 1, n) = Run(F + p, F + q)
  <2> DEFINE a == F + p
             b == F + written_total
             hi == F + q
  <2>1. a \in Nat /\ b \in Nat /\ hi \in Nat /\ a <= a /\ a <= hi /\ hi <= b
        /\ a - a + 1 = 1 /\ hi - a = n
    BY <1>1
  <2>2. block = Run(a, b)
    BY <1>4
  <2> HIDE DEF a, b, hi
  <2>3. Cut(a, b, a, hi) = Run(a, hi)
    BY <2>1, CutIsRun
  <2>4. Cut(a, b, a, hi) = SubSeq(block, 1, n)
    BY <2>1, <2>2 DEF Cut
  <2> QED BY <2>3, <2>4 DEF a, hi
<1>8. SubSeq(store, q + 1, m) = Run(q, Max2(F, q))
  <2>1. CASE q <= m
    <3>1. Follow(store, q, m, q)
      BY <1>1, <1>5 DEF Follow
    <3>2. m = q + (m - q)
      BY <1>1
    <3>3. Part(store, q, m) = Run(q, m)
      BY <1>1, <1>2, <2>1, <3>1, <3>2, PartIsRun DEF m
    <3>4. m = Max2(F, q)
      BY <1>1, <1>5, <2>1 DEF Max2
    <3> QED BY <3>3, <3>4 DEF Part
  <2>2. CASE m < q
    <3>1. SubSeq(store, q + 1, m) = <<>>
      BY <1>1, <2>2, SubSeqEmpty
    <3>2. Max2(F, q) = q
      BY <1>1, <1>5, <2>2 DEF Max2
    <3> QED BY <1>1, <3>1, <3>2, EmptyRun
  <2> QED BY <1>1, <2>1, <2>2
<1>9. Run(F, F + p) \o Run(F + p, F + q) = Run(F, F + q)
  <2>1. F + p \in Nat /\ F + q \in Nat /\ F <= F + p /\ F + p <= F + q
    BY <1>1
  <2> QED BY <1>1, <2>1, JoinedRuns
<1>10. store' = Run(F, F + q) \o Run(q, Max2(F, q))
  BY <1>3, <1>6, <1>7, <1>8, <1>9
<1> QED BY <1>3, <1>10 DEF Overwritten, F, q

\* mem_flush appends the block to the memory.
LEMMA MemFlushRun ==
  ASSUME BufferInv, WritingMemory, MemFlush
  PROVE  /\ store' = Run(FileLen, FileLen + written_total)
         /\ Len(store') = written_total /\ store_pos' = store_pos
<1> DEFINE b == FileLen + Len(store)
           c == FileLen + written_total
<1>1. FileLen \in Nat /\ b \in Nat /\ c \in Nat /\ FileLen <= b /\ b <= c
      /\ FileLen <= c /\ c - FileLen = written_total
  BY Sizes DEF WritingMemory
<1>2. store = Run(FileLen, b) /\ block = Run(b, c)
  BY DEF WritingMemory
<1>3. store' = store \o block /\ store_pos' = store_pos
  BY DEF MemFlush
<1> HIDE DEF b, c
<1>4. store' = Run(FileLen, c)
  BY <1>1, <1>2, <1>3, JoinedRuns
<1>5. Len(store') = written_total
  BY <1>1, <1>4, RunLength
<1> QED BY <1>3, <1>4, <1>5 DEF c

\* A byte that goes back is the one that was there.
LEMMA UngetcRun ==
  ASSUME BufferInv, ReadingBack, ops' = ops, Ungetc, pos > 0
  PROVE  ReadingBack' /\ block' = block
<1> DEFINE a == Base + store_pos - Len(block)
           b == Base + store_pos
           c == a + pos
<1>0. /\ Base \in Nat /\ store_pos \in Nat /\ Len(block) \in Nat /\ pos \in Nat
      /\ pos <= Len(block) /\ Len(block) <= store_pos
  BY Sizes DEF ReadingBack
<1>1. /\ a \in Nat /\ b \in Nat /\ c \in Nat /\ a <= b /\ b - a = Len(block) /\ Base <= c
      /\ pos \in 1..(b - a) /\ c - Base \in 1..(c - Base) /\ Base + (c - Base) = a + pos
      /\ c - 1 \in Nat /\ Base <= c - 1 /\ a + (pos - 1) = c - 1
      /\ Base + 1 - Base = 1 /\ c - Base - 1 = (c - 1) - Base /\ c - 1 <= c
      /\ Base - Base + 1 = 1
  BY <1>0
<1>2. block = Run(a, b) /\ out = Run(Base, c)
  BY DEF ReadingBack
<1>3. /\ pos' = pos - 1 /\ store' = store /\ store_pos' = store_pos
      /\ block' = [block EXCEPT ![pos] = out[Len(out)]]
      /\ out' = SubSeq(out, 1, Len(out) - 1)
  BY DEF Ungetc, Abort, backend
<1> HIDE DEF a, b, c
<1>4. Len(out) = c - Base
  BY <1>0, <1>1, <1>2, RunLength
<1>5. block[pos] = a + pos /\ out[Len(out)] = a + pos
  <2>1. \A i \in 1..(b - a) : Run(a, b)[i] = a + i
    BY <1>1, RunIsSeq
  <2>2. \A i \in 1..(c - Base) : Run(Base, c)[i] = Base + i
    BY <1>0, <1>1, RunIsSeq
  <2>3. Run(a, b)[pos] = a + pos
    BY <1>1, <2>1
  <2>4. Run(Base, c)[c - Base] = Base + (c - Base)
    BY <1>1, <2>2
  <2> QED BY <1>1, <1>2, <1>4, <2>3, <2>4
<1>6. block' = block
  <2>1. block \in Seq(Nat)
    BY Bytes
  <2>2. DOMAIN block = 1..Len(block) /\ block \in [1..Len(block) -> Nat]
    BY <2>1, LenProperties
  <2> QED BY <1>3, <1>5, <2>2
<1>7. out' = Run(Base, c - 1)
  <2> DEFINE d == c - 1
  <2>1. d \in Nat /\ Base <= Base /\ Base <= d /\ d <= c
    BY <1>0, <1>1
  <2>2. Cut(Base, c, Base, d) = Run(Base, d)
    <3> HIDE DEF d
    <3> QED BY <1>0, <1>1, <2>1, CutIsRun
  <2>3. Cut(Base, c, Base, d) = SubSeq(out, 1, Len(out) - 1)
    BY <1>1, <1>2, <1>4 DEF Cut
  <2> QED BY <1>3, <2>2, <2>3
<1>8. Base' = Base /\ a + (pos - 1) = c - 1
  BY <1>1 DEF Base
<1>9. out' = Run(Base', Base' + store_pos' - Len(block') + pos')
  BY <1>3, <1>6, <1>7, <1>8 DEF a
<1> QED BY <1>3, <1>6, <1>8, <1>9 DEF ReadingBack

-----------------------------------------------------------------------------
(* Every step of the client keeps the invariant: reading.                  *)

\* A buffer that can be read.
Reading ==
  /\ ReadingBack
  /\ ops = "memory" => written_total = Len(store)
  /\ ops = "file" => written_total = 0 /\ Len(store) = FileLen

\* A client that reads finds such a buffer,
LEMMA FindsReading ==
  ASSUME BufferInv, ClientInv, mode # "WRITING", call.op \in {"none", "read"},
         ops = "file" => written_total = 0
  PROVE  Reading
<1>1. ops \in {"memory", "file"} /\ call # Deleted
  BY DEF BufferInv, TypeOK, Backends, Deleted
<1> QED BY <1>1 DEF ClientInv, Reading

\* and the invariant holds when it leaves one.
LEMMA LeavesReading ==
  ASSUME Reading', mode' # "WRITING", call'.op \in {"none", "read"}
  PROVE  ClientInv'
BY DEF ClientInv, Reading, Aborted

\* Consuming bytes of the block.
LEMMA TakeKeepsReading ==
  ASSUME BufferInv, Reading, ops' = ops, NEW k \in Nat, k <= Len(block) - pos, Take(k)
  PROVE  Reading'
<1>1. ReadingBack'
  BY TakeRun DEF Reading
<1>2. written_total' = written_total /\ store' = store
  BY DEF Take, backend
<1> QED BY <1>1, <1>2 DEF Reading

\* Consuming bytes of a fill.
LEMMA FillKeepsReading ==
  ASSUME BufferInv, Reading, ops' = ops, pos = Len(block),
         NEW n \in FillCounts, NEW k \in Nat, k <= n, FillAndTake(n, k)
  PROVE  Reading'
<1>1. ReadingBack'
  BY FillRun DEF Reading
<1>2. written_total' = written_total /\ store' = store
  BY DEF FillAndTake
<1> QED BY <1>1, <1>2 DEF Reading

\* nb_buffer_getc and nb_buffer_peek.
LEMMA GetOrPeekKeepsReading ==
  ASSUME BufferInv, Reading, ops' = ops, NEW k \in {0, 1}, GetOrPeek(k)
  PROVE  Reading'
<1>1. Len(block) \in Nat /\ pos \in Nat
  BY Sizes
<1>2. CASE pos < Len(block) /\ Take(k)
  <2>1. k \in Nat /\ k <= Len(block) - pos
    BY <1>1, <1>2
  <2> QED BY <1>2, <2>1, TakeKeepsReading
<1>3. CASE pos = Len(block) /\ \E n \in FillCounts : FillAndTake(n, Min2(n, k))
  <2> PICK n \in FillCounts : FillAndTake(n, Min2(n, k))
    BY <1>3
  <2>1. Min2(n, k) \in Nat /\ Min2(n, k) <= n
    BY FillCountsBounded DEF Min2
  <2> QED BY <1>3, <2>1, FillKeepsReading
<1> QED BY <1>2, <1>3 DEF GetOrPeek

\* The reading calls of the client.
LEMMA ClientReadKeeps ==
  ASSUME BufferInv, ClientInv, ops' = ops, ClientRead
  PROVE  ClientInv'
<1>1. call = NoCall /\ mode # "WRITING" /\ (ops = "file" => written_total = 0)
  BY DEF ClientRead, Read, Getc, Peek, GetOrPeek, IsEof, Ungetc, Ready
<1>2. Reading
  BY <1>1, FindsReading DEF NoCall
<1>3. CASE \E n \in 0..MaxCount : Read(n)
  <2> PICK n \in 0..MaxCount : Read(n)
    BY <1>3
  <2>1. n \in Nat
    BY BoundsAssumption
  <2>2. mode' = "READING"
    BY <1>1 DEF Read
  <2>3. CASE n <= Len(block) - pos /\ Take(n) /\ UNCHANGED call
    <3>1. Reading'
      BY <1>2, <2>1, <2>3, TakeKeepsReading
    <3> QED BY <1>1, <2>2, <2>3, <3>1, LeavesReading DEF NoCall
  <2>4. CASE call' = InCall("read", n)
             /\ UNCHANGED <<block, pos, written_total, backend, out, ret>>
    <3>1. Reading'
      BY <1>2, <2>4 DEF Reading, ReadingBack, Base, backend
    <3>2. call'.op \in {"none", "read"}
      BY <2>4 DEF InCall, NoCall
    <3> QED BY <2>2, <3>1, <3>2, LeavesReading
  <2> QED BY <1>1, <2>3, <2>4 DEF Read
<1>4. ASSUME NEW k \in {0, 1}, GetOrPeek(k) PROVE ClientInv'
  <2>1. Reading'
    BY <1>2, <1>4, GetOrPeekKeepsReading
  <2>2. mode' = mode /\ call' = call
    BY <1>4 DEF GetOrPeek
  <2> QED BY <1>1, <2>1, <2>2, LeavesReading DEF NoCall
<1>5. CASE pos > 0 /\ Ungetc
  <2>1. ReadingBack'
    BY <1>2, <1>5, UngetcRun DEF Reading
  <2>2. UNCHANGED <<mode, written_total, store, call>>
    BY <1>5 DEF Ungetc, backend
  <2>3. Reading'
    BY <1>2, <2>1, <2>2 DEF Reading
  <2> QED BY <1>1, <2>2, <2>3, LeavesReading DEF NoCall
<1> QED BY <1>1, <1>3, <1>4, <1>5 DEF ClientRead, Getc, Peek, IsEof

\* An iteration of read_internal.
LEMMA ReadStepKeeps ==
  ASSUME BufferInv, ClientInv, ops' = ops, ReadStep
  PROVE  ClientInv'
<1>1. call.op = "read"
  BY DEF ReadStep
<1>2. mode # "WRITING" /\ mode' = mode
  BY <1>1 DEF ClientInv, ReadStep
<1>3. ops = "file" => written_total = 0
  <2>1. written_total \in Nat
    BY Sizes
  <2> QED BY <1>1, <2>1 DEF ClientInv
<1>4. Reading
  BY <1>1, <1>2, <1>3, FindsReading
<1>5. Len(block) \in Nat /\ pos \in Nat /\ call.left \in Nat
  BY Sizes
<1>6. CASE /\ pos < Len(block)
           /\ LET k == Min2(Len(block) - pos, call.left)
              IN  Take(k) /\ call' = InCall("read", call.left - k)
  <2> DEFINE k == Min2(Len(block) - pos, call.left)
  <2>1. k \in Nat /\ k <= Len(block) - pos
    BY <1>5, <1>6 DEF Min2
  <2>2. Take(k) /\ call' = InCall("read", call.left - k)
    BY <1>6
  <2> HIDE DEF k
  <2>3. Reading'
    BY <1>4, <2>1, <2>2, TakeKeepsReading
  <2>4. call'.op \in {"none", "read"}
    BY <2>2 DEF InCall, NoCall
  <2> QED BY <1>2, <2>3, <2>4, LeavesReading
<1>7. CASE /\ pos = Len(block)
           /\ \E n \in FillCounts :
                LET k == Min2(n, call.left)
                IN  /\ FillAndTake(n, k)
                    /\ call' = IF n = 0 THEN NoCall ELSE InCall("read", call.left - k)
  <2> PICK n \in FillCounts :
        /\ FillAndTake(n, Min2(n, call.left))
        /\ call' = IF n = 0 THEN NoCall ELSE InCall("read", call.left - Min2(n, call.left))
    BY <1>7
  <2>1. Min2(n, call.left) \in Nat /\ Min2(n, call.left) <= n
    BY <1>5, FillCountsBounded DEF Min2
  <2>2. Reading'
    BY <1>4, <1>7, <2>1, FillKeepsReading
  <2>3. call'.op \in {"none", "read"}
    BY DEF InCall, NoCall
  <2> QED BY <1>2, <2>2, <2>3, LeavesReading
<1>8. \/ /\ pos < Len(block)
         /\ LET k == Min2(Len(block) - pos, call.left)
            IN  Take(k) /\ call' = InCall("read", call.left - k)
      \/ /\ pos = Len(block)
         /\ \E n \in FillCounts :
              LET k == Min2(n, call.left)
              IN  /\ FillAndTake(n, k)
                  /\ call' = IF n = 0 THEN NoCall ELSE InCall("read", call.left - k)
  BY DEF ReadStep
<1> QED BY <1>6, <1>7, <1>8

-----------------------------------------------------------------------------
(* Every step of the client keeps the invariant: writing.                  *)

\* A buffer that can be written.
Writing ==
  /\ ops = "memory" => WritingMemory
  /\ ops = "file" => WritingFile

\* Before the first byte is written a file is as it was.
LEMMA StartOfFile ==
  ASSUME FileLen \in Nat, NEW s \in Seq(Nat), NEW p \in Nat, p + Len(s) = 0
  PROVE  p = 0 /\ Len(s) = 0 /\ s = <<>> /\ Overwritten(p) = Run(0, FileLen)
<1>1. Len(s) \in Nat /\ (s # <<>> => Len(s) \in Nat \ {0})
  BY LenProperties, EmptySeq
<1>2. p = 0 /\ Len(s) = 0
  BY <1>1
<1>3. Overwritten(0) = Run(FileLen, FileLen) \o Run(0, FileLen)
  BY DEF Overwritten, Max2
<1>4. Run(FileLen, FileLen) = <<>> /\ Run(0, FileLen) \in Seq(Nat)
  <2>1. 0 \in Nat /\ 0 <= FileLen
    OBVIOUS
  <2>2. Run(0, FileLen) \in Seq(Nat)
    BY <2>1, RunIsSeq
  <2> QED BY <2>2, EmptyRun
<1>5. <<>> \o Run(0, FileLen) = Run(0, FileLen)
  BY <1>4, ConcatEmptySeq
<1> QED BY <1>1, <1>2, <1>3, <1>4, <1>5

\* A client that writes finds such a buffer,
LEMMA FindsWriting ==
  ASSUME BufferInv, ClientInv, call.op \in {"none", "write"},
         mode = "WRITING" \/ (mode = "IDLE" /\ block = <<>>),
         ops = "file" => store_pos = 0 \/ written_total > 0 \/ mode = "WRITING"
  PROVE  Writing
<1>0. /\ FileLen \in Nat /\ store_pos \in Nat /\ Len(store) \in Nat /\ pos \in Nat
      /\ written_total \in Nat /\ Len(block) \in Nat /\ pos <= Len(block)
  BY Sizes
<1>1. call # Deleted /\ call # Aborted
  BY DEF Deleted, Aborted
<1>2. block = <<>> => Len(block) = 0
  BY EmptySeq
<1>3. CASE ops = "memory" /\ mode = "WRITING"
  BY <1>1, <1>3 DEF ClientInv, Writing
<1>4. CASE ops = "memory" /\ mode # "WRITING"
  <2>1. ReadingBack /\ written_total = Len(store) /\ block = <<>> /\ Base = FileLen
    BY <1>1, <1>4 DEF ClientInv, Base
  <2>2. Len(block) = 0 /\ pos = 0
    BY <1>0, <1>2, <2>1
  <2>3. block = Run(FileLen + Len(store), FileLen + written_total)
    <3>1. FileLen + Len(store) \in Nat
      BY <1>0
    <3> QED BY <2>1, <3>1, EmptyRun
  <2>4. Base + store_pos - Len(block) + pos = FileLen + store_pos
    BY <1>0, <2>1, <2>2
  <2>5. out = Run(FileLen, FileLen + store_pos)
    BY <2>1, <2>4 DEF ReadingBack
  <2>6. store = Run(FileLen, FileLen + Len(store))
    BY <2>1 DEF ReadingBack
  <2>7. written_total = Len(store) + Len(block)
    BY <1>0, <2>1, <2>2
  <2> QED BY <1>4, <2>2, <2>3, <2>5, <2>6, <2>7 DEF Writing, WritingMemory
<1>5. CASE ops = "file" /\ written_total > 0
  BY <1>1, <1>5 DEF ClientInv, Writing
<1>6. CASE ops = "file" /\ written_total = 0
  <2>1. ReadingBack /\ Len(store) = FileLen /\ store_pos = 0 /\ Base = 0
    BY <1>0, <1>1, <1>6 DEF ClientInv, Base
  <2>2. block \in Seq(Nat) /\ store_pos + Len(block) = 0
    BY <1>0, <2>1, Bytes DEF ReadingBack
  <2>3. Len(block) = 0 /\ block = <<>> /\ Overwritten(store_pos) = Run(0, FileLen)
    BY <1>0, <2>2, StartOfFile
  <2>4. pos = 0 /\ Base + store_pos - Len(block) + pos = 0 /\ FileLen + store_pos = FileLen
        /\ FileLen + written_total = FileLen /\ Base + Len(store) = FileLen
    BY <1>0, <1>6, <2>1, <2>3
  <2>5. store = Overwritten(store_pos)
    BY <2>1, <2>3, <2>4 DEF ReadingBack
  <2>6. out = <<>>
    BY <2>1, <2>4, EmptyRun DEF ReadingBack
  <2>7. block = Run(FileLen + store_pos, FileLen + written_total)
    BY <1>0, <2>3, <2>4, EmptyRun
  <2>8. written_total = store_pos + Len(block) /\ pos = Len(block)
    BY <1>6, <2>2, <2>3, <2>4
  <2> QED BY <1>6, <2>5, <2>6, <2>7, <2>8 DEF Writing, WritingFile
<1> QED BY <1>0, <1>3, <1>4, <1>5, <1>6 DEF Writing

\* A file to which nothing was written yet can be read all the same,
LEMMA NothingWritten ==
  ASSUME BufferInv', WritingFile', ops' = "file", written_total' = 0
  PROVE  ReadingBack' /\ Len(store') = FileLen /\ store_pos' = 0
<1>0. /\ FileLen \in Nat /\ store_pos' \in Nat /\ block' \in Seq(Nat)
      /\ pos' = Len(block') /\ store_pos' + Len(block') = 0
  BY BoundsAssumption DEF BufferInv, TypeOK, WritingFile
<1>1. /\ store_pos' = 0 /\ Len(block') = 0 /\ block' = <<>>
      /\ Overwritten(store_pos') = Run(0, FileLen)
  BY <1>0, StartOfFile
<1>2. store' = Run(0, FileLen)
  BY <1>1 DEF WritingFile
<1>3. Len(store') = FileLen
  <2>1. Len(Run(0, FileLen)) = FileLen - 0
    BY <1>0, RunLength
  <2> QED BY <1>0, <1>2, <2>1
<1>4. Base' = 0 /\ Base' + Len(store') = FileLen
      /\ Base' + store_pos' - Len(block') = 0 /\ Base' + store_pos' = 0
      /\ Base' + store_pos' - Len(block') + pos' = 0
  BY <1>0, <1>1, <1>3 DEF Base
<1>5. block' = Run(0, 0) /\ out' = Run(0, 0)
  BY <1>1, EmptyRun DEF WritingFile
<1>6. Len(block') <= store_pos'
  BY <1>1
<1> QED BY <1>1, <1>2, <1>3, <1>4, <1>5, <1>6 DEF ReadingBack

\* and the invariant holds when the client leaves one.
LEMMA LeavesWriting ==
  ASSUME BufferInv', Writing', mode' = "WRITING", call'.op \in {"none", "write"}
  PROVE  ClientInv'
<1>1. ops' = "file" /\ written_total' = 0
        => ReadingBack' /\ Len(store') = FileLen /\ store_pos' = 0
  BY NothingWritten DEF Writing
<1>2. call' # Aborted
  BY DEF Aborted
<1> QED BY <1>1, <1>2 DEF ClientInv, Writing

\* Bytes go behind those of the block.
LEMMA PutKeepsWriting ==
  ASSUME BufferInv, Writing, ops' = ops, NEW n \in Nat, Put(pos, n), UNCHANGED <<backend, out>>
  PROVE  Writing'
<1>0. /\ FileLen \in Nat /\ store_pos \in Nat /\ Len(store) \in Nat
      /\ written_total \in Nat /\ Len(block) \in Nat
  BY Sizes
<1>1. store' = store /\ store_pos' = store_pos /\ out' = out
  BY DEF backend
<1>2. ASSUME NEW p \in Nat, p + Len(block) = written_total, pos = Len(block),
             block = Run(FileLen + p, FileLen + written_total)
      PROVE  /\ block' = Run(FileLen + p, FileLen + written_total') /\ pos' = Len(block')
             /\ written_total' = p + Len(block')
  <2> DEFINE a == FileLen + p
             b == FileLen + written_total'
  <2>1. a \in Nat /\ a <= FileLen + written_total
    BY <1>0, <1>2
  <2>2. block = Run(a, FileLen + written_total)
    BY <1>2
  <2> HIDE DEF a
  <2>3. /\ block' = Run(a, b) /\ pos' = Len(block') /\ written_total' = written_total + n
    BY <1>2, <2>1, <2>2, PutRun
  <2>4. b \in Nat /\ a <= b
    BY <1>0, <2>1, <2>3
  <2> HIDE DEF b
  <2>5. Len(block') = b - a
    BY <2>1, <2>3, <2>4, RunLength
  <2>6. written_total' = p + Len(block')
    BY <1>0, <1>2, <2>3, <2>5 DEF a, b
  <2> QED BY <2>3, <2>6 DEF a, b
<1>3. CASE ops = "memory"
  <2>1. WritingMemory
    BY <1>3 DEF Writing
  <2>2. /\ block' = Run(FileLen + Len(store), FileLen + written_total')
        /\ pos' = Len(block') /\ written_total' = Len(store) + Len(block')
    BY <1>0, <1>2, <2>1 DEF WritingMemory
  <2> QED BY <1>1, <1>3, <2>1, <2>2 DEF Writing, WritingMemory
<1>4. CASE ops = "file"
  <2>1. WritingFile
    BY <1>4 DEF Writing
  <2>2. /\ block' = Run(FileLen + store_pos, FileLen + written_total')
        /\ pos' = Len(block') /\ written_total' = store_pos + Len(block')
    BY <1>0, <1>2, <2>1 DEF WritingFile
  <2> QED BY <1>1, <1>4, <2>1, <2>2 DEF Writing, WritingFile
<1> QED BY <1>3, <1>4 DEF Writing

\* What a flush leaves in the back-end.
LEMMA FlushedRun ==
  ASSUME BufferInv, Writing, OpsFlush
  PROVE  /\ ops = "memory" => /\ store' = Run(FileLen, FileLen + written_total)
                              /\ Len(store') = written_total /\ store_pos' = store_pos
         /\ ops = "file" => store' = Overwritten(store_pos') /\ store_pos' = written_total
<1>1. CASE ops = "memory"
  BY <1>1, MemFlushRun DEF Writing, OpsFlush
<1>2. CASE ops = "file"
  <2>1. Len(block) \in Nat
    BY Sizes
  <2>2. WritingFile /\ FileWrite(Len(block))
    BY <1>2 DEF Writing, OpsFlush
  <2>3. store' = Overwritten(store_pos + Len(block)) /\ store_pos' = store_pos + Len(block)
    BY <2>1, <2>2, FileWriteRun DEF WritingFile
  <2> QED BY <1>2, <2>2, <2>3 DEF WritingFile
<1> QED BY <1>1, <1>2

\* A flush, and the next bytes to the beginning of the block.
LEMMA FlushAndPutKeepsWriting ==
  ASSUME BufferInv, Writing, ops' = ops, NEW n \in Nat, OpsFlush, Put(0, n), UNCHANGED out
  PROVE  Writing'
<1>0. FileLen \in Nat /\ written_total \in Nat
  BY Sizes
<1>1. /\ block' = Run(FileLen + written_total, FileLen + written_total')
      /\ Len(block') = n /\ pos' = n /\ written_total' = written_total + n
  BY PutFirstRun
<1>2. CASE ops = "memory"
  <2>1. /\ store' = Run(FileLen, FileLen + written_total)
        /\ Len(store') = written_total /\ store_pos' = store_pos
    BY <1>2, FlushedRun
  <2>2. out' = Run(FileLen, FileLen + store_pos')
    BY <1>2, <2>1 DEF Writing, WritingMemory
  <2> QED BY <1>1, <1>2, <2>1, <2>2 DEF Writing, WritingMemory
<1>3. CASE ops = "file"
  <2>1. store' = Overwritten(store_pos') /\ store_pos' = written_total
    BY <1>3, FlushedRun
  <2>2. out' = <<>>
    BY <1>3 DEF Writing, WritingFile
  <2> QED BY <1>1, <1>3, <2>1, <2>2 DEF Writing, WritingFile
<1> QED BY <1>2, <1>3 DEF Writing

\* A write(2) that fails ends the process; what is in the file stays in order.
LEMMA FlushFailsKeeps ==
  ASSUME BufferInv, BufferInv', Writing, mode = "WRITING", ops' = ops, FlushFails
  PROVE  ClientInv'
<1>1. ops = "file" /\ WritingFile
  BY DEF FlushFails, Writing
<1>2. PICK n \in 0..Len(block) : FileWrite(n)
  BY DEF FlushFails
<1>3. /\ call' = Aborted /\ mode' = mode /\ block' = block /\ pos' = pos
      /\ written_total' = written_total /\ out' = out
  BY DEF FlushFails
<1>4. /\ Len(block) \in Nat /\ store_pos \in Nat /\ n \in Nat /\ n <= Len(block)
      /\ written_total = store_pos + Len(block)
  <2>1. Len(block) \in Nat /\ store_pos \in Nat
    BY Sizes
  <2> QED BY <1>1, <2>1 DEF WritingFile
<1>5. store' = Overwritten(store_pos + n) /\ store_pos' = store_pos + n
  BY <1>1, <1>2, <1>4, FileWriteRun DEF WritingFile
<1>6. CASE written_total = 0
  <2>1. n = 0 /\ store_pos + n = store_pos
    BY <1>4, <1>6
  <2>2. WritingFile'
    BY <1>1, <1>3, <1>5, <2>1 DEF WritingFile
  <2>3. ReadingBack' /\ Len(store') = FileLen /\ store_pos' = 0
    BY <1>1, <1>3, <1>6, <2>2, NothingWritten
  <2>4. ops' = "file" /\ written_total' = 0 /\ call'.op = "aborted"
    BY <1>1, <1>3, <1>6 DEF Aborted
  <2> QED BY <2>3, <2>4 DEF ClientInv
<1>7. CASE written_total # 0
  <2>1. store' = Overwritten(store_pos') /\ store_pos' <= written_total'
    BY <1>3, <1>4, <1>5
  <2>2. ops' = "file" /\ written_total' # 0 /\ call'.op = "aborted"
    BY <1>1, <1>3, <1>7 DEF Aborted
  <2> QED BY <1>3, <2>1, <2>2 DEF ClientInv
<1> QED BY <1>6, <1>7

\* nb_buffer_write, called by the client.
LEMMA ClientWriteKeeps ==
  ASSUME BufferInv, BufferInv', ClientInv, ops' = ops, NEW n \in Nat, ClientWrite(n)
  PROVE  ClientInv'
<1>1. call = NoCall /\ mode # "READING" /\ mode' = "WRITING" /\ UNCHANGED <<backend, out>>
  BY DEF ClientWrite, Write, Ready
<1>2. Writing
  BY <1>1, FindsWriting DEF ClientWrite, NoCall
<1>3. CASE Put(pos, n) /\ UNCHANGED call
  <2>1. Writing'
    BY <1>1, <1>2, <1>3, PutKeepsWriting
  <2> QED BY <1>1, <1>3, <2>1, LeavesWriting DEF NoCall
<1>4. CASE call' = InCall("write", n) /\ UNCHANGED <<block, pos, written_total>>
  <2>1. Writing'
    BY <1>1, <1>2, <1>4 DEF Writing, WritingMemory, WritingFile, backend
  <2>2. call'.op \in {"none", "write"}
    BY <1>4 DEF InCall, NoCall
  <2> QED BY <1>1, <2>1, <2>2, LeavesWriting
<1> QED BY <1>1, <1>3, <1>4 DEF ClientWrite, Write

\* An iteration of write_internal.
LEMMA WriteStepKeeps ==
  ASSUME BufferInv, BufferInv', ClientInv, ops' = ops, WriteStep
  PROVE  ClientInv'
<1>1. call.op = "write" /\ mode = "WRITING" /\ mode' = mode
  BY DEF WriteStep, ClientInv, FlushFails
<1>2. Writing
  BY <1>1, FindsWriting
<1>3. Len(block) \in Nat /\ call.left \in Nat /\ BufSize \in Nat /\ Len(block) <= BufSize
  BY Sizes
<1>4. CASE /\ LET n == Min2(BufSize - Len(block), call.left)
              IN  Put(pos, n) /\ call' = InCall("write", call.left - n)
           /\ UNCHANGED <<mode, backend, out, ret>>
  <2> DEFINE n == Min2(BufSize - Len(block), call.left)
  <2>1. n \in Nat
    BY <1>3 DEF Min2
  <2>2. Put(pos, n) /\ call' = InCall("write", call.left - n)
    BY <1>4
  <2> HIDE DEF n
  <2>3. Writing'
    BY <1>2, <1>4, <2>1, <2>2, PutKeepsWriting
  <2>4. call'.op \in {"none", "write"}
    BY <2>2 DEF InCall, NoCall
  <2> QED BY <1>1, <2>3, <2>4, LeavesWriting
<1>5. CASE /\ OpsFlush
           /\ LET n == Min2(BufSize, call.left)
              IN  Put(0, n) /\ call' = InCall("write", call.left - n)
           /\ UNCHANGED <<mode, out, ret>>
  <2> DEFINE n == Min2(BufSize, call.left)
  <2>1. n \in Nat
    BY <1>3 DEF Min2
  <2>2. Put(0, n) /\ call' = InCall("write", call.left - n)
    BY <1>5
  <2> HIDE DEF n
  <2>3. Writing'
    BY <1>2, <1>5, <2>1, <2>2, FlushAndPutKeepsWriting
  <2>4. call'.op \in {"none", "write"}
    BY <2>2 DEF InCall, NoCall
  <2> QED BY <1>1, <2>3, <2>4, LeavesWriting
<1>6. CASE FlushFails
  BY <1>1, <1>2, <1>6, FlushFailsKeeps
<1> QED BY <1>4, <1>5, <1>6 DEF WriteStep

\* nb_buffer_flush, called when nothing that was read ahead is lost: the bytes
\* written to memory can be read now.
LEMMA ClientFlushKeeps ==
  ASSUME BufferInv, BufferInv', ClientInv, ops' = ops, ClientFlush
  PROVE  ClientInv'
<1>0. /\ FileLen \in Nat /\ store_pos \in Nat /\ Len(store) \in Nat /\ pos \in Nat
      /\ written_total \in Nat /\ Len(block) \in Nat /\ pos <= Len(block)
      /\ Base \in Nat /\ ops \in {"memory", "file"}
  BY Sizes DEF BufferInv, TypeOK, Backends
<1>1. call = NoCall /\ call # Deleted /\ call # Aborted
  BY DEF ClientFlush, Flush, Ready, NoCall, Deleted, Aborted
<1>2. Len(<<>>) = 0
  BY EmptySeq
<1>3. CASE FlushFails /\ mode = "WRITING"
  <2>1. Writing
    BY <1>1, <1>3, FindsWriting DEF NoCall
  <2> QED BY <1>3, <2>1, FlushFailsKeeps
<1>4. CASE mode = "WRITING" /\ OpsFlush /\ block' = <<>> /\ pos' = 0 /\ mode' = "IDLE"
           /\ UNCHANGED <<written_total, call, out>>
  <2>1. Writing
    BY <1>1, <1>4, FindsWriting DEF NoCall
  <2>2. CASE ops = "memory"
    <3>1. WritingMemory
      BY <2>1, <2>2 DEF Writing
    <3>2. /\ store' = Run(FileLen, FileLen + written_total)
          /\ Len(store') = written_total /\ store_pos' = store_pos
      BY <1>4, <2>1, <2>2, FlushedRun
    <3>3. Base' = FileLen /\ Base' + store_pos' \in Nat
          /\ Base' + store_pos' - Len(block') = Base' + store_pos'
          /\ Base' + store_pos' - Len(block') + pos' = FileLen + store_pos
          /\ Len(block') <= store_pos'
      BY <1>0, <1>2, <1>4, <2>2, <3>2 DEF Base
    <3>4. block' = Run(Base' + store_pos', Base' + store_pos')
      BY <1>4, <3>3, EmptyRun
    <3>5. ReadingBack'
      BY <1>4, <3>1, <3>2, <3>3, <3>4 DEF ReadingBack, WritingMemory
    <3>6. Reading'
      BY <1>4, <2>2, <3>2, <3>5 DEF Reading
    <3> QED BY <1>1, <1>4, <3>6, LeavesReading DEF NoCall
  <2>3. CASE ops = "file"
    <3>1. WritingFile
      BY <2>1, <2>3 DEF Writing
    <3>2. store' = Overwritten(store_pos') /\ store_pos' = written_total
      BY <1>4, <2>1, <2>3, FlushedRun
    <3>3. /\ written_total' = store_pos' + Len(block') /\ pos' = Len(block')
          /\ FileLen + store_pos' \in Nat /\ FileLen + store_pos' = FileLen + written_total'
      BY <1>0, <1>2, <1>4, <3>2
    <3>4. block' = Run(FileLen + store_pos', FileLen + written_total')
      BY <1>4, <3>3, EmptyRun
    <3>5. WritingFile'
      BY <1>4, <3>1, <3>2, <3>3, <3>4 DEF WritingFile
    <3>6. ops' = "file" /\ mode' # "WRITING" /\ call'.op = "none" /\ block' = <<>>
      BY <1>1, <1>4, <2>3 DEF NoCall
    <3>7. written_total' = 0 => ReadingBack' /\ Len(store') = FileLen
      BY <3>5, <3>6, NothingWritten
    <3> QED BY <3>5, <3>6, <3>7 DEF ClientInv, Aborted
  <2> QED BY <1>0, <2>2, <2>3
<1>5. CASE mode # "WRITING" /\ UNCHANGED backend /\ block' = <<>> /\ pos' = 0 /\ mode' = "IDLE"
           /\ UNCHANGED <<written_total, call, out>>
  <2>1. store' = store /\ store_pos' = store_pos
    BY <1>5 DEF backend
  <2>2. CASE ops = "file" /\ written_total > 0
    <3>1. WritingFile /\ block = <<>>
      BY <1>1, <1>5, <2>2 DEF ClientInv
    <3>2. WritingFile'
      BY <1>2, <1>5, <2>1, <3>1 DEF WritingFile
    <3> QED BY <1>0, <1>1, <1>5, <2>2, <3>2 DEF ClientInv, NoCall, Aborted
  <2>3. CASE ~(ops = "file" /\ written_total > 0)
    <3>1. Reading
      BY <1>0, <1>1, <1>5, <2>3, FindsReading DEF NoCall
    <3>2. pos = Len(block)
      <4>1. Unread = <<>>
        BY <1>5 DEF ClientFlush
      <4>2. block \in Seq(Nat)
        BY Bytes
      <4>3. Len(Unread) = IF pos < Len(block) THEN Len(block) - pos ELSE 0
        BY <1>0, <4>2, PartOfSeq DEF Unread
      <4> QED BY <1>0, <1>2, <4>1, <4>3
    <3>3. Base' = Base /\ Base' + store_pos' \in Nat
          /\ Base' + store_pos' - Len(block') = Base' + store_pos'
          /\ Base' + store_pos' - Len(block') + pos' = Base + store_pos - Len(block) + pos
          /\ Len(block') <= store_pos'
      BY <1>0, <1>2, <1>5, <2>1, <3>2 DEF Base
    <3>4. block' = Run(Base' + store_pos', Base' + store_pos')
      BY <1>5, <3>3, EmptyRun
    <3>5. ReadingBack'
      BY <1>5, <2>1, <3>1, <3>3, <3>4 DEF ReadingBack, Reading
    <3>6. Reading'
      BY <1>5, <2>1, <3>1, <3>5 DEF Reading
    <3> QED BY <1>1, <1>5, <3>6, LeavesReading DEF NoCall
  <2> QED BY <2>2, <2>3
<1> QED BY <1>3, <1>4, <1>5 DEF ClientFlush, Flush

\* nb_buffer_delete.
LEMMA DeleteKeeps ==
  ASSUME BufferInv, BufferInv', ClientInv, ops' = ops, Delete
  PROVE  ClientInv'
<1>0. FileLen \in Nat /\ store_pos \in Nat /\ written_total \in Nat
  BY Sizes
<1>1. call = NoCall /\ call # Aborted
  BY DEF Delete, Ready, NoCall, Aborted
<1>2. Len(<<>>) = 0
  BY EmptySeq
<1>3. CASE FlushFails /\ mode = "WRITING"
  <2>1. Writing
    BY <1>1, <1>3, FindsWriting DEF NoCall
  <2> QED BY <1>3, <2>1, FlushFailsKeeps
<1>4. CASE /\ mode = "WRITING" => OpsFlush
           /\ mode # "WRITING" => UNCHANGED backend
           /\ block' = <<>> /\ pos' = 0 /\ call' = Deleted
           /\ UNCHANGED <<mode, written_total, out, ret>>
  <2>1. call'.op = "deleted" /\ call' = Deleted /\ call' # Aborted
    BY <1>4 DEF Deleted, Aborted
  <2>2. CASE ops = "file" /\ written_total > 0
    <3>1. WritingFile /\ (mode # "WRITING" => block = <<>>)
      BY <1>1, <2>2 DEF ClientInv
    <3>2. store' = Overwritten(store_pos') /\ store_pos' = written_total
      <4>1. CASE mode = "WRITING"
        <5>1. Writing
          BY <2>2, <3>1 DEF Writing
        <5> QED BY <1>4, <2>2, <4>1, <5>1, FlushedRun
      <4>2. CASE mode # "WRITING"
        BY <1>0, <1>2, <1>4, <3>1, <4>2 DEF WritingFile, backend
      <4> QED BY <4>1, <4>2
    <3>3. /\ written_total' = store_pos' + Len(block') /\ pos' = Len(block')
          /\ FileLen + store_pos' \in Nat /\ FileLen + store_pos' = FileLen + written_total'
      BY <1>0, <1>2, <1>4, <3>2
    <3>4. block' = Run(FileLen + store_pos', FileLen + written_total')
      BY <1>4, <3>3, EmptyRun
    <3>5. WritingFile'
      BY <1>4, <3>1, <3>2, <3>3, <3>4 DEF WritingFile
    <3> QED BY <1>4, <2>1, <2>2, <3>5 DEF ClientInv
  <2>3. CASE ~(ops = "file" /\ written_total > 0)
    BY <1>4, <2>1, <2>3 DEF ClientInv
  <2> QED BY <2>2, <2>3
<1> QED BY <1>3, <1>4 DEF Delete

\* A new buffer.
LEMMA ClientInit == Init => ClientInv
<1> SUFFICES ASSUME Init PROVE ClientInv
  OBVIOUS
<1>0. FileLen \in Nat /\ Len(<<>>) = 0
  BY BoundsAssumption, EmptySeq
<1>1. /\ mode = "IDLE" /\ block = <<>> /\ pos = 0 /\ written_total = 0 /\ store_pos = 0
      /\ out = <<>> /\ call = NoCall /\ ops \in {"memory", "file"}
  BY DEF Init, Backends
<1>2. store = Run(Base, Base + Len(store)) /\ Base \in Nat
      /\ (ops = "memory" => Len(store) = 0) /\ (ops = "file" => Len(store) = FileLen)
  <2>1. CASE ops = "memory"
    <3>1. store = <<>> /\ Base = FileLen /\ Base + Len(store) = Base
      BY <1>0, <2>1 DEF Init, Base
    <3> QED BY <1>0, <2>1, <3>1, EmptyRun
  <2>2. CASE ops = "file"
    <3>1. store = [i \in 1..FileLen |-> i] /\ Base = 0
      BY <2>2 DEF Init, Base
    <3>2. store = Run(0, FileLen)
      <4>1. FileLen - 0 = FileLen /\ \A i \in 1..FileLen : 0 + i = i
        BY <1>0
      <4> QED BY <3>1, <4>1 DEF Run
    <3>3. Len(store) = FileLen
      <4>1. Len(Run(0, FileLen)) = FileLen - 0
        BY <1>0, RunLength
      <4> QED BY <1>0, <3>2, <4>1
    <3> QED BY <1>0, <2>2, <3>1, <3>2, <3>3
  <2> QED BY <1>1, <2>1, <2>2
<1>3. /\ Base + store_pos - Len(block) = Base /\ Base + store_pos = Base
      /\ Base + store_pos - Len(block) + pos = Base /\ Len(block) <= store_pos
  BY <1>0, <1>1, <1>2
<1>4. Run(Base, Base) = <<>>
  BY <1>2, EmptyRun
<1>5. ReadingBack
  BY <1>1, <1>2, <1>3, <1>4 DEF ReadingBack
<1>6. Reading
  BY <1>1, <1>2, <1>5 DEF Reading
<1> QED BY <1>1, <1>6 DEF ClientInv, Reading, NoCall, Aborted

\* The client's steps are steps of the buffer.
LEMMA ClientStepsAreSteps == [ClientNext]_vars => [Next]_vars
BY DEF ClientNext, ClientWrite, ClientRead, ClientFlush, Next, Getc, Peek

\* The invariant is inductive.
LEMMA ClientStepInv == BufferInv /\ ClientInv /\ [ClientNext]_vars => BufferInv' /\ ClientInv'
<1> SUFFICES ASSUME BufferInv, ClientInv, [ClientNext]_vars
             PROVE  BufferInv' /\ ClientInv'
  OBVIOUS
<1>1. BufferInv'
  BY ClientStepsAreSteps, StepInv
<1>2. ops' = ops
  BY DEF ClientNext, vars
<1>3. ASSUME NEW n \in 0..MaxCount, ClientWrite(n) PROVE ClientInv'
  <2>1. n \in Nat
    BY BoundsAssumption
  <2> QED BY <1>1, <1>2, <1>3, <2>1, ClientWriteKeeps
<1>4. CASE ClientRead
  BY <1>1, <1>2, <1>4, ClientReadKeeps
<1>5. CASE WriteStep
  BY <1>1, <1>2, <1>5, WriteStepKeeps
<1>6. CASE ReadStep
  BY <1>1, <1>2, <1>6, ReadStepKeeps
<1>7. CASE ClientFlush
  BY <1>1, <1>2, <1>7, ClientFlushKeeps
<1>8. CASE Delete
  BY <1>1, <1>2, <1>8, DeleteKeeps
<1>9. CASE UNCHANGED vars
  BY <1>1, <1>9 DEF vars, ClientInv, ReadingBack, WritingMemory, WritingFile, Base
<1> QED BY <1>1, <1>3, <1>4, <1>5, <1>6, <1>7, <1>8, <1>9 DEF ClientNext

-----------------------------------------------------------------------------
(* Files.                                                                  *)

\* What has been read of a file.
LEMMA ReadOrder == BufferInv /\ ClientInv => ReadsFileInOrder
<1> SUFFICES ASSUME BufferInv, ClientInv, ops = "file", written_total = 0, call # Deleted
             PROVE  out \o Unread = SubSeq(store, 1, store_pos)
  BY DEF ReadsFileInOrder
<1>1. ReadingBack /\ Base = 0
  BY DEF ClientInv, Base
<1> DEFINE a == store_pos - Len(block)
           b == store_pos
           c == store_pos - Len(block) + pos
           m == Len(store)
<1>2. /\ a \in Nat /\ b \in Nat /\ c \in Nat /\ m \in Nat /\ a <= c /\ c <= b /\ b <= m
      /\ c - a = pos /\ b - a = Len(block) /\ 0 + a = a /\ 0 + b = b /\ 0 + c = c /\ 0 + m = m
  <2>1. /\ store_pos \in Nat /\ Len(block) \in Nat /\ pos \in Nat /\ Len(store) \in Nat
        /\ pos <= Len(block) /\ store_pos <= Len(store)
    BY Sizes
  <2>2. Len(block) <= store_pos
    BY <1>1 DEF ReadingBack
  <2> QED BY <2>1, <2>2
<1>3. store = Run(0, m) /\ block = Run(a, b) /\ out = Run(0, c)
  <2>1. Base + store_pos - Len(block) = a /\ Base + store_pos = b
        /\ Base + store_pos - Len(block) + pos = c /\ Base + Len(store) = m
    BY <1>1, <1>2
  <2> QED BY <1>1, <2>1 DEF ReadingBack
<1>4. Unread = Cut(a, b, c, b)
  BY <1>2, <1>3 DEF Unread, Cut
<1>5. SubSeq(store, 1, store_pos) = Cut(0, m, 0, b)
  BY <1>2, <1>3 DEF Cut
<1> HIDE DEF a, b, c, m
<1>6. Cut(a, b, c, b) = Run(c, b) /\ Cut(0, m, 0, b) = Run(0, b)
  <2>1. 0 \in Nat /\ 0 <= 0 /\ 0 <= b
    BY <1>2
  <2> QED BY <1>2, <2>1, CutIsRun
<1>7. Run(0, c) \o Run(c, b) = Run(0, b)
  <2>1. 0 \in Nat /\ 0 <= c
    BY <1>2
  <2> QED BY <1>2, <2>1, JoinedRuns
<1> QED BY <1>3, <1>4, <1>5, <1>6, <1>7

\* The two parts of a file that is being written over.
LEMMA OverwrittenParts ==
  ASSUME BufferInv, store = Overwritten(store_pos)
  PROVE  /\ SubSeq(store, 1, store_pos) = Run(FileLen, FileLen + store_pos)
         /\ Stored = Run(store_pos, Len(store))
<1> DEFINE p == store_pos
           m == Len(store)
           b == FileLen + store_pos
<1>1. /\ FileLen \in Nat /\ p \in Nat /\ m \in Nat /\ p <= m /\ b \in Nat
      /\ 0 \in Nat /\ 0 <= p /\ b = FileLen + (p - 0) /\ 0 + 1 = 1 /\ m = p + (m - p)
  <2>1. /\ FileLen \in Nat /\ store_pos \in Nat /\ Len(store) \in Nat /\ store_pos <= Len(store)
    BY Sizes
  <2> QED BY <2>1
<1>2. store \in Seq(Nat) /\ store = Overwritten(p)
  BY Bytes
<1>3. m = Max2(FileLen, p)
      /\ \A i \in 1..m : store[i] = IF i <= p THEN FileLen + i ELSE i
  <2> HIDE DEF p
  <2> QED BY <1>1, <1>2, OverwrittenSeq
<1> HIDE DEF b, p
<1>4. Follow(store, 0, p, FileLen) /\ Follow(store, p, m, p)
  <2> HIDE DEF m
  <2> QED BY <1>1, <1>3 DEF Follow
<1>5. Part(store, 0, p) = Run(FileLen, b)
  BY <1>1, <1>2, <1>4, PartIsRun
<1>6. Part(store, p, m) = Run(p, m)
  BY <1>1, <1>2, <1>4, PartIsRun
<1> QED BY <1>1, <1>5, <1>6 DEF Part, Stored, p, b

\* What has been written to a file.
LEMMA WriteOrder == BufferInv /\ ClientInv => WritesFileInOrder
<1> SUFFICES ASSUME BufferInv, ClientInv, ops = "file", written_total > 0
             PROVE  /\ IF call = Aborted
                       THEN SubSeq(store, 1, store_pos) = SubSeq(Written, 1, store_pos)
                       ELSE SubSeq(store, 1, store_pos) \o block = Written
                    /\ Stored = [i \in 1..(Len(store) - store_pos) |-> store_pos + i]
  BY DEF WritesFileInOrder
<1> DEFINE F == FileLen
           p == store_pos
           w == written_total
           b == F + p
           c == F + w
<1>1. /\ store = Overwritten(store_pos) /\ store_pos <= written_total
      /\ call # Aborted => block = Run(F + p, F + w)
  <2>1. store_pos \in Nat /\ Len(block) \in Nat
    BY Sizes
  <2> QED BY <2>1 DEF ClientInv, WritingFile
<1>2. /\ F \in Nat /\ p \in Nat /\ w \in Nat /\ p <= w /\ b \in Nat /\ c \in Nat
      /\ F <= b /\ b <= c /\ F <= c /\ F <= F /\ c - F = w /\ F - F + 1 = 1 /\ b - F = p
  <2>1. FileLen \in Nat /\ store_pos \in Nat /\ written_total \in Nat
    BY Sizes
  <2> QED BY <1>1, <2>1
<1>3. SubSeq(store, 1, p) = Run(F, b) /\ Stored = Run(p, Len(store))
  BY <1>1, OverwrittenParts
<1>4. Written = Run(F, c)
  BY <1>2 DEF Written, Run
<1> HIDE DEF b, c
<1>5. SubSeq(Written, 1, p) = Run(F, b)
  <2>1. Cut(F, c, F, b) = Run(F, b)
    <3> HIDE DEF F
    <3> QED BY <1>2, CutIsRun
  <2>2. Cut(F, c, F, b) = SubSeq(Written, 1, p)
    BY <1>2, <1>4 DEF Cut
  <2> QED BY <2>1, <2>2
<1>6. Run(F, b) \o Run(b, c) = Run(F, c)
  <2> HIDE DEF F
  <2> QED BY <1>2, JoinedRuns
<1>7. Run(p, Len(store)) = [i \in 1..(Len(store) - p) |-> p + i]
  BY DEF Run
<1> QED BY <1>1, <1>3, <1>4, <1>5, <1>6, <1>7 DEF b, c

-----------------------------------------------------------------------------
\* A file is read in order: what the client got and what is read ahead is the
\* file up to the offset, for every block size and file, however read(2) splits
\* it and however often it fails.
THEOREM FileReadInOrder == ClientSpec => []ReadsFileInOrder
<1> QED BY InitInv, ClientInit, ClientStepInv, ReadOrder, PTL DEF ClientSpec

\* A file is written in order: up to the offset it holds the written bytes without
\* a gap and the block holds the rest; a failed write(2) leaves a prefix of them.
THEOREM FileWrittenInOrder == ClientSpec => []WritesFileInOrder
<1> QED BY InitInv, ClientInit, ClientStepInv, WriteOrder, PTL DEF ClientSpec

-----------------------------------------------------------------------------
(* Memory: the queue.                                                      *)

\* A memory buffer stands for the bytes written behind those the client got.
QueueInv ==
  ops = "memory" /\ call # Deleted =>
    /\ Len(out) <= written_total
    /\ out = Run(FileLen, FileLen + Len(out))
    /\ Queued = Run(FileLen + Len(out), FileLen + written_total)

\* It is one whenever the client's invariant holds.
LEMMA QueueIsRun == BufferInv /\ ClientInv => QueueInv
<1> SUFFICES ASSUME BufferInv, ClientInv, ops = "memory", call # Deleted
             PROVE  /\ Len(out) <= written_total
                    /\ out = Run(FileLen, FileLen + Len(out))
                    /\ Queued = Run(FileLen + Len(out), FileLen + written_total)
  BY DEF QueueInv
<1>0. /\ FileLen \in Nat /\ store_pos \in Nat /\ Len(store) \in Nat /\ written_total \in Nat
      /\ Len(block) \in Nat /\ pos \in Nat /\ pos <= Len(block) /\ store_pos <= Len(store)
  BY Sizes
<1> DEFINE F == FileLen
           e == FileLen + store_pos
           m == FileLen + Len(store)
           w == FileLen + written_total
<1>1. F \in Nat /\ e \in Nat /\ m \in Nat /\ w \in Nat /\ F <= e /\ e <= m
      /\ e - F + 1 = store_pos + 1 /\ m - F = Len(store)
  BY <1>0
<1>2. store = Run(F, m)
  BY DEF ClientInv, WritingMemory, ReadingBack, Base
<1>3. Stored = Run(e, m)
  <2>1. Cut(F, m, e, m) = Run(e, m)
    <3>1. m <= m
      BY <1>1
    <3> HIDE DEF F, e, m
    <3> QED BY <1>1, <3>1, CutIsRun
  <2>2. Stored = Cut(F, m, e, m)
    <3>1. SubSeq(store, store_pos + 1, Len(store)) = SubSeq(Run(F, m), e - F + 1, m - F)
      BY <1>1, <1>2
    <3> QED BY <3>1 DEF Stored, Cut
  <2> QED BY <2>1, <2>2
<1>4. CASE mode = "WRITING"
  <2>1. WritingMemory
    BY <1>4 DEF ClientInv
  <2>2. out = Run(F, e) /\ block = Run(m, w) /\ written_total = Len(store) + Len(block)
    BY <2>1 DEF WritingMemory
  <2>3. m <= w /\ e - F = store_pos /\ F + store_pos = e
    BY <1>0, <2>2
  <2>4. Queued = Stored \o block
    BY <1>4 DEF Queued
  <2>5. Len(out) = store_pos /\ store_pos <= written_total
    <3>1. Len(Run(F, e)) = e - F
      <4> HIDE DEF F, e
      <4> QED BY <1>1, RunLength
    <3> QED BY <1>0, <2>2, <2>3, <3>1
  <2>6. Run(e, m) \o Run(m, w) = Run(e, w)
    <3> HIDE DEF F, e, m, w
    <3> QED BY <1>1, <2>3, JoinedRuns
  <2> QED BY <1>3, <2>2, <2>4, <2>5, <2>6
<1>5. CASE mode # "WRITING"
  <2>1. ReadingBack /\ written_total = Len(store) /\ Base = FileLen
    BY <1>5 DEF ClientInv, Base
  <2> DEFINE a == FileLen + store_pos - Len(block)
             c == FileLen + store_pos - Len(block) + pos
  <2>2. /\ a \in Nat /\ c \in Nat /\ a <= c /\ c <= e /\ a <= e /\ F <= c /\ e <= e
        /\ c - a + 1 = pos + 1 /\ e - a = Len(block) /\ w = m
        /\ F + (c - F) = c /\ c - F \in Nat /\ c - F <= written_total
    <3>1. Len(block) <= store_pos
      BY <2>1 DEF ReadingBack
    <3> QED BY <1>0, <2>1, <3>1
  <2>3. block = Run(a, e) /\ out = Run(F, c)
    BY <2>1 DEF ReadingBack
  <2>4. Queued = Unread \o Stored
    BY <1>5 DEF Queued
  <2>5. Unread = Run(c, e)
    <3>1. Cut(a, e, c, e) = Run(c, e)
      <4> HIDE DEF a, c, e
      <4> QED BY <1>1, <2>2, CutIsRun
    <3>2. SubSeq(block, pos + 1, Len(block)) = SubSeq(Run(a, e), c - a + 1, e - a)
      BY <2>2, <2>3
    <3> QED BY <3>1, <3>2 DEF Unread, Cut
  <2>6. Run(c, e) \o Run(e, m) = Run(c, m)
    <3> HIDE DEF c, e, m
    <3> QED BY <1>1, <2>2, JoinedRuns
  <2>7. Len(out) = c - F
    <3>1. Len(Run(F, c)) = c - F
      <4> HIDE DEF F, c
      <4> QED BY <1>1, <2>2, RunLength
    <3> QED BY <2>3, <3>1
  <2>8. FileLen + Len(out) = c
    BY <2>2, <2>7
  <2> QED BY <1>3, <2>2, <2>3, <2>4, <2>5, <2>6, <2>7, <2>8
<1> QED BY <1>4, <1>5

\* QueueInv, before and after a step, says what the queue is; so a step is told by
\* what it does to the two ends.  Bytes go in,
LEMMA PutMaps ==
  ASSUME BufferInv, BufferInv', QueueInv, QueueInv', ops = "memory", ops' = ops,
         call # Deleted, call' # Deleted,
         NEW n \in Nat, n <= BufSize, written_total' = written_total + n, out' = out,
         ret' \in {ret, "none"}
  PROVE  Fifo!Put
<1> DEFINE a == FileLen + Len(out)
           b == FileLen + written_total
           c == FileLen + written_total + n
<1>1. /\ Len(out) <= written_total /\ Queued = Run(a, b) /\ Queued' = Run(a, FileLen + written_total')
  BY DEF QueueInv
<1>2. a \in Nat /\ b \in Nat /\ c \in Nat /\ a <= b /\ b <= c /\ FileLen + written_total' = c
      /\ n \in 0..BufSize
  <2>1. /\ FileLen \in Nat /\ Len(out) \in Nat /\ written_total \in Nat /\ BufSize \in Nat
    BY Sizes
  <2> QED BY <1>1, <2>1
<1>3. Run(b, c) = [i \in 1..n |-> FileLen + written_total + i]
  <2>1. c - b = n
    BY <1>2
  <2> QED BY <2>1 DEF Run
<1>4. Run(a, b) \o Run(b, c) = Run(a, c)
  <2> HIDE DEF a, b, c
  <2> QED BY <1>2, JoinedRuns
<1>5. Queued' = Queued \o [i \in 1..n |-> FileLen + written_total + i]
  BY <1>1, <1>2, <1>3, <1>4
<1> QED BY <1>2, <1>5 DEF Fifo!Put, OfMemory

\* come out,
LEMMA TakeMaps ==
  ASSUME BufferInv, BufferInv', QueueInv, QueueInv', ops = "memory", ops' = ops,
         call # Deleted, call' # Deleted,
         NEW n \in Nat, n <= BufSize, written_total' = written_total,
         Len(out') = Len(out) + n, ret' \in {ret, "ok"}
  PROVE  Fifo!Take
<1> DEFINE F == FileLen
           a == FileLen + Len(out)
           b == FileLen + written_total
           c == FileLen + Len(out) + n
<1>1. Len(out) <= written_total /\ out = Run(F, a) /\ Queued = Run(a, b)
  BY DEF QueueInv
<1>2. /\ FileLen \in Nat /\ Len(out) \in Nat /\ written_total \in Nat /\ BufSize \in Nat
  BY Sizes
<1>3. Len(out') <= written_total' /\ FileLen + Len(out') = c /\ FileLen + written_total' = b
  <2>1. Len(out') <= written_total'
    BY DEF QueueInv
  <2> QED BY <1>2, <2>1
<1>4. out' = Run(F, c) /\ Queued' = Run(c, b)
  BY <1>3 DEF QueueInv
<1>5. /\ F \in Nat /\ a \in Nat /\ b \in Nat /\ c \in Nat /\ F <= a /\ a <= c /\ c <= b /\ a <= b
      /\ n \in 0..BufSize /\ a - a + 1 = 1 /\ c - a = n /\ c - a + 1 = n + 1
      /\ n <= b - a /\ a <= a /\ b <= b
  BY <1>2, <1>3
<1> HIDE DEF F, a, b, c
<1>6. Len(Queued) = b - a
  BY <1>1, <1>5, RunLength
<1>7. SubSeq(Queued, 1, n) = Run(a, c)
  <2>1. Cut(a, b, a, c) = Run(a, c)
    BY <1>5, CutIsRun
  <2> QED BY <1>1, <1>5, <2>1 DEF Cut
<1>8. SubSeq(Queued, n + 1, Len(Queued)) = Run(c, b)
  <2>1. Cut(a, b, c, b) = Run(c, b)
    BY <1>5, CutIsRun
  <2> QED BY <1>1, <1>5, <1>6, <2>1 DEF Cut
<1>9. Run(F, a) \o Run(a, c) = Run(F, c)
  BY <1>5, JoinedRuns
<1>10. out' = out \o SubSeq(Queued, 1, n) /\ Queued' = SubSeq(Queued, n + 1, Len(Queued))
       /\ n <= Len(Queued)
  BY <1>1, <1>4, <1>5, <1>6, <1>7, <1>8, <1>9
<1> QED BY <1>5, <1>10 DEF Fifo!Take, OfMemory

\* go back,
LEMMA PutBackMaps ==
  ASSUME BufferInv, BufferInv', QueueInv, QueueInv', ops = "memory", ops' = ops,
         call # Deleted, call' # Deleted, written_total' = written_total, out # <<>>,
         out' = SubSeq(out, 1, Len(out) - 1), ret' = ret
  PROVE  Fifo!PutBack
<1>1. /\ FileLen \in Nat /\ Len(out) \in Nat /\ written_total \in Nat /\ Len(out) > 0
  <2>1. out \in Seq(Nat) /\ FileLen \in Nat /\ Len(out) \in Nat /\ written_total \in Nat
    BY Sizes, Bytes
  <2>2. Len(out) \in Nat \ {0}
    BY <2>1, EmptySeq
  <2> QED BY <2>1, <2>2
<1> DEFINE F == FileLen
           a == FileLen + Len(out) - 1
           b == FileLen + Len(out)
           c == FileLen + written_total
<1>2. Len(out) <= written_total /\ out = Run(F, b) /\ Queued = Run(b, c)
  BY DEF QueueInv
<1>3. /\ F \in Nat /\ a \in Nat /\ b \in Nat /\ c \in Nat /\ F <= b /\ a <= b /\ b <= c /\ F <= a
      /\ b - a = 1 /\ a + 1 = b /\ b - F = Len(out) /\ b - F \in 1..(b - F) /\ F + (b - F) = b
      /\ F + (Len(out) - 1) = a
  BY <1>1, <1>2
<1>4. Len(out') = Len(out) - 1
  <2>1. out \in Seq(Nat) /\ Len(out) - 1 \in Nat /\ Len(out) - 1 <= Len(out)
    BY <1>1, Bytes
  <2> QED BY <2>1, PrefixOfSeq
<1>5. Queued' = Run(a, c)
  <2>1. FileLen + Len(out') = a /\ FileLen + written_total' = c
    BY <1>1, <1>4
  <2> QED BY <2>1 DEF QueueInv
<1> HIDE DEF F, a, b, c
<1>6. out[Len(out)] = b
  <2>1. \A i \in 1..(b - F) : Run(F, b)[i] = F + i
    BY <1>3, RunIsSeq
  <2>2. Run(F, b)[b - F] = b
    BY <1>3, <2>1
  <2> QED BY <1>2, <1>3, <2>2
<1>7. <<b>> = Run(a, b)
  <2>1. <<b>> \in Seq(Nat) /\ Len(<<b>>) = b - a /\ \A i \in 1..(b - a) : <<b>>[i] = a + i
    BY <1>3
  <2> QED BY <1>3, <2>1, SeqIsRun
<1>8. Run(a, b) \o Run(b, c) = Run(a, c)
  BY <1>3, JoinedRuns
<1>9. Queued' = <<out[Len(out)]>> \o Queued
  BY <1>2, <1>5, <1>6, <1>7, <1>8
<1> QED BY <1>9 DEF Fifo!PutBack, OfMemory

\* are all gone,
LEMMA ComeUpShortMaps ==
  ASSUME BufferInv, BufferInv', QueueInv, QueueInv', ops = "memory", ops' = ops,
         call # Deleted, call' # Deleted, written_total' = written_total,
         Len(out) = written_total, Len(out') = Len(out), ret' = "eof"
  PROVE  Fifo!ComeUpShort
<1> DEFINE b == FileLen + written_total
<1>1. b \in Nat
  BY Sizes
<1>2. Queued = Run(b, b) /\ Queued' = Run(b, b) /\ out = Run(FileLen, b) /\ out' = Run(FileLen, b)
  BY DEF QueueInv
<1>3. Queued = <<>> /\ Queued' = <<>> /\ out' = out
  BY <1>1, <1>2, EmptyRun
<1> QED BY <1>3 DEF Fifo!ComeUpShort, OfMemory

\* or are dropped with the buffer.
LEMMA CloseMaps ==
  ASSUME ops = "memory", ops' = ops, call # Deleted, call' = Deleted,
         UNCHANGED <<written_total, out, ret>>
  PROVE  Fifo!Close
BY DEF Fifo!Close, OfMemory, Queued

-----------------------------------------------------------------------------
(* Memory: each call is one of these steps.                                *)

\* Appending k bytes.
LEMMA TakenLength ==
  ASSUME BufferInv, NEW s \in Seq(Nat), NEW k \in Nat, out' = out \o s, Len(s) = k
  PROVE  Len(out') = Len(out) + k
BY Bytes, ConcatProperties

\* Bytes of the block that the client gets.
LEMMA TakeLength ==
  ASSUME BufferInv, NEW k \in Nat, k <= Len(block) - pos, Take(k)
  PROVE  Len(out') = Len(out) + k /\ written_total' = written_total /\ k <= BufSize
<1>1. /\ Len(block) \in Nat /\ pos \in Nat /\ BufSize \in Nat /\ Len(block) <= BufSize
  BY Sizes
<1> DEFINE q == pos + k
<1>2. q \in Nat /\ q <= Len(block) /\ q - pos = k /\ (pos < q <=> k > 0) /\ k <= BufSize
  BY <1>1
<1>3. out' = out \o SubSeq(block, pos + 1, q) /\ written_total' = written_total
  BY DEF Take
<1> HIDE DEF q
<1>4. /\ SubSeq(block, pos + 1, q) \in Seq(Nat)
      /\ Len(SubSeq(block, pos + 1, q)) = IF pos < q THEN q - pos ELSE 0
  BY <1>1, <1>2, Bytes, PartOfSeq
<1>5. Len(SubSeq(block, pos + 1, q)) = k
  BY <1>2, <1>4
<1> QED BY <1>2, <1>3, <1>4, <1>5, TakenLength

\* Bytes of a fill that the client gets.
LEMMA FillLength ==
  ASSUME BufferInv, NEW n \in FillCounts, NEW k \in Nat, k <= n, FillAndTake(n, k)
  PROVE  Len(out') = Len(out) + k /\ written_total' = written_total /\ k <= BufSize
<1>1. n \in Nat /\ n <= BufSize /\ n <= Len(store) - store_pos
  BY FillCountsBounded
<1>2. store \in Seq(Nat) /\ store_pos \in Nat /\ Len(store) \in Nat /\ BufSize \in Nat
  BY Sizes, Bytes
<1>3. Filled(n) \in Seq(Nat) /\ Len(Filled(n)) = n
  BY <1>1, <1>2, PartOfSeq DEF Filled
<1>4. SubSeq(Filled(n), 1, k) \in Seq(Nat) /\ Len(SubSeq(Filled(n), 1, k)) = k
  BY <1>1, <1>3, PrefixOfSeq
<1>5. out' = out \o SubSeq(Filled(n), 1, k) /\ written_total' = written_total
  BY DEF FillAndTake
<1>6. Len(out') = Len(out) + k
  BY <1>4, <1>5, TakenLength
<1> QED BY <1>1, <1>2, <1>5, <1>6

\* A fill that finds nothing finds that everything was taken.
LEMMA NothingLeft ==
  ASSUME BufferInv, ClientInv, ops = "memory", call # Deleted, mode # "WRITING",
         pos = Len(block), NEW n \in FillCounts, n = 0
  PROVE  Len(out) = written_total
<1>1. store_pos = Len(store)
  BY FillAtEnd
<1>2. ReadingBack /\ written_total = Len(store) /\ Base = FileLen
  BY DEF ClientInv, Base
<1>3. /\ FileLen \in Nat /\ Len(block) \in Nat /\ written_total \in Nat
  BY Sizes
<1> DEFINE c == FileLen + written_total
<1>4. c \in Nat /\ FileLen <= c /\ c - FileLen = written_total
      /\ Base + store_pos - Len(block) + pos = c
  BY <1>1, <1>2, <1>3
<1>5. out = Run(FileLen, c)
  BY <1>2, <1>4 DEF ReadingBack
<1> HIDE DEF c
<1> QED BY <1>3, <1>4, <1>5, RunLength

\* A fill of which k bytes are consumed.
LEMMA FillMaps ==
  ASSUME BufferInv, BufferInv', ClientInv, QueueInv, QueueInv', ops = "memory", ops' = ops,
         call # Deleted, call' # Deleted, mode # "WRITING", pos = Len(block),
         NEW n \in FillCounts, NEW k \in Nat, k <= n, FillAndTake(n, k),
         IF n = 0 THEN ret' = "eof" ELSE ret' \in {ret, "ok"}
  PROVE  Fifo!Next
<1>1. Len(out') = Len(out) + k /\ written_total' = written_total /\ k <= BufSize
  BY FillLength
<1>2. CASE n = 0
  <2>1. Len(out) = written_total
    BY <1>2, NothingLeft
  <2>2. Len(out') = Len(out)
    <3>1. k = 0 /\ Len(out) \in Nat
      BY <1>2, Sizes
    <3> QED BY <1>1, <3>1
  <2>3. Fifo!ComeUpShort
    BY <1>1, <1>2, <2>1, <2>2, ComeUpShortMaps
  <2> QED BY <2>3 DEF Fifo!Next
<1>3. CASE n # 0
  <2>1. Fifo!Take
    BY <1>1, <1>3, TakeMaps
  <2> QED BY <2>1 DEF Fifo!Next
<1> QED BY <1>2, <1>3

\* nb_buffer_getc and nb_buffer_peek.
LEMMA GetOrPeekMaps ==
  ASSUME BufferInv, BufferInv', ClientInv, QueueInv, QueueInv', ops = "memory", ops' = ops,
         mode # "WRITING", NEW k \in {0, 1}, GetOrPeek(k)
  PROVE  Fifo!Next
<1>1. call # Deleted /\ call' # Deleted
  BY DEF GetOrPeek, Ready, NoCall, Deleted
<1>2. Len(block) \in Nat /\ pos \in Nat
  BY Sizes
<1>3. CASE pos < Len(block) /\ Take(k) /\ ret' = "ok"
  <2>1. k \in Nat /\ k <= Len(block) - pos
    BY <1>2, <1>3
  <2>2. Len(out') = Len(out) + k /\ written_total' = written_total /\ k <= BufSize
    BY <1>3, <2>1, TakeLength
  <2>3. Fifo!Take
    BY <1>1, <1>3, <2>1, <2>2, TakeMaps
  <2> QED BY <2>3 DEF Fifo!Next
<1>4. CASE pos = Len(block) /\ \E n \in FillCounts :
             FillAndTake(n, Min2(n, k)) /\ ret' = IF n = 0 THEN "eof" ELSE "ok"
  <2> PICK n \in FillCounts :
        FillAndTake(n, Min2(n, k)) /\ ret' = IF n = 0 THEN "eof" ELSE "ok"
    BY <1>4
  <2>1. Min2(n, k) \in Nat /\ Min2(n, k) <= n
    BY FillCountsBounded DEF Min2
  <2> QED BY <1>1, <1>4, <2>1, FillMaps
<1> QED BY <1>3, <1>4 DEF GetOrPeek

\* The reading calls.
LEMMA ClientReadMaps ==
  ASSUME BufferInv, BufferInv', ClientInv, QueueInv, QueueInv', ops = "memory", ops' = ops,
         ClientRead
  PROVE  Fifo!Next
<1>1. call = NoCall /\ call # Deleted /\ mode # "WRITING"
  BY DEF ClientRead, Read, Getc, Peek, GetOrPeek, IsEof, Ungetc, Ready, NoCall, Deleted
<1>2. CASE \E n \in 0..MaxCount : Read(n)
  <2> PICK n \in 0..MaxCount : Read(n)
    BY <1>2
  <2>1. n \in Nat /\ BufSize \in Nat /\ Len(out) \in Nat
    BY BoundsAssumption, Sizes
  <2>2. CASE n <= Len(block) - pos /\ Take(n) /\ ret' = (IF n = 0 THEN ret ELSE "ok")
             /\ UNCHANGED call
    <3>1. Len(out') = Len(out) + n /\ written_total' = written_total /\ n <= BufSize
      BY <2>1, <2>2, TakeLength
    <3>2. Fifo!Take
      BY <1>1, <2>1, <2>2, <3>1, TakeMaps
    <3> QED BY <3>2 DEF Fifo!Next
  <2>3. CASE call' = InCall("read", n)
             /\ UNCHANGED <<block, pos, written_total, backend, out, ret>>
    <3>1. call' # Deleted /\ 0 <= BufSize /\ Len(out') = Len(out) + 0
      BY <2>1, <2>3 DEF InCall, NoCall, Deleted
    <3>2. Fifo!Take
      BY <1>1, <2>3, <3>1, TakeMaps
    <3> QED BY <3>2 DEF Fifo!Next
  <2> QED BY <1>1, <2>2, <2>3 DEF Read
<1>3. ASSUME NEW k \in {0, 1}, GetOrPeek(k) PROVE Fifo!Next
  BY <1>1, <1>3, GetOrPeekMaps
<1>4. CASE pos > 0 /\ Ungetc
  <2>1. /\ out # <<>> /\ out' = SubSeq(out, 1, Len(out) - 1)
        /\ UNCHANGED <<written_total, call, ret>>
    <3>1. ~(pos = 0)
      BY <1>4
    <3> QED BY <1>4, <3>1 DEF Ungetc
  <2>2. Fifo!PutBack
    BY <1>1, <2>1, PutBackMaps
  <2> QED BY <2>2 DEF Fifo!Next
<1> QED BY <1>1, <1>2, <1>3, <1>4 DEF ClientRead, Getc, Peek, IsEof

\* An iteration of read_internal.
LEMMA ReadStepMaps ==
  ASSUME BufferInv, BufferInv', ClientInv, QueueInv, QueueInv', ops = "memory", ops' = ops,
         ReadStep
  PROVE  Fifo!Next
<1>1. call.op = "read" /\ call # Deleted /\ mode # "WRITING"
  BY DEF ReadStep, ClientInv, Deleted
<1>2. Len(block) \in Nat /\ pos \in Nat /\ call.left \in Nat
  BY Sizes
<1>3. ASSUME NEW left PROVE InCall("read", left) # Deleted /\ NoCall # Deleted
  BY DEF InCall, NoCall, Deleted
<1>4. CASE /\ pos < Len(block)
           /\ LET k == Min2(Len(block) - pos, call.left)
              IN  /\ Take(k)
                  /\ call' = InCall("read", call.left - k)
                  /\ ret' = IF k = call.left THEN "ok" ELSE ret
  <2> DEFINE k == Min2(Len(block) - pos, call.left)
  <2>1. k \in Nat /\ k <= Len(block) - pos
    BY <1>2, <1>4 DEF Min2
  <2>2. Take(k) /\ call' = InCall("read", call.left - k)
        /\ ret' = IF k = call.left THEN "ok" ELSE ret
    BY <1>4
  <2> HIDE DEF k
  <2>3. Len(out') = Len(out) + k /\ written_total' = written_total /\ k <= BufSize
    BY <2>1, <2>2, TakeLength
  <2>4. Fifo!Take
    BY <1>1, <1>3, <2>1, <2>2, <2>3, TakeMaps
  <2> QED BY <2>4 DEF Fifo!Next
<1>5. CASE /\ pos = Len(block)
           /\ \E n \in FillCounts :
                LET k == Min2(n, call.left)
                IN  /\ FillAndTake(n, k)
                    /\ call' = IF n = 0 THEN NoCall ELSE InCall("read", call.left - k)
                    /\ ret' = IF n = 0 THEN "eof" ELSE IF k = call.left THEN "ok" ELSE ret
  <2> PICK n \in FillCounts :
        /\ FillAndTake(n, Min2(n, call.left))
        /\ call' = IF n = 0 THEN NoCall ELSE InCall("read", call.left - Min2(n, call.left))
        /\ ret' = IF n = 0 THEN "eof" ELSE IF Min2(n, call.left) = call.left THEN "ok" ELSE ret
    BY <1>5
  <2>1. Min2(n, call.left) \in Nat /\ Min2(n, call.left) <= n
    BY <1>2, FillCountsBounded DEF Min2
  <2>2. call' # Deleted
    BY <1>3
  <2>3. IF n = 0 THEN ret' = "eof" ELSE ret' \in {ret, "ok"}
    OBVIOUS
  <2> QED BY <1>1, <1>5, <2>1, <2>2, <2>3, FillMaps
<1> QED BY <1>4, <1>5 DEF ReadStep

\* The writing calls; a write(2) that fails is no step of memory.
LEMMA WriteMaps ==
  ASSUME BufferInv, BufferInv', ClientInv, QueueInv, QueueInv', ops = "memory", ops' = ops,
         (\E n \in 0..MaxCount : ClientWrite(n)) \/ WriteStep \/ ClientFlush
  PROVE  Fifo!Next
<1>0. BufSize \in Nat /\ Len(block) \in Nat /\ call.left \in Nat /\ written_total \in Nat
      /\ MaxCount \in Nat
  BY Sizes, BoundsAssumption
<1>1. ~FlushFails
  BY DEF FlushFails
<1>2. ASSUME NEW left PROVE InCall("write", left) # Deleted /\ NoCall # Deleted
  BY DEF InCall, NoCall, Deleted
<1>3. ASSUME NEW n \in Nat, n <= BufSize, written_total' = written_total + n, out' = out,
             ret' \in {ret, "none"}, call # Deleted, call' # Deleted
      PROVE  Fifo!Next
  BY <1>3, PutMaps DEF Fifo!Next
<1>4. ASSUME NEW n \in 0..MaxCount, ClientWrite(n) PROVE Fifo!Next
  <2>1. mode # "READING" /\ call = NoCall /\ call # Deleted
    BY <1>2, <1>4 DEF ClientWrite, Write, Ready
  <2>2. n \in Nat
    BY <1>0
  <2>3. CASE n <= BufSize - Len(block) /\ Put(pos, n) /\ UNCHANGED call
    <3>1. n <= BufSize /\ written_total' = written_total + n
      BY <1>0, <2>2, <2>3 DEF Put
    <3>2. out' = out /\ ret' = "none"
      BY <1>4, <2>1 DEF ClientWrite, Write
    <3> QED BY <1>3, <2>1, <2>2, <2>3, <3>1, <3>2
  <2>4. CASE call' = InCall("write", n) /\ UNCHANGED <<block, pos, written_total>>
    <3>1. 0 \in Nat /\ 0 <= BufSize /\ written_total' = written_total + 0 /\ call' # Deleted
      BY <1>0, <1>2, <2>4
    <3>2. out' = out /\ ret' = "none"
      BY <1>4, <2>1 DEF ClientWrite, Write
    <3> QED BY <1>3, <2>1, <3>1, <3>2
  <2> QED BY <1>4, <2>1, <2>3, <2>4 DEF ClientWrite, Write
<1>5. CASE WriteStep
  <2>1. call # Deleted
    BY <1>5 DEF WriteStep, Deleted
  <2>2. PICK p \in {pos, 0}, size \in {BufSize - Len(block), BufSize} :
          /\ Put(p, Min2(size, call.left)) /\ call' = InCall("write", call.left - Min2(size, call.left))
          /\ UNCHANGED <<out, ret>> /\ size \in Nat /\ size <= BufSize
    <3>1. CASE /\ Len(block) < BufSize
               /\ LET n == Min2(BufSize - Len(block), call.left)
                  IN  Put(pos, n) /\ call' = InCall("write", call.left - n)
               /\ UNCHANGED <<mode, backend, out, ret>>
      <4>1. BufSize - Len(block) \in Nat /\ BufSize - Len(block) <= BufSize
        BY <1>0, <3>1
      <4> QED BY <3>1, <4>1
    <3>2. CASE /\ LET n == Min2(BufSize, call.left)
                  IN  Put(0, n) /\ call' = InCall("write", call.left - n)
               /\ UNCHANGED <<mode, out, ret>>
      BY <1>0, <3>2
    <3> QED BY <1>1, <1>5, <3>1, <3>2 DEF WriteStep
  <2> DEFINE n == Min2(size, call.left)
  <2>3. n \in Nat /\ n <= BufSize
    BY <1>0, <2>2 DEF Min2
  <2>4. written_total' = written_total + n /\ call' # Deleted
    BY <1>2, <2>2 DEF Put
  <2> HIDE DEF n
  <2> QED BY <1>3, <2>1, <2>2, <2>3, <2>4
<1>6. CASE ClientFlush
  <2>1. call = NoCall /\ call' = call /\ out' = out /\ ret' = "none"
        /\ written_total' = written_total
    BY <1>1, <1>6 DEF ClientFlush, Flush, Ready
  <2>2. 0 \in Nat /\ 0 <= BufSize /\ written_total' = written_total + 0
        /\ call # Deleted /\ call' # Deleted
    BY <1>0, <1>2, <2>1
  <2> QED BY <1>3, <2>1, <2>2
<1> QED BY <1>4, <1>5, <1>6

\* Every step of the client is a step of the queue or leaves it alone.
LEMMA StepMaps ==
  BufferInv /\ ClientInv /\ QueueInv /\ BufferInv' /\ QueueInv' /\ [ClientNext]_vars
    => [Fifo!Next]_<<Queued, OfMemory(written_total, 0), OfMemory(out, <<>>),
                     OfMemory(ret, "none"), OfMemory(call # Deleted, TRUE)>>
<1> DEFINE mapped == <<Queued, OfMemory(written_total, 0), OfMemory(out, <<>>),
                       OfMemory(ret, "none"), OfMemory(call # Deleted, TRUE)>>
<1> SUFFICES ASSUME BufferInv, ClientInv, QueueInv, BufferInv', QueueInv', [ClientNext]_vars
             PROVE  Fifo!Next \/ UNCHANGED mapped
  OBVIOUS
<1>1. ops' = ops
  BY DEF ClientNext, vars
<1>2. CASE ops # "memory"
  BY <1>1, <1>2 DEF Queued, OfMemory
<1>3. CASE UNCHANGED vars
  BY <1>3 DEF vars, Queued, OfMemory, Stored, Unread
<1>4. CASE ops = "memory" /\ ClientNext
  <2>1. CASE ClientRead
    BY <1>1, <1>4, <2>1, ClientReadMaps
  <2>2. CASE ReadStep
    BY <1>1, <1>4, <2>2, ReadStepMaps
  <2>3. CASE (\E n \in 0..MaxCount : ClientWrite(n)) \/ WriteStep \/ ClientFlush
    BY <1>1, <1>4, <2>3, WriteMaps
  <2>4. CASE Delete
    <3>1. call # Deleted /\ call' = Deleted /\ UNCHANGED <<written_total, out, ret>>
      BY <1>4, <2>4 DEF Delete, FlushFails, Ready, NoCall, Deleted
    <3>2. Fifo!Close
      BY <1>1, <1>4, <3>1, CloseMaps
    <3> QED BY <3>2 DEF Fifo!Next
  <2> QED BY <1>4, <2>1, <2>2, <2>3, <2>4 DEF ClientNext
<1> QED BY <1>2, <1>3, <1>4

\* A new buffer is an empty queue.
LEMMA InitMaps == Init => Fifo!Init
<1> SUFFICES ASSUME Init PROVE Fifo!Init
  OBVIOUS
<1>1. /\ block = <<>> /\ pos = 0 /\ written_total = 0 /\ store_pos = 0 /\ mode = "IDLE"
      /\ out = <<>> /\ ret = "none" /\ call # Deleted
      /\ (ops = "memory" => store = <<>>)
  BY DEF Init, NoCall, Deleted
<1>2. Queued = <<>>
  <2>1. CASE ops # "memory"
    BY <2>1 DEF Queued
  <2>2. CASE ops = "memory"
    <3>1. Len(<<>>) = 0 /\ <<>> \in Seq(Nat)
      BY EmptySeq
    <3>2. SubSeq(<<>>, 0 + 1, 0) = <<>>
      BY SubSeqEmpty
    <3>3. Unread = <<>> /\ Stored = <<>>
      BY <1>1, <2>2, <3>1, <3>2 DEF Unread, Stored
    <3>4. Queued = Unread \o Stored
      BY <1>1, <2>2 DEF Queued
    <3> QED BY <3>1, <3>3, <3>4, ConcatEmptySeq
  <2> QED BY <2>1, <2>2
<1> QED BY <1>1, <1>2 DEF Fifo!Init, OfMemory

\* A memory buffer implements a first-in first-out queue of bytes, through any
\* mixture of fast and slow calls, flushes, fills and growths of the memory, and
\* a reading call comes up short only when every byte has been delivered: for
\* every block size and every length of the calls.
THEOREM MemoryIsFifo == ClientSpec => IsFifo
<1>1. BufferInv' /\ ClientInv' => QueueInv'
  BY QueueIsRun, PTL
<1>2. BufferInv /\ ClientInv /\ [ClientNext]_vars
        => [Fifo!Next]_<<Queued, OfMemory(written_total, 0), OfMemory(out, <<>>),
                         OfMemory(ret, "none"), OfMemory(call # Deleted, TRUE)>>
  BY <1>1, QueueIsRun, ClientStepInv, StepMaps
<1> QED BY InitInv, ClientInit, ClientStepInv, InitMaps, <1>2, PTL DEF ClientSpec, IsFifo, Fifo!Spec
=============================================================================
