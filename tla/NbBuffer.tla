------------------------------ MODULE NbBuffer ------------------------------
(***************************************************************************)
(* The byte buffer under every NetBufs stream: src/buffer.c, the inline    *)
(* fast paths of include/buffer.h and the two back-ends, buffer-memory.c   *)
(* and buffer-file.c.                                                      *)
(*                                                                         *)
(* One buffer is used for reading or for writing.  A call that fits the    *)
(* internal block completes at once (the fast path); a call that does not  *)
(* goes round the loop of read_internal / write_internal, which moves one  *)
(* block per iteration and fills or flushes the block in between.  A step  *)
(* of the loop is an action here, so a state is what the code sees between *)
(* two iterations.                                                         *)
(*                                                                         *)
(* A byte is a number that tells where it came from: 1..FileLen are the    *)
(* bytes of the file the buffer was opened on and FileLen + i is the i-th  *)
(* byte the client wrote.                                                  *)
(***************************************************************************)
EXTENDS Integers, Sequences

CONSTANTS
  BufSize,   \* bufsize: 4 * 4096 in the code
  FileLen,   \* length of the file at open
  MaxCount,  \* bound: the largest nbytes of one call
  MaxTotal,  \* bound: written_total stops here
  MaxStore   \* bound: no new call once the back-end is longer than this

ASSUME BufSizeAssumption == BufSize \in Nat \ {0}
ASSUME BoundsAssumption ==
  FileLen \in Nat /\ MaxCount \in Nat /\ MaxTotal \in Nat /\ MaxStore \in Nat

VARIABLES
  ops,            \* buf->ops: which back end the buffer was made with
  mode,           \* buf->mode
  block,          \* the len valid bytes of buf->buf: len = Len(block)
  pos,            \* buf->pos
  written_total,  \* buf->written_total
  store,          \* memory[0 .. memory_len - 1], or the bytes of the file
  store_pos,      \* memory_pos, or the offset of the file descriptor
  memory_size,    \* bytes allocated to memory (memory back-end only)
  call,           \* the call in progress and how many bytes it still has to move
  out,            \* history: the bytes handed to the client, in order
  ret             \* history: did the last reading call end short ("eof") or not

vars == <<ops, mode, block, pos, written_total, store, store_pos, memory_size, call, out, ret>>
backend == <<store, store_pos, memory_size>>

\* nb_buffer_new_memory, nb_buffer_new_file.
Backends == {"memory", "file"}
Modes == {"IDLE", "READING", "WRITING"}
NoCall == [op |-> "none", left |-> 0]
\* A failed assert() ends the process, nb_buffer_delete the buffer.
Aborted == [op |-> "aborted", left |-> 0]
Deleted == [op |-> "deleted", left |-> 0]
InCall(op, left) == IF left = 0 THEN NoCall ELSE [op |-> op, left |-> left]

Min2(a, b) == IF a <= b THEN a ELSE b
Max2(a, b) == IF a >= b THEN a ELSE b

Unread == SubSeq(block, pos + 1, Len(block))
Stored == SubSeq(store, store_pos + 1, Len(store))
\* n bytes the client hands to a write: the next n numbers.
Fresh(n) == [i \in 1..n |-> FileLen + written_total + i]

\* The client may start a call: none is in progress and the bound is not reached.
Ready == call = NoCall /\ Len(store) <= MaxStore

Init ==
  /\ ops \in Backends
  /\ mode = "IDLE" /\ block = <<>> /\ pos = 0 /\ written_total = 0
  /\ store = IF ops = "memory" THEN <<>> ELSE [i \in 1..FileLen |-> i]
  /\ store_pos = 0 /\ memory_size = 0
  /\ call = NoCall /\ out = <<>> /\ ret = "none"

-----------------------------------------------------------------------------
(* The back-ends.                                                          *)

\* Mutant of FillCounts: a fill may come back empty although there is data.
FillCountsSpurious == 0..Min2(Len(store) - store_pos, BufSize)

\* How many bytes ops->fill may put in the block.  The memory back-end gives
\* all it has, up to a block; read(2) may give fewer, and an error (-1) is
\* turned into an empty block.
FillCounts ==
  LET most == Min2(Len(store) - store_pos, BufSize)
  IN  IF ops = "memory" THEN {most} ELSE 0..most

Filled(n) == SubSeq(store, store_pos + 1, store_pos + n)

\* Mutant of GrownSize: doubling only, so that no memory stays no memory.
GrownSizeDoubled == 2 * memory_size

\* mem_flush's new size: the double of the old one, but never under a block.
GrownSize == Max2(2 * memory_size, BufSize)

\* Mutant of MemFlush: memory_len is not advanced before the next copy.
MemFlushOverwrites ==
  /\ memory_size' = Max2(memory_size, BufSize)
  /\ store' = block \o SubSeq(store, Len(block) + 1, Len(store))
  /\ UNCHANGED store_pos

MemFlush ==
  /\ memory_size' = IF Len(store) + Len(block) > memory_size
                    THEN GrownSize ELSE memory_size
  /\ store' = store \o block
  /\ UNCHANGED store_pos

\* write(2) of the first n bytes of the block at the descriptor's offset.
FileWrite(n) ==
  /\ store' = SubSeq(store, 1, store_pos) \o SubSeq(block, 1, n)
                \o SubSeq(store, store_pos + n + 1, Len(store))
  /\ store_pos' = store_pos + n
  /\ UNCHANGED memory_size

OpsFlush == IF ops = "memory" THEN MemFlush ELSE FileWrite(Len(block))

\* TEMP_ASSERT(written == buf->len) of file_flush: write(2) failed or was short.
FlushFails ==
  /\ ops = "file"
  /\ \E n \in 0..Len(block) : (n = 0 \/ n < Len(block)) /\ FileWrite(n)
  /\ call' = Aborted
  /\ UNCHANGED <<mode, block, pos, written_total, out, ret>>

Abort == call' = Aborted /\ UNCHANGED <<mode, block, pos, written_total, backend, out, ret>>

-----------------------------------------------------------------------------
(* Writing.                                                                *)

\* Copy n fresh bytes behind the first p bytes of the block: memcpy to
\* buf + pos, then len = pos, which drops whatever the block held behind pos.
Put(p, n) ==
  /\ block' = SubSeq(block, 1, p) \o Fresh(n)
  /\ pos' = p + n
  /\ written_total' = written_total + n

Write(n) ==
  /\ Ready
  /\ written_total + n <= MaxTotal
  /\ \/ mode = "READING" /\ Abort
     \/ /\ mode # "READING"
        /\ mode' = "WRITING"
        /\ ret' = "none"
        /\ UNCHANGED <<backend, out>>
        /\ \/ /\ n <= BufSize - Len(block)
              /\ Put(pos, n)
              /\ UNCHANGED call
           \/ /\ n > BufSize - Len(block)
              /\ call' = InCall("write", n)
              /\ UNCHANGED <<block, pos, written_total>>

\* One iteration of write_internal's loop.  A full block is flushed first.
WriteStep ==
  /\ call.op = "write"
  /\ \/ /\ Len(block) < BufSize
        /\ LET n == Min2(BufSize - Len(block), call.left)
           IN  Put(pos, n) /\ call' = InCall("write", call.left - n)
        /\ UNCHANGED <<mode, backend, out, ret>>
     \/ /\ Len(block) = BufSize
        /\ OpsFlush
        /\ LET n == Min2(BufSize, call.left)
           IN  Put(0, n) /\ call' = InCall("write", call.left - n)
        /\ UNCHANGED <<mode, out, ret>>
     \/ Len(block) = BufSize /\ FlushFails

Flush ==
  /\ Ready
  /\ \/ /\ mode = "WRITING" => OpsFlush
        /\ mode # "WRITING" => UNCHANGED backend
        /\ block' = <<>> /\ pos' = 0 /\ mode' = "IDLE" /\ ret' = "none"
        /\ UNCHANGED <<written_total, call, out>>
     \/ mode = "WRITING" /\ FlushFails

-----------------------------------------------------------------------------
(* Reading.                                                                *)

\* Mutant of FillAndTake: nb_buffer_fill does not rewind pos.
FillAndTakeNoRewind(n, k) ==
  /\ block' = Filled(n)
  /\ pos' = Min2(pos + k, n)
  /\ store_pos' = store_pos + n
  /\ out' = out \o SubSeq(Filled(n), 1, k)
  /\ UNCHANGED <<written_total, store, memory_size>>

\* nb_buffer_fill: n bytes replace the block; the caller then consumes k of them.
FillAndTake(n, k) ==
  /\ block' = Filled(n)
  /\ pos' = k
  /\ store_pos' = store_pos + n
  /\ out' = out \o SubSeq(Filled(n), 1, k)
  /\ UNCHANGED <<written_total, store, memory_size>>

\* Consume k bytes that are in the block.
Take(k) ==
  /\ pos' = pos + k
  /\ out' = out \o SubSeq(block, pos + 1, pos + k)
  /\ UNCHANGED <<block, written_total, backend>>

\* A read of 0 bytes says nothing about the end of the data.
Read(n) ==
  /\ Ready
  /\ \/ mode = "WRITING" /\ Abort
     \/ /\ mode # "WRITING"
        /\ mode' = "READING"
        /\ \/ /\ n <= Len(block) - pos
              /\ Take(n)
              /\ ret' = IF n = 0 THEN ret ELSE "ok"
              /\ UNCHANGED call
           \/ /\ n > Len(block) - pos
              /\ call' = InCall("read", n)
              /\ UNCHANGED <<block, pos, written_total, backend, out, ret>>

\* Mutant of ReadStep: the loop goes on after a fill that found nothing.
ReadStepNoBreak ==
  /\ call.op = "read"
  /\ UNCHANGED mode
  /\ IF pos < Len(block)
     THEN LET k == Min2(Len(block) - pos, call.left)
          IN  Take(k) /\ call' = InCall("read", call.left - k)
     ELSE \E n \in FillCounts :
            LET k == Min2(n, call.left)
            IN  FillAndTake(n, k) /\ call' = InCall("read", call.left - k)
  /\ ret' = "ok"

\* One iteration of read_internal's loop.  An empty block is filled first; the
\* loop is left, with a short count, when the fill finds nothing.
ReadStep ==
  /\ call.op = "read"
  /\ UNCHANGED mode
  /\ \/ /\ pos < Len(block)
        /\ LET k == Min2(Len(block) - pos, call.left)
           IN  /\ Take(k)
               /\ call' = InCall("read", call.left - k)
               /\ ret' = IF k = call.left THEN "ok" ELSE ret
     \/ /\ pos = Len(block)
        /\ \E n \in FillCounts :
             LET k == Min2(n, call.left)
             IN  /\ FillAndTake(n, k)
                 /\ call' = IF n = 0 THEN NoCall ELSE InCall("read", call.left - k)
                 /\ ret' = IF n = 0 THEN "eof" ELSE IF k = call.left THEN "ok" ELSE ret

\* getc (k = 1), and peek (k = 0: getc followed by ungetc of the same byte).
\* Neither looks at the mode nor sets it.
GetOrPeek(k) ==
  /\ Ready
  /\ UNCHANGED <<mode, call>>
  /\ \/ pos < Len(block) /\ Take(k) /\ ret' = "ok"
     \/ /\ pos = Len(block)
        /\ \E n \in FillCounts :
             /\ FillAndTake(n, Min2(n, k))
             /\ ret' = IF n = 0 THEN "eof" ELSE "ok"

Getc == GetOrPeek(1)
Peek == GetOrPeek(0)

\* Mutant of Ungetc: no assert on pos.
UngetcUnchecked ==
  /\ Ready /\ out # <<>>
  /\ pos' = pos - 1
  /\ out' = SubSeq(out, 1, Len(out) - 1)
  /\ UNCHANGED <<mode, block, written_total, backend, call, ret>>

\* The client puts back the byte it got last.
Ungetc ==
  /\ Ready
  /\ out # <<>>
  /\ \/ pos = 0 /\ Abort
     \/ /\ pos > 0
        /\ pos' = pos - 1
        /\ block' = [block EXCEPT ![pos] = out[Len(out)]]
        /\ out' = SubSeq(out, 1, Len(out) - 1)
        /\ UNCHANGED <<mode, written_total, backend, call, ret>>

\* nb_buffer_is_eof: fills an empty block like peek, and leaves the mode alone.
IsEof ==
  \/ Ready /\ mode = "WRITING" /\ Abort
  \/ mode # "WRITING" /\ Peek

-----------------------------------------------------------------------------
\* Mutant of Delete: the block is dropped, not flushed.
DeleteNoFlush ==
  /\ Ready
  /\ block' = <<>> /\ pos' = 0 /\ call' = Deleted
  /\ UNCHANGED <<mode, written_total, backend, out, ret>>

Delete ==
  /\ Ready
  /\ \/ /\ mode = "WRITING" => OpsFlush
        /\ mode # "WRITING" => UNCHANGED backend
        /\ block' = <<>> /\ pos' = 0 /\ call' = Deleted
        /\ UNCHANGED <<mode, written_total, out, ret>>
     \/ mode = "WRITING" /\ FlushFails

Next ==
  /\ UNCHANGED ops
  /\ \/ \E n \in 0..MaxCount : Write(n) \/ Read(n)
     \/ WriteStep \/ ReadStep
     \/ Getc \/ Peek \/ Ungetc \/ IsEof
     \/ Flush \/ Delete

\* The loops run to their end: nothing but the process itself can stop them.
Fairness == WF_vars(UNCHANGED ops /\ WriteStep) /\ WF_vars(UNCHANGED ops /\ ReadStep)

Spec == Init /\ [][Next]_vars /\ Fairness

-----------------------------------------------------------------------------
(* Properties.                                                             *)

\* Types; a length never becomes negative (all are size_t in the code).
TypeOK ==
  /\ ops \in Backends /\ mode \in Modes
  /\ block \in Seq(Nat) /\ pos \in Nat /\ written_total \in Nat
  /\ store \in Seq(Nat) /\ store_pos \in Nat /\ memory_size \in Nat
  /\ call \in [op : {"none", "read", "write", "aborted", "deleted"}, left : Nat]
  /\ out \in Seq(Nat) /\ ret \in {"none", "ok", "eof"}

\* Every memcpy stays inside its memory, whatever the order of the calls: the
\* position never passes the valid bytes, these never pass the block, the
\* back-end is never read behind its end, and mem_flush's doubling is enough
\* for the block it appends (it would not be if memory_size could be positive
\* and less than a block).
WithinBounds ==
  /\ pos <= Len(block) /\ Len(block) <= BufSize
  /\ store_pos <= Len(store)
  /\ ops = "memory" =>
       Len(store) <= memory_size /\ (memory_size = 0 \/ memory_size >= BufSize)

\* The comment over read_internal (buffer.c:62): once a call has met the end of
\* the data, every later reading call meets it too, until something is written.
\* It is so of memory; a file may be read on after a failed read(2).
EofIsSticky == [][ops = "memory" /\ ret = "eof" => ret' \in {"eof", "none"}]_vars

\* A call that enters the slow loop of read_internal or write_internal leaves
\* it, by returning or (the file back-end) through a failed assert.
SlowCallsReturn == call.op \in {"read", "write"} ~> call.op \notin {"read", "write"}
=============================================================================
