----------------------------- MODULE ByteQueue ------------------------------
(***************************************************************************)
(* What a buffer promises the client that uses it as a pipe: bytes come    *)
(* out in the order they went in, none lost, none twice, and a reading     *)
(* call comes up short only when there is nothing left to read.            *)
(***************************************************************************)
EXTENDS Integers, Sequences

CONSTANTS
  First,  \* the bytes put are First + 1, First + 2, ... in this order
  Chunk   \* at most this many bytes move in one step

VARIABLES
  queue,  \* the bytes put and not yet taken
  total,  \* how many were put
  taken,  \* the bytes taken, in order
  answer, \* how the last reading call ended
  open    \* FALSE once the queue was deleted, with all that was in it

Init ==
  /\ queue = <<>> /\ total = 0 /\ taken = <<>>
  /\ answer = "none" /\ open = TRUE

Put == open /\ \E n \in 0..Chunk :
  /\ queue' = queue \o [i \in 1..n |-> First + total + i]
  /\ total' = total + n
  /\ answer' \in {answer, "none"}
  /\ UNCHANGED <<taken, open>>

Take == open /\ \E n \in 0..Chunk :
  /\ n <= Len(queue)
  /\ taken' = taken \o SubSeq(queue, 1, n)
  /\ queue' = SubSeq(queue, n + 1, Len(queue))
  /\ answer' \in {answer, "ok"}
  /\ UNCHANGED <<total, open>>

\* The byte taken last goes back to the head of the queue.
PutBack ==
  /\ open /\ taken # <<>>
  /\ queue' = <<taken[Len(taken)]>> \o queue
  /\ taken' = SubSeq(taken, 1, Len(taken) - 1)
  /\ UNCHANGED <<total, answer, open>>

\* A reading call finds nothing more.
ComeUpShort ==
  /\ open /\ queue = <<>>
  /\ answer' = "eof"
  /\ UNCHANGED <<queue, total, taken, open>>

Close == open /\ open' = FALSE /\ queue' = <<>> /\ UNCHANGED <<total, taken, answer>>

Next == Put \/ Take \/ PutBack \/ ComeUpShort \/ Close

Spec == Init /\ [][Next]_<<queue, total, taken, answer, open>>
=============================================================================
