-------------------------------- MODULE Lifo --------------------------------
(***************************************************************************)
(* What a stack promises: a sequence that grows and shrinks at its end.    *)
(* The models of the protocol and of CBOR use the block stack as one.      *)
(***************************************************************************)
EXTENDS Integers

CONSTANT Frames
VARIABLES depth, frame  \* frame[1] .. frame[depth], the top one last

Init == depth = 0 /\ frame = [i \in 1..0 |-> i]

Push(f) ==
  /\ depth' = depth + 1
  /\ frame' = [i \in 1..depth + 1 |-> IF i <= depth THEN frame[i] ELSE f]

Pop == depth > 0 /\ depth' = depth - 1 /\ frame' = [i \in 1..depth - 1 |-> frame[i]]

Next == Pop \/ \E f \in Frames : Push(f)
Spec == Init /\ [][Next]_<<depth, frame>>
=============================================================================
