------------------------------- MODULE NbStack ------------------------------
(***************************************************************************)
(* stack.c: a growing stack of items of one size.  cbor.c keeps the open   *)
(* blocks of a stream in one.                                              *)
(***************************************************************************)
EXTENDS Integers

CONSTANTS
  Frames,     \* what is pushed
  NoFrame,    \* memory that was never written
  InitSize,   \* init_stack_size, 4 in cbor_stream_init
  MaxDepth    \* bound: no push on a stack this deep

\* stack_push doubles the size, so it must not be 0.
ASSUME StackAssumption == InitSize \in Nat \ {0} /\ MaxDepth \in Nat /\ NoFrame \notin Frames

VARIABLES
  depth,       \* stack->num_items
  stack_size,  \* stack->size
  slots        \* stack->items

stackVars == <<depth, stack_size, slots>>

StackInit ==
  /\ depth = 0 /\ stack_size = InitSize
  /\ slots = [i \in 1..InitSize |-> NoFrame]

\* Mutant of Reallocated: malloc instead of realloc.
ReallocatedAnew(mem, old, new) == [i \in 1..new |-> NoFrame]

\* realloc in stack_resize.
Reallocated(mem, old, new) == [i \in 1..new |-> IF i <= old THEN mem[i] ELSE NoFrame]

\* stack_push, and the caller (push_block) that fills the slot it is given.
StackPush(f) ==
  /\ depth < MaxDepth
  /\ depth' = depth + 1
  /\ \/ /\ depth < stack_size
        /\ slots' = [slots EXCEPT ![depth + 1] = f]
        /\ UNCHANGED stack_size
     \/ /\ depth >= stack_size
        /\ stack_size' = 2 * stack_size
        /\ slots' = [Reallocated(slots, stack_size, 2 * stack_size) EXCEPT ![depth + 1] = f]

\* The slot stays as it is until the next push.
StackPop == depth > 0 /\ depth' = depth - 1 /\ UNCHANGED <<stack_size, slots>>

StackNext == StackPop \/ \E f \in Frames : StackPush(f)

StackSpec == StackInit /\ [][StackNext]_stackVars

-----------------------------------------------------------------------------
\* Types, and the assert of stack_push: there is room for every item.
StackTypeOK ==
  /\ depth \in Nat /\ stack_size \in Nat \ {0}
  /\ slots \in [1..stack_size -> Frames \cup {NoFrame}]
  /\ depth <= stack_size

Abstract == INSTANCE Lifo WITH frame <- [i \in 1..depth |-> slots[i]]

\* The stack is last-in first-out through any growths: what a pop uncovers is
\* what was pushed below, as the models that take cs->blocks as a sequence assume.
IsLifo == Abstract!Spec
=============================================================================
