------------------------------- MODULE NbArray ------------------------------
(***************************************************************************)
(* array.c: a growing array of items behind a header.  netbufs.c keeps     *)
(* groups, attributes and pid_to_lid in such arrays and takes an item it   *)
(* never set to be zero (NULL, LID_UNKNOWN).                               *)
(*                                                                         *)
(* Item i of the code is cell i + 1.  Memory fresh from realloc is Junk.   *)
(***************************************************************************)
EXTENDS Integers

CONSTANTS
  ItemValues,   \* what clients store, 0 among it
  InitCapacity, \* init_capacity of array_new
  MaxItems      \* bound: the largest number of items

ASSUME ArrayAssumption ==
  ItemValues \subseteq Nat /\ 0 \in ItemValues /\ InitCapacity \in Nat /\ MaxItems \in Nat

VARIABLES
  num_items,  \* header->num_items
  capacity,   \* header->capacity
  cells,      \* the memory behind the header
  known,      \* history: what each item must hold, as far as the client can know
  stale       \* history: how many items existed at most before an array_reset

arrayVars == <<num_items, capacity, cells, known, stale>>
Junk == -1
Unknown == -2

Larger(a, b) == IF a >= b THEN a ELSE b

\* Mutant of Resized: the size of the cleared memory is not multiplied.
ResizedClearsOne(mem, old, new) ==
  [i \in 1..new |-> IF i <= old THEN mem[i] ELSE IF i = old + 1 THEN 0 ELSE Junk]

\* resize: realloc keeps the old memory, memset clears the new one.
Resized(mem, old, new) == [i \in 1..new |-> IF i <= old THEN mem[i] ELSE 0]

\* The array has count items.  Those it did not have are unknown to the client
\* if they had been items before an array_reset, which clears nothing, else zero.
HasItems(count) ==
  /\ num_items' = count
  /\ known' = [i \in 1..count |-> IF i <= num_items THEN known[i]
                                  ELSE IF i <= stale THEN Unknown ELSE 0]
  /\ UNCHANGED stale

\* Room for count items, at least doubling what there is.
Grow(count) ==
  \/ count <= capacity /\ UNCHANGED <<capacity, cells>>
  \/ /\ count > capacity
     /\ capacity' = Larger(count, 2 * capacity)
     /\ cells' = Resized(cells, capacity, Larger(count, 2 * capacity))

ArrayInit ==
  /\ num_items = 0 /\ capacity = InitCapacity
  /\ cells = Resized(<<>>, 0, InitCapacity)
  /\ known = <<>> /\ stale = 0

\* n more items.  array_new_size is array_new and this.
ArrayPush(n) == num_items + n <= MaxItems /\ Grow(num_items + n) /\ HasItems(num_items + n)

\* There is an item at the index, and at all below it.
ArrayEnsureIndex(index) ==
  index < MaxItems /\ Grow(index + 1) /\ HasItems(Larger(num_items, index + 1))

ArrayReset ==
  /\ num_items' = 0 /\ known' = <<>>
  /\ stale' = Larger(stale, num_items)
  /\ UNCHANGED <<capacity, cells>>

\* The client stores a value in one of the items.
ArraySet(i, v) ==
  /\ i \in 1..num_items
  /\ cells' = [cells EXCEPT ![i] = v]
  /\ known' = [known EXCEPT ![i] = v]
  /\ UNCHANGED <<num_items, capacity, stale>>

ArrayNext ==
  \/ \E n \in 0..MaxItems : ArrayPush(n) \/ ArrayEnsureIndex(n)
  \/ ArrayReset
  \/ \E i \in 1..MaxItems, v \in ItemValues : ArraySet(i, v)

ArraySpec == ArrayInit /\ [][ArrayNext]_arrayVars

-----------------------------------------------------------------------------
\* Types; the memory is as long as the header says.
ArrayTypeOK ==
  /\ num_items \in Nat /\ capacity \in Nat /\ stale \in Nat
  /\ cells \in [1..capacity -> ItemValues \cup {Junk}]
  /\ known \in [1..num_items -> ItemValues \cup {Unknown}]

\* Every item is in the array's memory and holds what was stored in it last, or
\* zero when nothing was, whatever pushes, gaps left by array_ensure_index and
\* growths happened since.  Only array_reset, which clears nothing, makes items
\* appear with old contents.
ArrayHoldsItems ==
  /\ num_items <= capacity
  /\ \A i \in 1..num_items : known[i] # Unknown => cells[i] = known[i]
=============================================================================
