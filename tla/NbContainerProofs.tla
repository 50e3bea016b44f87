-------------------------- MODULE NbContainerProofs -------------------------
(***************************************************************************)
(* The growing containers keep what is in them, and a memory pool hands    *)
(* out memory that does not overlap and is all freed, for every size they  *)
(* start with, every size asked for and every order of operations.         *)
(***************************************************************************)
EXTENDS NbArray, NbStack, NbStrbuf, NbMempool, SequenceTheorems, TLAPS

-----------------------------------------------------------------------------
(* array.c                                                                 *)

\* What no client has used since the memory was cleared is still zero: that is
\* what makes the items array_ensure_index and array_push add read as zero.
ClearBehind == \A i \in 1..capacity : i > num_items /\ i > stale => cells[i] = 0

ArrayInv == ArrayTypeOK /\ ArrayHoldsItems /\ ClearBehind

\* array_new clears the memory and has no items.
LEMMA ArrayInitInv == ArrayInit => ArrayInv
<1> SUFFICES ASSUME ArrayInit PROVE ArrayInv
  OBVIOUS
<1>1. cells = [i \in 1..capacity |-> 0] /\ capacity \in Nat /\ num_items = 0 /\ stale = 0
  BY ArrayAssumption DEF ArrayInit, Resized
<1>2. known \in [1..num_items -> ItemValues \cup {Unknown}]
  BY <1>1 DEF ArrayInit
<1>3. cells \in [1..capacity -> ItemValues \cup {Junk}]
  BY <1>1, ArrayAssumption
<1> QED BY <1>1, <1>2, <1>3 DEF ArrayInv, ArrayTypeOK, ArrayHoldsItems, ClearBehind

\* Growing keeps the old cells and clears the new ones.
LEMMA GrowEffect ==
  ASSUME ArrayInv, NEW count \in Nat, Grow(count)
  PROVE  /\ capacity' \in Nat /\ capacity' >= capacity /\ capacity' >= count
         /\ cells' \in [1..capacity' -> ItemValues \cup {Junk}]
         /\ \A i \in 1..capacity' : cells'[i] = IF i <= capacity THEN cells[i] ELSE 0
<1>1. capacity \in Nat /\ cells \in [1..capacity -> ItemValues \cup {Junk}] /\ 0 \in ItemValues
  BY ArrayAssumption DEF ArrayInv, ArrayTypeOK
<1>2. CASE count <= capacity /\ UNCHANGED <<capacity, cells>>
  BY <1>1, <1>2
<1>3. CASE /\ count > capacity
           /\ capacity' = Larger(count, 2 * capacity)
           /\ cells' = Resized(cells, capacity, Larger(count, 2 * capacity))
  <2>1. capacity' \in Nat /\ capacity' >= capacity /\ capacity' >= count
    BY <1>1, <1>3 DEF Larger
  <2>2. cells' = [i \in 1..capacity' |-> IF i <= capacity THEN cells[i] ELSE 0]
    BY <1>3 DEF Resized
  <2> QED BY <1>1, <2>1, <2>2
<1> QED BY <1>2, <1>3 DEF Grow

\* Growing and then having more items, as array_push and array_ensure_index do.
LEMMA GrowInv ==
  ASSUME ArrayInv, NEW count \in Nat, NEW n \in Nat, Grow(n), HasItems(count),
         count >= num_items, n >= count \/ (count <= capacity /\ n <= count)
  PROVE  ArrayInv'
<1>1. /\ num_items \in Nat /\ capacity \in Nat /\ stale \in Nat /\ num_items <= capacity
      /\ known \in [1..num_items -> ItemValues \cup {Unknown}] /\ 0 \in ItemValues
  BY ArrayAssumption DEF ArrayInv, ArrayTypeOK, ArrayHoldsItems
<1>2. /\ capacity' \in Nat /\ capacity' >= capacity /\ capacity' >= n
      /\ cells' \in [1..capacity' -> ItemValues \cup {Junk}]
      /\ \A i \in 1..capacity' : cells'[i] = IF i <= capacity THEN cells[i] ELSE 0
  BY GrowEffect
<1>3. /\ num_items' = count /\ stale' = stale
      /\ known' = [i \in 1..count |-> IF i <= num_items THEN known[i]
                                      ELSE IF i <= stale THEN Unknown ELSE 0]
  BY DEF HasItems
<1>4. ArrayTypeOK'
  BY <1>1, <1>2, <1>3 DEF ArrayTypeOK
<1>5. num_items' <= capacity'
  BY <1>1, <1>2, <1>3
<1>6. ASSUME NEW i \in 1..num_items', known'[i] # Unknown PROVE cells'[i] = known'[i]
  <2>1. i \in 1..count /\ i \in 1..capacity'
    BY <1>1, <1>2, <1>3, <1>5
  <2>2. CASE i <= num_items
    BY <1>1, <1>2, <1>3, <1>6, <2>1, <2>2 DEF ArrayInv, ArrayHoldsItems
  <2>3. CASE i > num_items
    BY <1>1, <1>2, <1>3, <1>6, <2>1, <2>3 DEF ArrayInv, ClearBehind
  <2> QED BY <1>1, <2>1, <2>2, <2>3
<1>7. ClearBehind'
  BY <1>1, <1>2, <1>3 DEF ArrayInv, ClearBehind
<1> QED BY <1>4, <1>5, <1>6, <1>7 DEF ArrayInv, ArrayHoldsItems

\* The invariant is inductive.
LEMMA ArrayStepInv == ArrayInv /\ [ArrayNext]_arrayVars => ArrayInv'
<1> SUFFICES ASSUME ArrayInv, [ArrayNext]_arrayVars PROVE ArrayInv'
  OBVIOUS
<1>0. num_items \in Nat /\ capacity \in Nat /\ stale \in Nat /\ num_items <= capacity
      /\ MaxItems \in Nat
  BY ArrayAssumption DEF ArrayInv, ArrayTypeOK, ArrayHoldsItems
<1>1. ASSUME NEW n \in 0..MaxItems, ArrayPush(n) PROVE ArrayInv'
  <2>1. num_items + n \in Nat /\ num_items + n >= num_items
    BY <1>0
  <2>2. Grow(num_items + n) /\ HasItems(num_items + n)
    BY <1>1 DEF ArrayPush
  <2> QED BY <2>1, <2>2, GrowInv
<1>2. ASSUME NEW n \in 0..MaxItems, ArrayEnsureIndex(n) PROVE ArrayInv'
  <2> DEFINE count == Larger(num_items, n + 1)
  <2>1. /\ count \in Nat /\ n + 1 \in Nat /\ count >= num_items
        /\ n + 1 >= count \/ (count <= capacity /\ n + 1 <= count)
    BY <1>0 DEF Larger
  <2>2. Grow(n + 1) /\ HasItems(count)
    BY <1>2 DEF ArrayEnsureIndex
  <2> HIDE DEF count
  <2> QED BY <2>1, <2>2, GrowInv
<1>3. CASE ArrayReset
  <2>1. stale' \in Nat /\ stale' >= stale /\ stale' >= num_items
    BY <1>0, <1>3 DEF ArrayReset, Larger
  <2>2. num_items' = 0 /\ known' \in [1..num_items' -> ItemValues \cup {Unknown}]
    BY <1>3 DEF ArrayReset
  <2> QED BY <1>0, <1>3, <2>1, <2>2
          DEF ArrayReset, ArrayInv, ArrayTypeOK, ArrayHoldsItems, ClearBehind
<1>4. ASSUME NEW i \in 1..MaxItems, NEW v \in ItemValues, ArraySet(i, v) PROVE ArrayInv'
  <2>1. /\ i \in 1..num_items /\ i \in 1..capacity
        /\ cells' = [cells EXCEPT ![i] = v] /\ known' = [known EXCEPT ![i] = v]
        /\ UNCHANGED <<num_items, capacity, stale>>
    BY <1>0, <1>4 DEF ArraySet
  <2> QED BY <1>0, <2>1 DEF ArrayInv, ArrayTypeOK, ArrayHoldsItems, ClearBehind
<1>5. CASE UNCHANGED arrayVars
  BY <1>5 DEF arrayVars, ArrayInv, ArrayTypeOK, ArrayHoldsItems, ClearBehind
<1> QED BY <1>1, <1>2, <1>3, <1>4, <1>5 DEF ArrayNext

\* Items keep their values through growth, and the ones nobody set read as zero,
\* as netbufs.c expects of attrs, groups and pid_to_lid.
THEOREM ArrayCorrect == ArraySpec => []ArrayHoldsItems
<1>1. ArrayInv => ArrayHoldsItems
  BY DEF ArrayInv
<1> QED BY ArrayInitInv, ArrayStepInv, <1>1, PTL DEF ArraySpec

-----------------------------------------------------------------------------
(* stack.c                                                                 *)

\* A new stack is empty.
LEMMA StackInitInv == StackInit => StackTypeOK /\ Abstract!Init
BY StackAssumption DEF StackInit, StackTypeOK, Abstract!Init

\* A push keeps the assert, and is a push of the sequence.
LEMMA StackPushes ==
  ASSUME StackTypeOK, NEW f \in Frames, StackPush(f)
  PROVE  StackTypeOK' /\ Abstract!Push(f)
<1>1. /\ depth \in Nat /\ stack_size \in Nat \ {0} /\ depth <= stack_size
      /\ slots \in [1..stack_size -> Frames \cup {NoFrame}] /\ depth' = depth + 1
  BY DEF StackTypeOK, StackPush
<1>2. CASE /\ depth < stack_size
           /\ slots' = [slots EXCEPT ![depth + 1] = f]
           /\ UNCHANGED stack_size
  <2>1. StackTypeOK'
    BY <1>1, <1>2 DEF StackTypeOK
  <2>2. \A i \in 1..depth + 1 : slots'[i] = IF i <= depth THEN slots[i] ELSE f
    BY <1>1, <1>2
  <2>3. [i \in 1..depth' |-> slots'[i]]
          = [i \in 1..depth + 1 |-> IF i <= depth THEN [j \in 1..depth |-> slots[j]][i] ELSE f]
    BY <1>1, <2>2
  <2> QED BY <1>1, <2>1, <2>3 DEF Abstract!Push
<1>3. CASE /\ depth >= stack_size
           /\ stack_size' = 2 * stack_size
           /\ slots' = [Reallocated(slots, stack_size, 2 * stack_size) EXCEPT ![depth + 1] = f]
  <2> DEFINE grown == Reallocated(slots, stack_size, 2 * stack_size)
  <2>1. grown \in [1..stack_size' -> Frames \cup {NoFrame}]
        /\ \A i \in 1..depth : grown[i] = slots[i]
    BY <1>1, <1>3 DEF Reallocated
  <2>2. slots' = [grown EXCEPT ![depth + 1] = f]
    BY <1>3
  <2> HIDE DEF grown
  <2>3. StackTypeOK'
    <3>1. stack_size' \in Nat \ {0} /\ depth' \in Nat /\ depth' <= stack_size'
      BY <1>1, <1>3
    <3>2. slots' \in [1..stack_size' -> Frames \cup {NoFrame}]
      BY <2>1, <2>2
    <3> QED BY <3>1, <3>2 DEF StackTypeOK
  <2>4. depth + 1 \in 1..stack_size' /\ \A i \in 1..depth : i \in 1..stack_size'
    BY <1>1, <1>3
  <2>5. \A i \in 1..depth + 1 : slots'[i] = IF i <= depth THEN slots[i] ELSE f
    BY <1>1, <2>1, <2>2, <2>4
  <2>6. [i \in 1..depth' |-> slots'[i]]
          = [i \in 1..depth + 1 |-> IF i <= depth THEN [j \in 1..depth |-> slots[j]][i] ELSE f]
    BY <1>1, <2>5
  <2> QED BY <1>1, <2>3, <2>6 DEF Abstract!Push
<1> QED BY <1>2, <1>3 DEF StackPush

\* A pop is a pop.
LEMMA StackPops ==
  ASSUME StackTypeOK, StackPop
  PROVE  StackTypeOK' /\ Abstract!Pop
<1>1. depth \in Nat \ {0} /\ depth' = depth - 1 /\ UNCHANGED <<stack_size, slots>>
  BY DEF StackTypeOK, StackPop
<1>2. StackTypeOK'
  BY <1>1 DEF StackTypeOK
<1>3. [i \in 1..depth' |-> slots'[i]] = [i \in 1..depth - 1 |-> [j \in 1..depth |-> slots[j]][i]]
  BY <1>1
<1> QED BY <1>1, <1>2, <1>3 DEF Abstract!Pop

\* Every step of the stack is one of the sequence.
LEMMA StackStep ==
  StackTypeOK /\ [StackNext]_stackVars =>
    StackTypeOK' /\ [Abstract!Next]_<<depth, [i \in 1..depth |-> slots[i]]>>
<1> SUFFICES ASSUME StackTypeOK, [StackNext]_stackVars
             PROVE  StackTypeOK' /\ [Abstract!Next]_<<depth, [i \in 1..depth |-> slots[i]]>>
  OBVIOUS
<1>1. CASE StackPop
  BY <1>1, StackPops DEF Abstract!Next
<1>2. ASSUME NEW f \in Frames, StackPush(f)
      PROVE  StackTypeOK' /\ [Abstract!Next]_<<depth, [i \in 1..depth |-> slots[i]]>>
  BY <1>2, StackPushes DEF Abstract!Next
<1>3. CASE UNCHANGED stackVars
  BY <1>3 DEF stackVars, StackTypeOK
<1> QED BY <1>1, <1>2, <1>3 DEF StackNext

\* The asserts of stack.c hold, for every positive initial size.
THEOREM StackTypeCorrect == StackSpec => []StackTypeOK
BY StackInitInv, StackStep, PTL DEF StackSpec

\* stack.c implements a last-in first-out sequence, through any growths.
THEOREM StackIsLifo == StackSpec => IsLifo
<1>1. StackInit => StackTypeOK /\ Abstract!Init
  BY StackInitInv
<1> QED BY <1>1, StackStep, PTL DEF StackSpec, IsLifo, Abstract!Spec

-----------------------------------------------------------------------------
(* strbuf.c                                                                *)

StrbufInv == StrbufTypeOK /\ StrbufFits /\ StringIsWhole

\* A new string is empty.
LEMMA StrbufInitInv == StrbufInit => StrbufInv
BY StrbufAssumption DEF StrbufInit, StrbufInv, StrbufTypeOK, StrbufFits, StringIsWhole

\* Growing and writing gives memory of the new size and nothing but characters
\* in it.
LEMMA WrittenType ==
  ASSUME StrbufInv, NEW new \in Nat, new >= str_size, NEW offset \in Nat, NEW n \in Nat,
         NEW ends \in BOOLEAN
  PROVE  Written(new, offset, n, ends) \in [1..new -> {"c", "nul", "junk"}]
BY DEF Written, StrbufInv, StrbufTypeOK

\* strbuf_putc: after >= there is room for the character and for the zero.
LEMMA PutcInv == ASSUME StrbufInv, Putc PROVE StrbufInv'
<1> DEFINE new == SizeForAppend(1)
<1>1. str_size \in Nat \ {0} /\ len \in Nat /\ len < str_size /\ whole \in BOOLEAN
  BY DEF StrbufInv, StrbufTypeOK, StrbufFits
<1>2. new \in Nat \ {0} /\ new >= str_size /\ len + 1 < new
  BY <1>1 DEF SizeForAppend, Most
<1>3. /\ str_size' = new /\ str' = Written(new, len, 1, FALSE)
      /\ len' = len + 1 /\ reach' = len + 1 /\ whole' = whole
  BY DEF Putc
<1> HIDE DEF new
<1>4. str' \in [1..new -> {"c", "nul", "junk"}]
  BY <1>1, <1>2, <1>3, WrittenType
<1>5. StringIsWhole'
  BY <1>1, <1>2, <1>3 DEF StringIsWhole, StrbufInv, Written
<1>6. StrbufTypeOK'
  <2>1. whole' \in BOOLEAN
    BY <1>1, <1>3, Zenon
  <2>2. str_size' \in Nat \ {0} /\ len' \in Nat /\ reach' \in Nat
    BY <1>1, <1>2, <1>3
  <2> QED BY <1>3, <1>4, <2>1, <2>2 DEF StrbufTypeOK
<1>7. StrbufFits'
  BY <1>1, <1>2, <1>3 DEF StrbufFits
<1> QED BY <1>5, <1>6, <1>7 DEF StrbufInv

\* strbuf_vprintf_at makes room for its text and the zero behind it.
LEMMA PrintfInv ==
  ASSUME StrbufInv, NEW offset \in Nat, NEW n \in Nat, PrintfAt(offset, n)
  PROVE  StrbufInv'
<1> DEFINE new == SizeFor(offset + n + 1)
<1>1. str_size \in Nat \ {0} /\ len \in Nat /\ len < str_size /\ whole \in BOOLEAN
      /\ offset <= len
  BY DEF StrbufInv, StrbufTypeOK, StrbufFits, PrintfAt
<1>2. new \in Nat \ {0} /\ new >= str_size /\ offset + n + 1 <= new
  BY <1>1 DEF SizeFor, Most
<1>3. /\ str_size' = new /\ str' = Written(new, offset, n, TRUE)
      /\ len' = Most(len, offset + n) /\ reach' = offset + n + 1
      /\ whole' = (whole /\ offset + n >= len)
  BY DEF PrintfAt
<1> HIDE DEF new
<1>4. str' \in [1..new -> {"c", "nul", "junk"}]
  BY <1>1, <1>2, <1>3, WrittenType
<1>5. ASSUME whole', NEW i \in 1..len' PROVE str'[i] = "c"
  <2>a. whole /\ offset + n >= len
    BY <1>3, <1>5, Zenon
  <2>1. whole /\ len' = offset + n
    BY <1>1, <1>3, <2>a DEF Most
  <2>2. i \in 1..new /\ i <= offset + n
    BY <1>1, <1>2, <2>1
  <2>3. i <= offset => i <= str_size /\ str[i] = "c"
    BY <1>1, <2>1, <2>2 DEF StrbufInv, StringIsWhole
  <2> QED BY <1>1, <1>3, <2>2, <2>3 DEF Written
<1>6. whole' \in BOOLEAN /\ len' \in Nat /\ reach' \in Nat /\ reach' <= new /\ len' < new
  BY <1>1, <1>2, <1>3 DEF Most
<1> QED BY <1>2, <1>3, <1>4, <1>5, <1>6 DEF StrbufInv, StrbufTypeOK, StrbufFits, StringIsWhole

\* strbuf_fill makes room like a print and leaves the length alone.
LEMMA FillInv ==
  ASSUME StrbufInv, NEW offset \in Nat, NEW n \in Nat, Fill(offset, n)
  PROVE  StrbufInv'
<1> DEFINE new == SizeFor(offset + n + 1)
<1>1. str_size \in Nat \ {0} /\ len \in Nat /\ len < str_size /\ whole \in BOOLEAN
  BY DEF StrbufInv, StrbufTypeOK, StrbufFits
<1>2. new \in Nat \ {0} /\ new >= str_size /\ offset + n + 1 <= new
  BY <1>1 DEF SizeFor, Most
<1>3. /\ str_size' = new /\ str' = Written(new, offset, n, FALSE)
      /\ len' = len /\ reach' = offset + n /\ whole' = whole
  BY DEF Fill
<1> HIDE DEF new
<1>4. str' \in [1..new -> {"c", "nul", "junk"}]
  BY <1>1, <1>2, <1>3, WrittenType
<1>5. StringIsWhole'
  BY <1>1, <1>2, <1>3 DEF StringIsWhole, StrbufInv, Written
<1>6. StrbufTypeOK'
  <2>1. whole' \in BOOLEAN
    BY <1>1, <1>3, Zenon
  <2>2. str_size' \in Nat \ {0} /\ len' \in Nat /\ reach' \in Nat
    BY <1>1, <1>2, <1>3
  <2> QED BY <1>3, <1>4, <2>1, <2>2 DEF StrbufTypeOK
<1>7. StrbufFits'
  BY <1>1, <1>2, <1>3 DEF StrbufFits
<1> QED BY <1>5, <1>6, <1>7 DEF StrbufInv

\* The invariant is inductive.
LEMMA StrbufStepInv == StrbufInv /\ [StrbufNext]_strbufVars => StrbufInv'
<1> SUFFICES ASSUME StrbufInv, [StrbufNext]_strbufVars PROVE StrbufInv'
  OBVIOUS
<1>1. CASE Putc
  BY <1>1, PutcInv
<1>2. CASE GetString
  <2>1. len + 1 \in 1..str_size /\ len \in Nat /\ len + 1 <= str_size
    BY DEF StrbufInv, StrbufTypeOK, StrbufFits
  <2> QED BY <1>2, <2>1 DEF GetString, StrbufInv, StrbufTypeOK, StrbufFits, StringIsWhole
<1>3. ASSUME NEW offset \in 0..MaxLen, NEW n \in 0..MaxPrint, PrintfAt(offset, n)
      PROVE  StrbufInv'
  BY <1>3, PrintfInv, StrbufAssumption
<1>4. ASSUME NEW offset \in 0..MaxLen, NEW n \in 0..MaxPrint, Fill(offset, n)
      PROVE  StrbufInv'
  BY <1>4, FillInv, StrbufAssumption
<1>5. ASSUME NEW n \in 0..MaxLen, Trim(n) PROVE StrbufInv'
  BY <1>5, StrbufAssumption
     DEF Trim, StrbufInv, StrbufTypeOK, StrbufFits, StringIsWhole
<1>6. CASE UNCHANGED strbufVars
  BY <1>6 DEF strbufVars, StrbufInv, StrbufTypeOK, StrbufFits, StringIsWhole
<1> QED BY <1>1, <1>2, <1>3, <1>4, <1>5, <1>6 DEF StrbufNext

\* No call writes outside the memory, and strbuf_get_string always finds room for
\* the terminating zero, for every initial size above 0.
THEOREM StrbufSafe == StrbufSpec => []StrbufFits
<1>1. StrbufInv => StrbufFits
  BY DEF StrbufInv
<1> QED BY StrbufInitInv, StrbufStepInv, <1>1, PTL DEF StrbufSpec

\* A string nobody printed over is read as it was printed.
THEOREM StrbufWhole == StrbufSpec => []StringIsWhole
<1>1. StrbufInv => StringIsWhole
  BY DEF StrbufInv
<1> QED BY StrbufInitInv, StrbufStepInv, <1>1, PTL DEF StrbufSpec

-----------------------------------------------------------------------------
(* mempool.c                                                               *)

Blocks == [size : Nat, prev : Nat]
Objects == [block : Nat, at : Nat, size : Nat]

PoolTypes ==
  /\ blocks \in Seq(Blocks) /\ objects \in Seq(Objects)
  /\ \A i \in 1..Len(objects) : objects[i].block \in 1..Len(blocks)
  /\ pool # "copy" => last \in [Chains -> 0..Len(blocks)] /\ last_free \in [Chains -> Nat]

\* While objects are handed out, the last small block holds none in its free
\* cells, the last_free ones before the trailer.
FreeBehind ==
  pool # "copy" /\ last["small"] # 0 =>
    /\ last_free["small"] <= blocks[last["small"]].size
    /\ \A i \in 1..Len(objects) : objects[i].block = last["small"] =>
         objects[i].at + objects[i].size <= blocks[last["small"]].size - last_free["small"]

PoolInv == PoolTypes /\ ObjectsInBlocks /\ ObjectsApart /\ FreeBehind

\* A pool begins with neither blocks nor objects.
LEMMA PoolInitInv == MempoolInit => PoolInv
<1> SUFFICES ASSUME MempoolInit PROVE PoolInv
  OBVIOUS
<1>1. blocks \in Seq(Blocks) /\ objects \in Seq(Objects) /\ Len(objects) = 0 /\ Len(blocks) = 0
  BY EmptySeq DEF MempoolInit
<1>2. last \in [Chains -> 0..Len(blocks)] /\ last_free \in [Chains -> Nat]
  BY <1>1 DEF MempoolInit
<1>3. \A i \in 1..Len(objects) : FALSE
  BY <1>1
<1>4. PoolTypes
  BY <1>1, <1>2, <1>3 DEF PoolTypes
<1>5. ObjectsInBlocks /\ ObjectsApart
  BY <1>3 DEF ObjectsInBlocks, ObjectsApart
<1>6. FreeBehind
  BY DEF FreeBehind, MempoolInit, Chains
<1> QED BY <1>4, <1>5, <1>6 DEF PoolInv

\* One object more, behind all others of its block and inside it.
LEMMA AddObject ==
  ASSUME PoolInv, NEW o \in Objects, objects' = Append(objects, o),
         blocks' \in Seq(Blocks), Len(blocks') >= Len(blocks), o.block \in 1..Len(blocks'),
         \A b \in 1..Len(blocks) : blocks'[b] = blocks[b],
         o.at + o.size <= blocks'[o.block].size,
         \A i \in 1..Len(objects) : objects[i].block = o.block =>
           objects[i].at + objects[i].size <= o.at
  PROVE  /\ objects' \in Seq(Objects)
         /\ \A i \in 1..Len(objects') : objects'[i].block \in 1..Len(blocks')
         /\ ObjectsInBlocks' /\ ObjectsApart'
         /\ Len(objects') = Len(objects) + 1 /\ objects'[Len(objects) + 1] = o
         /\ \A i \in 1..Len(objects) : objects'[i] = objects[i]
<1>1. /\ objects \in Seq(Objects) /\ blocks \in Seq(Blocks)
      /\ \A i \in 1..Len(objects) : objects[i].block \in 1..Len(blocks)
  BY DEF PoolInv, PoolTypes
<1>2. Len(objects) \in Nat /\ Len(blocks) \in Nat /\ Len(blocks') \in Nat
  BY <1>1, LenProperties
<1>3. /\ objects' \in Seq(Objects) /\ Len(objects') = Len(objects) + 1
      /\ \A i \in 1..Len(objects) : objects'[i] = objects[i]
      /\ objects'[Len(objects) + 1] = o
  BY <1>1, AppendProperties
<1>4. \A i \in 1..Len(objects') : i \in 1..Len(objects) \/ i = Len(objects) + 1
  BY <1>2, <1>3
<1>5. \A i \in 1..Len(objects') : objects'[i].block \in 1..Len(blocks')
  BY <1>1, <1>2, <1>3, <1>4
<1>6. ASSUME NEW i \in 1..Len(objects')
      PROVE  objects'[i].at + objects'[i].size <= blocks'[objects'[i].block].size
  <2>1. CASE i \in 1..Len(objects)
    BY <1>1, <1>3, <2>1 DEF PoolInv, ObjectsInBlocks
  <2> QED BY <1>3, <1>4, <2>1
<1>7. ASSUME NEW i \in 1..Len(objects'), NEW j \in 1..Len(objects'), i < j,
             objects'[i].block = objects'[j].block
      PROVE  objects'[i].at + objects'[i].size <= objects'[j].at
  <2>1. i \in 1..Len(objects) /\ objects'[i] = objects[i]
    BY <1>2, <1>3, <1>4, <1>7
  <2>2. CASE j \in 1..Len(objects)
    BY <1>3, <1>7, <2>1, <2>2 DEF PoolInv, ObjectsApart
  <2>3. CASE j = Len(objects) + 1
    BY <1>3, <1>7, <2>1, <2>3
  <2> QED BY <1>4, <2>2, <2>3
<1> QED BY <1>3, <1>5, <1>6, <1>7 DEF ObjectsInBlocks, ObjectsApart

\* One block more leaves the others where they are.
LEMMA AddBlock ==
  ASSUME PoolInv, pool # "copy", NEW c \in Chains, NEW size \in Nat, NewBlock(c, size)
  PROVE  /\ blocks' \in Seq(Blocks) /\ Len(blocks') = Len(blocks) + 1
         /\ blocks'[Len(blocks) + 1].size = size
         /\ \A b \in 1..Len(blocks) : blocks'[b] = blocks[b]
         /\ last' = [last EXCEPT ![c] = Len(blocks) + 1]
<1>1. blocks \in Seq(Blocks) /\ last[c] \in Nat
  <2>1. blocks \in Seq(Blocks) /\ last \in [Chains -> 0..Len(blocks)]
    BY DEF PoolInv, PoolTypes
  <2> QED BY <2>1, LenProperties
<1>2. [size |-> size, prev |-> last[c]] \in Blocks
  BY <1>1 DEF Blocks
<1>3. blocks' = Append(blocks, [size |-> size, prev |-> last[c]])
  BY DEF NewBlock
<1> QED BY <1>1, <1>2, <1>3, AppendProperties DEF NewBlock

\* mempool_malloc
LEMMA MallocInv ==
  ASSUME PoolInv, pool # "copy", pool' # "copy", NEW size \in Nat, Malloc(size)
  PROVE  PoolInv'
<1>1. /\ blocks \in Seq(Blocks) /\ objects \in Seq(Objects)
      /\ Len(blocks) \in Nat /\ Len(objects) \in Nat
      /\ last \in [Chains -> 0..Len(blocks)] /\ last_free \in [Chains -> Nat]
      /\ {"small", "big"} \subseteq Chains
      /\ \A i \in 1..Len(objects) : objects[i].block \in 1..Len(blocks)
  BY LenProperties DEF PoolInv, PoolTypes, Chains
<1>2. BlockSize \in Nat /\ (IsSmall(size) => size <= BlockSize)
  BY MempoolAssumption DEF IsSmall
<1>3. CASE /\ last["small"] # 0 /\ last_free["small"] >= size
           /\ Alloc("small", last["small"], last_free["small"], size, blocks[last["small"]].size)
           /\ UNCHANGED <<blocks, last, total>>
  <2> DEFINE b == last["small"]
             free == last_free["small"]
             o == [block |-> b, at |-> blocks[b].size - free, size |-> size]
  <2>1. b \in 1..Len(blocks) /\ free \in Nat /\ free >= size
    BY <1>1, <1>3
  <2>2. blocks[b].size \in Nat /\ free <= blocks[b].size
    <3>1. blocks[b] \in Blocks
      BY <1>1, <2>1, ElementOfSeq
    <3>2. free <= blocks[b].size
      BY <1>3 DEF PoolInv, FreeBehind
    <3> QED BY <3>1, <3>2 DEF Blocks
  <2>3. o \in Objects
    BY <1>1, <2>1, <2>2 DEF Objects
  <2>4. objects' = Append(objects, o) /\ last_free' = [last_free EXCEPT !["small"] = free - size]
        /\ blocks' = blocks /\ last' = last
    BY <1>3 DEF Alloc
  <2>5. /\ o.block = b /\ o.at = blocks[b].size - free /\ o.size = size
        /\ o.at + o.size <= blocks[b].size
    BY <2>1, <2>2
  <2>6. \A i \in 1..Len(objects) : objects[i].block = b =>
          objects[i].at + objects[i].size <= o.at
    BY <1>3, <2>5 DEF PoolInv, FreeBehind
  <2> HIDE DEF o
  <2>7. /\ objects' \in Seq(Objects)
        /\ \A i \in 1..Len(objects') : objects'[i].block \in 1..Len(blocks')
        /\ ObjectsInBlocks' /\ ObjectsApart'
        /\ Len(objects') = Len(objects) + 1 /\ objects'[Len(objects) + 1] = o
        /\ \A i \in 1..Len(objects) : objects'[i] = objects[i]
    BY <1>1, <2>1, <2>3, <2>4, <2>5, <2>6, AddObject
  <2>8. last'["small"] = b /\ last_free'["small"] = free - size /\ blocks'[b] = blocks[b]
    BY <1>1, <2>4
  <2>9. last_free' \in [Chains -> Nat]
    BY <1>1, <2>1, <2>4
  <2>10. ASSUME NEW i \in 1..Len(objects'), objects'[i].block = b
         PROVE  objects'[i].at + objects'[i].size <= blocks[b].size - (free - size)
    <3>1. CASE i \in 1..Len(objects)
      <4>1. objects[i] \in Objects
        BY <1>1, <3>1, ElementOfSeq
      <4>2. objects'[i] = objects[i] /\ objects[i].at + objects[i].size <= o.at
        BY <2>6, <2>7, <2>10, <3>1
      <4>3. objects[i].at \in Nat /\ objects[i].size \in Nat
        BY <4>1 DEF Objects
      <4>4. o.at <= blocks[b].size - (free - size) /\ o.at \in Nat
        BY <2>1, <2>2, <2>5
      <4>5. blocks[b].size - (free - size) \in Int
        BY <2>1, <2>2
      <4>6. objects'[i].at + objects'[i].size <= o.at /\ objects'[i].at + objects'[i].size \in Nat
        BY <4>2, <4>3
      <4> HIDE DEF b, free
      <4> QED BY <4>4, <4>5, <4>6
    <3>2. CASE i = Len(objects) + 1
      BY <2>1, <2>2, <2>5, <2>7, <3>2
    <3> QED BY <1>1, <2>7, <3>1, <3>2
  <2>11. free - size <= blocks[b].size
    BY <2>1, <2>2
  <2>12. FreeBehind'
    BY <2>8, <2>10, <2>11 DEF FreeBehind
  <2>13. PoolTypes'
    BY <1>1, <2>4, <2>7, <2>9 DEF PoolTypes
  <2> QED BY <2>7, <2>12, <2>13 DEF PoolInv
<1>4. CASE /\ IsSmall(size) /\ NewBlock("small", BlockSize)
           /\ Alloc("small", Len(blocks) + 1, BlockSize, size, BlockSize)
  <2> DEFINE o == [block |-> Len(blocks) + 1, at |-> BlockSize - BlockSize, size |-> size]
  <2>1. /\ blocks' \in Seq(Blocks) /\ Len(blocks') = Len(blocks) + 1
        /\ blocks'[Len(blocks) + 1].size = BlockSize
        /\ \A b \in 1..Len(blocks) : blocks'[b] = blocks[b]
        /\ last' = [last EXCEPT !["small"] = Len(blocks) + 1]
    BY <1>1, <1>2, <1>4, AddBlock
  <2>2. o \in Objects /\ o.block = Len(blocks) + 1 /\ o.at = 0 /\ o.size = size
    BY <1>1, <1>2 DEF Objects
  <2>3. objects' = Append(objects, o)
        /\ last_free' = [last_free EXCEPT !["small"] = BlockSize - size]
    BY <1>4 DEF Alloc
  <2>4. \A i \in 1..Len(objects) : objects[i].block # Len(blocks) + 1
    BY <1>1
  <2> HIDE DEF o
  <2>5. o.block \in 1..Len(blocks') /\ Len(blocks') >= Len(blocks)
        /\ o.at + o.size <= blocks'[o.block].size
    BY <1>1, <1>2, <1>4, <2>1, <2>2
  <2>6. /\ objects' \in Seq(Objects)
        /\ \A i \in 1..Len(objects') : objects'[i].block \in 1..Len(blocks')
        /\ ObjectsInBlocks' /\ ObjectsApart'
        /\ Len(objects') = Len(objects) + 1 /\ objects'[Len(objects) + 1] = o
        /\ \A i \in 1..Len(objects) : objects'[i] = objects[i]
    BY <2>1, <2>2, <2>3, <2>4, <2>5, AddObject
  <2>7. last' \in [Chains -> 0..Len(blocks')] /\ last'["small"] = Len(blocks) + 1
    BY <1>1, <2>1
  <2>8. last_free' \in [Chains -> Nat] /\ last_free'["small"] = BlockSize - size
    BY <1>1, <1>2, <1>4, <2>3
  <2>9. ASSUME NEW i \in 1..Len(objects'), objects'[i].block = Len(blocks) + 1
        PROVE  objects'[i].at + objects'[i].size <= BlockSize - (BlockSize - size)
    <3>1. i = Len(objects) + 1
      <4>1. i \in 1..Len(objects) \/ i = Len(objects) + 1
        BY <1>1, <2>6
      <4> QED BY <2>4, <2>6, <2>9, <4>1
    <3> QED BY <1>2, <2>2, <2>6, <3>1
  <2>10. BlockSize - size <= BlockSize
    BY <1>2
  <2>11. FreeBehind'
    BY <2>1, <2>7, <2>8, <2>9, <2>10 DEF FreeBehind
  <2>12. PoolTypes'
    BY <2>1, <2>6, <2>7, <2>8 DEF PoolTypes
  <2> QED BY <2>6, <2>11, <2>12 DEF PoolInv
<1>5. CASE NewBlock("big", size) /\ Alloc("big", Len(blocks) + 1, size, size, size)
  <2> DEFINE o == [block |-> Len(blocks) + 1, at |-> size - size, size |-> size]
  <2>1. /\ blocks' \in Seq(Blocks) /\ Len(blocks') = Len(blocks) + 1
        /\ blocks'[Len(blocks) + 1].size = size
        /\ \A b \in 1..Len(blocks) : blocks'[b] = blocks[b]
        /\ last' = [last EXCEPT !["big"] = Len(blocks) + 1]
    BY <1>1, <1>5, AddBlock
  <2>2. o \in Objects /\ o.block = Len(blocks) + 1 /\ o.at = 0 /\ o.size = size
    BY <1>1 DEF Objects
  <2>3. objects' = Append(objects, o) /\ last_free' = [last_free EXCEPT !["big"] = size - size]
    BY <1>5 DEF Alloc
  <2>4. \A i \in 1..Len(objects) : objects[i].block # Len(blocks) + 1
    BY <1>1
  <2> HIDE DEF o
  <2>5. o.block \in 1..Len(blocks') /\ Len(blocks') >= Len(blocks)
        /\ o.at + o.size <= blocks'[o.block].size
    BY <1>1, <2>1, <2>2
  <2>6. /\ objects' \in Seq(Objects)
        /\ \A i \in 1..Len(objects') : objects'[i].block \in 1..Len(blocks')
        /\ ObjectsInBlocks' /\ ObjectsApart'
        /\ Len(objects') = Len(objects) + 1 /\ objects'[Len(objects) + 1] = o
        /\ \A i \in 1..Len(objects) : objects'[i] = objects[i]
    BY <2>1, <2>2, <2>3, <2>4, <2>5, AddObject
  <2>7. last' \in [Chains -> 0..Len(blocks')] /\ last'["small"] = last["small"]
    BY <1>1, <2>1
  <2>8. last_free' \in [Chains -> Nat] /\ last_free'["small"] = last_free["small"]
    BY <1>1, <2>3
  <2>9. FreeBehind'
    <3> SUFFICES ASSUME last["small"] # 0
                 PROVE /\ last_free["small"] <= blocks'[last["small"]].size
                       /\ \A i \in 1..Len(objects') : objects'[i].block = last["small"] =>
                            objects'[i].at + objects'[i].size
                              <= blocks'[last["small"]].size - last_free["small"]
      BY <2>7, <2>8 DEF FreeBehind
    <3>1. last["small"] \in 1..Len(blocks) /\ blocks'[last["small"]] = blocks[last["small"]]
      BY <1>1, <2>1
    <3>2. \A i \in 1..Len(objects') : objects'[i].block = last["small"] =>
            i \in 1..Len(objects) /\ objects'[i] = objects[i]
      BY <1>1, <2>2, <2>6, <3>1
    <3> QED BY <3>1, <3>2 DEF PoolInv, FreeBehind
  <2>10. PoolTypes'
    BY <2>1, <2>6, <2>7, <2>8 DEF PoolTypes
  <2> QED BY <2>6, <2>9, <2>10 DEF PoolInv
<1> QED BY <1>3, <1>4, <1>5 DEF Malloc

\* The invariant is inductive.
LEMMA PoolStepInv == PoolInv /\ [MempoolNext]_poolVars => PoolInv'
<1> SUFFICES ASSUME PoolInv, [MempoolNext]_poolVars PROVE PoolInv'
  OBVIOUS
<1>1. CASE MempoolNew
  BY <1>1, MallocInv, MempoolAssumption DEF MempoolNew
<1>2. ASSUME NEW size \in 1..MaxObject, MempoolMalloc(size) PROVE PoolInv'
  BY <1>2, MallocInv, MempoolAssumption DEF MempoolMalloc
<1>3. CASE UNCHANGED <<blocks, objects>> /\ pool' = "copy"
  BY <1>3 DEF PoolInv, PoolTypes, ObjectsInBlocks, ObjectsApart, FreeBehind
<1>4. CASE MempoolDelete
  BY <1>3, <1>4 DEF MempoolDelete
<1>5. ASSUME NEW c \in Chains, FreeBlock(c) PROVE PoolInv'
  BY <1>3, <1>5 DEF FreeBlock
<1>6. CASE UNCHANGED poolVars
  BY <1>6 DEF poolVars, PoolInv, PoolTypes, ObjectsInBlocks, ObjectsApart, FreeBehind
<1> QED BY <1>1, <1>2, <1>4, <1>5, <1>6 DEF MempoolNext

\* No two objects of a pool share memory, whatever sizes are asked for.
THEOREM PoolObjectsApart == MempoolSpec => []ObjectsApart
<1>1. PoolInv => ObjectsApart
  BY DEF PoolInv
<1> QED BY PoolInitInv, PoolStepInv, <1>1, PTL DEF MempoolSpec

\* No object reaches into the trailer of its block, on which mempool_delete relies.
THEOREM PoolObjectsInBlocks == MempoolSpec => []ObjectsInBlocks
<1>1. PoolInv => ObjectsInBlocks
  BY DEF PoolInv
<1> QED BY PoolInitInv, PoolStepInv, <1>1, PTL DEF MempoolSpec

-----------------------------------------------------------------------------
(* mempool_delete finds every block.                                       *)

\* left[c] is what chain c still has: from its last block on, prev leads down through
\* all of it.
ChainOf(c, left) ==
  /\ last[c] \in left[c] \cup {0} /\ \A b \in left[c] : b <= last[c]
  /\ \A b \in left[c] : /\ blocks[b].prev \in left[c] \cup {0}
                        /\ \A d \in left[c] : d < b => d <= blocks[b].prev
Linked(left) ==
  /\ left["small"] \cap left["big"] = {}
  /\ left["small"] \cup left["big"] = (1..Len(blocks)) \ freed
  /\ ChainOf("small", left) /\ ChainOf("big", left)

\* sum[b] is what the chain's statistics were when block b was new.
TotalOf(sum, b) == IF b = 0 THEN NoTotal ELSE sum[b]
Summed(sum) ==
  /\ sum \in [1..Len(blocks) -> [size : Nat, num : Nat]]
  /\ \A b \in 1..Len(blocks) :
       sum[b] = [size |-> TotalOf(sum, blocks[b].prev).size + blocks[b].size + TrailerSize,
                 num |-> TotalOf(sum, blocks[b].prev).num + 1]
  /\ total = [c \in Chains |-> TotalOf(sum, last[c])]

LinkTypes ==
  /\ blocks \in Seq(Blocks) /\ last = [c \in Chains |-> last[c]] /\ freed \subseteq 1..Len(blocks)
  /\ \A b \in 1..Len(blocks) : blocks[b].prev \in 0..b - 1
  /\ \A c \in Chains : last[c] \in 0..Len(blocks)
  /\ pool # "copy" => freed = {}
LinkInv == LinkTypes /\ (\E left : Linked(left)) /\ (\E sum : Summed(sum))

\* There is nothing to begin with.
LEMMA LinkInitInv == MempoolInit => LinkInv
<1> SUFFICES ASSUME MempoolInit PROVE LinkInv
  OBVIOUS
<1>1. /\ blocks \in Seq(Blocks) /\ Len(blocks) = 0 /\ freed = {}
      /\ last = [c \in Chains |-> 0] /\ total = [c \in Chains |-> NoTotal]
      /\ "small" \in Chains /\ "big" \in Chains
  BY EmptySeq DEF MempoolInit, Chains
<1>2. LinkTypes
  BY <1>1 DEF LinkTypes
<1> DEFINE left == [c \in Chains |-> {}]
<1>3. left["small"] = {} /\ left["big"] = {}
  BY <1>1
<1> HIDE DEF left
<1>4. Linked(left)
  BY <1>1, <1>3 DEF Linked, ChainOf
<1> DEFINE sum == [b \in 1..0 |-> NoTotal]
<1>5. sum \in [1..0 -> [size : Nat, num : Nat]]
  OBVIOUS
<1>6. total = [c \in Chains |-> TotalOf(sum, last[c])]
  <2>1. \A c \in Chains : TotalOf(sum, last[c]) = NoTotal
    BY <1>1 DEF TotalOf
  <2> QED BY <1>1, <2>1
<1> HIDE DEF sum
<1>7. Summed(sum)
  BY <1>1, <1>5, <1>6 DEF Summed
<1> QED BY <1>2, <1>4, <1>7 DEF LinkInv

\* mempool_new_block: the new block leads to all that its chain has.
LEMMA NewBlockLinks ==
  ASSUME LinkInv, NEW c \in Chains, NEW size \in Nat, NewBlock(c, size),
         pool # "copy", freed' = freed
  PROVE  LinkInv'
<1> DEFINE n == Len(blocks)
           k == n + 1
<1>1. /\ blocks \in Seq(Blocks) /\ last = [x \in Chains |-> last[x]] /\ freed = {}
      /\ \A b \in 1..n : blocks[b].prev \in 0..b - 1
      /\ \A x \in Chains : last[x] \in 0..n
      /\ n \in Nat
  BY LenProperties DEF LinkInv, LinkTypes
<1> DEFINE new == [size |-> size, prev |-> last[c]]
<1>2. new \in Blocks /\ new.size = size /\ new.prev = last[c]
  BY <1>1 DEF Blocks
<1>3. blocks' = Append(blocks, new)
  BY DEF NewBlock
<1> HIDE DEF new
<1>4. /\ blocks' \in Seq(Blocks) /\ Len(blocks') = k /\ blocks'[k] = new
      /\ \A b \in 1..n : blocks'[b] = blocks[b]
  BY <1>1, <1>2, <1>3, AppendProperties
<1>5. last' = [last EXCEPT ![c] = k]
  BY DEF NewBlock
<1>6. last'[c] = k /\ (\A x \in Chains : x # c => last'[x] = last[x])
      /\ last' = [x \in Chains |-> last'[x]]
  BY <1>1, <1>5
<1>7. k \in Nat /\ k > n /\ 1..k = (1..n) \cup {k} /\ k \notin 1..n
  BY <1>1
<1> HIDE DEF n, k
<1>8. LinkTypes'
  <2>1. \A b \in 1..k : blocks'[b].prev \in 0..b - 1
    <3>1. blocks'[k].prev \in 0..k - 1
      BY <1>1, <1>2, <1>4 DEF k
    <3> QED BY <1>1, <1>4, <1>7, <3>1
  <2>2. \A x \in Chains : last'[x] \in 0..k
    BY <1>1, <1>6, <1>7
  <2> QED BY <1>1, <1>4, <1>6, <2>1, <2>2 DEF LinkTypes
<1>9. \E left : Linked(left)'
  <2>1. PICK left : Linked(left)
    BY DEF LinkInv
  <2>0. PICK add : add = [x \in Chains |-> IF x = c THEN left[x] \cup {k} ELSE left[x]]
    OBVIOUS
  <2>2. /\ add["small"] = IF "small" = c THEN left["small"] \cup {k} ELSE left["small"]
        /\ add["big"] = IF "big" = c THEN left["big"] \cup {k} ELSE left["big"]
        /\ c = "small" \/ c = "big"
    BY <2>0 DEF Chains
  <2>3. /\ left["small"] \cap left["big"] = {} /\ left["small"] \cup left["big"] = 1..n
    BY <1>1, <2>1 DEF Linked, n
  <2>4. add["small"] \cap add["big"] = {} /\ add["small"] \cup add["big"] = (1..k) \ freed'
    BY <1>1, <1>7, <2>2, <2>3
  <2>5. ASSUME NEW x \in {"small", "big"} PROVE ChainOf(x, add)'
    <3>1. x \in Chains /\ ChainOf(x, left) /\ left[x] \subseteq 1..n
      BY <2>1, <2>3 DEF Linked, Chains
    <3>2. \A b \in left[x] : blocks'[b] = blocks[b] /\ b < k /\ b # k /\ b \in Nat
      BY <1>1, <1>4, <1>7, <3>1
    <3>3. CASE x # c
      <4>1. add[x] = left[x] /\ last'[x] = last[x]
        BY <1>6, <2>0, <3>1, <3>3
      <4>2. last'[x] \in add[x] \cup {0} /\ \A b \in add[x] : b <= last'[x]
        BY <3>1, <4>1 DEF ChainOf
      <4>3. \A b \in add[x] : /\ blocks'[b].prev \in add[x] \cup {0}
                              /\ \A d \in add[x] : d < b => d <= blocks'[b].prev
        BY <3>1, <3>2, <4>1 DEF ChainOf
      <4> QED BY <4>2, <4>3 DEF ChainOf
    <3>4. CASE x = c
      <4>1. add[x] = left[x] \cup {k} /\ last'[x] = k
        BY <1>6, <2>0, <3>1, <3>4
      <4>2. blocks'[k].prev = last[x]
        BY <1>2, <1>4, <3>4
      <4>3. last'[x] \in add[x] \cup {0} /\ \A b \in add[x] : b <= last'[x]
        BY <1>7, <3>2, <4>1
      <4>4. ASSUME NEW b \in add[x]
            PROVE  /\ blocks'[b].prev \in add[x] \cup {0}
                   /\ \A d \in add[x] : d < b => d <= blocks'[b].prev
        <5>1. CASE b = k
          <6>1. blocks'[b].prev \in add[x] \cup {0}
            BY <3>1, <4>1, <4>2, <5>1 DEF ChainOf
          <6>2. \A d \in add[x] : d < b => d \in left[x]
            BY <1>7, <4>1, <5>1
          <6> QED BY <3>1, <4>2, <5>1, <6>1, <6>2 DEF ChainOf
        <5>2. CASE b # k
          <6>1. b \in left[x] /\ blocks'[b] = blocks[b] /\ b < k /\ b \in Nat
            BY <3>2, <4>1, <4>4, <5>2
          <6>2. \A d \in add[x] : d < b => d \in left[x]
            BY <1>7, <4>1, <6>1
          <6> QED BY <3>1, <4>1, <6>1, <6>2 DEF ChainOf
        <5> QED BY <5>1, <5>2
      <4> QED BY <4>3, <4>4 DEF ChainOf
    <3> QED BY <3>3, <3>4
  <2>6. Linked(add)'
    BY <1>4, <2>4, <2>5 DEF Linked
  <2> QED BY <2>6
<1>10. \E sum : Summed(sum)'
  <2>1. PICK sum : Summed(sum)
    BY DEF LinkInv
  <2> DEFINE t == [size |-> TotalOf(sum, last[c]).size + size + TrailerSize,
                   num |-> TotalOf(sum, last[c]).num + 1]
  <2>0. PICK add : add = [b \in 1..k |-> IF b = k THEN t ELSE sum[b]]
    OBVIOUS
  <2>2. /\ sum \in [1..n -> [size : Nat, num : Nat]]
        /\ total = [x \in Chains |-> TotalOf(sum, last[x])]
    BY <2>1 DEF Summed, n
  <2>3. TotalOf(sum, last[c]) \in [size : Nat, num : Nat]
    BY <1>1, <2>2 DEF TotalOf, NoTotal
  <2>4. t \in [size : Nat, num : Nat]
    BY <2>3, MempoolAssumption
  <2>5. total' = [total EXCEPT ![c] = t]
    BY <2>2 DEF NewBlock
  <2> HIDE DEF t
  <2>6. /\ add \in [1..k -> [size : Nat, num : Nat]] /\ add[k] = t
        /\ \A b \in 1..n : add[b] = sum[b]
    BY <1>7, <2>0, <2>2, <2>4
  <2>7. \A b \in 0..n : TotalOf(add, b) = TotalOf(sum, b)
    BY <2>6 DEF TotalOf
  <2>8. TotalOf(add, k) = t
    BY <1>1, <2>6 DEF TotalOf, k
  <2>9. total' = [x \in Chains |-> TotalOf(add, last'[x])]
    BY <1>1, <1>6, <2>2, <2>5, <2>7, <2>8
  <2>10. ASSUME NEW b \in 1..k
         PROVE  add[b] = [size |-> TotalOf(add, blocks'[b].prev).size + blocks'[b].size + TrailerSize,
                          num |-> TotalOf(add, blocks'[b].prev).num + 1]
    <3>1. CASE b = k
      <4>1. blocks'[b].prev = last[c] /\ blocks'[b].size = size
        BY <1>2, <1>4, <3>1
      <4>2. TotalOf(add, last[c]) = TotalOf(sum, last[c])
        BY <1>1, <2>7
      <4> QED BY <2>6, <3>1, <4>1, <4>2 DEF t
    <3>2. CASE b # k
      <4>1. b \in 1..n /\ blocks'[b] = blocks[b] /\ add[b] = sum[b]
        BY <1>4, <1>7, <2>6, <3>2
      <4>2. blocks[b].prev \in 0..n
        BY <1>1, <4>1
      <4>3. sum[b] = [size |-> TotalOf(sum, blocks[b].prev).size + blocks[b].size + TrailerSize,
                      num |-> TotalOf(sum, blocks[b].prev).num + 1]
        BY <2>1, <4>1 DEF Summed, n
      <4> QED BY <2>7, <4>1, <4>2, <4>3
    <3> QED BY <3>1, <3>2
  <2>11. Summed(add)'
    BY <1>4, <2>6, <2>9, <2>10 DEF Summed
  <2> QED BY <2>11
<1> QED BY <1>8, <1>9, <1>10 DEF LinkInv

\* One turn of mempool_free_chain: the last block goes, what it leads to is left.
LEMMA FreeBlockLinks ==
  ASSUME LinkInv, NEW c \in Chains, FreeBlock(c)
  PROVE  LinkInv'
<1> DEFINE n == Len(blocks)
           p == blocks[last[c]].prev
<1>1. /\ blocks \in Seq(Blocks) /\ last = [x \in Chains |-> last[x]] /\ freed \subseteq 1..n
      /\ \A b \in 1..n : blocks[b].prev \in 0..b - 1
      /\ \A x \in Chains : last[x] \in 0..n
      /\ n \in Nat
  BY LenProperties DEF LinkInv, LinkTypes
<1>2. /\ last[c] \in 1..n /\ freed' = freed \cup {last[c]} /\ last' = [last EXCEPT ![c] = p]
      /\ blocks' = blocks /\ pool' = "copy"
  BY <1>1 DEF FreeBlock
<1>3. p \in 0..n /\ p < last[c]
  BY <1>1, <1>2
<1>4. last'[c] = p /\ (\A x \in Chains : x # c => last'[x] = last[x])
      /\ last' = [x \in Chains |-> last'[x]]
  BY <1>1, <1>2
<1> HIDE DEF p
<1>5. LinkTypes'
  BY <1>1, <1>2, <1>3, <1>4 DEF LinkTypes
<1>6. \E left : Linked(left)'
  <2>1. PICK left : Linked(left)
    BY DEF LinkInv
  <2>0. PICK rest : rest = [x \in Chains |-> left[x] \ {last[c]}]
    OBVIOUS
  <2>2. rest["small"] = left["small"] \ {last[c]} /\ rest["big"] = left["big"] \ {last[c]}
        /\ c \in {"small", "big"}
    BY <2>0 DEF Chains
  <2>3. left["small"] \cap left["big"] = {} /\ left["small"] \cup left["big"] = (1..n) \ freed
        /\ ChainOf("small", left) /\ ChainOf("big", left)
    BY <2>1 DEF Linked
  <2>4. rest["small"] \cap rest["big"] = {} /\ rest["small"] \cup rest["big"] = (1..n) \ freed'
    BY <1>2, <2>2, <2>3
  <2>5. last[c] \in left[c]
    BY <1>2, <2>2, <2>3 DEF ChainOf
  <2>6. ASSUME NEW x \in {"small", "big"} PROVE ChainOf(x, rest)'
    <3>1. ChainOf(x, left) /\ rest[x] = left[x] \ {last[c]} /\ left[x] \subseteq 1..n
          /\ x \in Chains
      BY <2>2, <2>3 DEF Chains
    <3>2. CASE x # c
      <4>1. rest[x] = left[x] /\ last'[x] = last[x]
        BY <1>4, <2>2, <2>3, <2>5, <3>1, <3>2
      <4> QED BY <1>2, <3>1, <4>1 DEF ChainOf
    <3>3. CASE x = c
      <4>1. p \in left[x] \cup {0} /\ (\A d \in left[x] : d < last[x] => d <= p)
        BY <2>5, <3>1, <3>3 DEF ChainOf, p
      <4>2. p # last[x] /\ \A d \in rest[x] : d < last[x] /\ d \in left[x] /\ d \in Nat
        BY <1>1, <1>2, <1>3, <3>1, <3>3 DEF ChainOf
      <4>3. last'[x] \in rest[x] \cup {0} /\ \A b \in rest[x] : b <= last'[x]
        BY <1>4, <3>1, <3>3, <4>1, <4>2
      <4>4. ASSUME NEW b \in rest[x]
            PROVE  /\ blocks[b].prev \in rest[x] \cup {0}
                   /\ \A d \in rest[x] : d < b => d <= blocks[b].prev
        <5>1. b \in left[x] /\ b < last[x] /\ b \in 1..n
          BY <3>1, <4>2
        <5>2. blocks[b].prev \in left[x] \cup {0}
              /\ \A d \in left[x] : d < b => d <= blocks[b].prev
          BY <3>1, <5>1 DEF ChainOf
        <5>3. blocks[b].prev # last[x]
          BY <1>1, <1>2, <3>3, <5>1
        <5> QED BY <3>1, <3>3, <4>2, <5>2, <5>3
      <4> QED BY <1>2, <4>3, <4>4 DEF ChainOf
    <3> QED BY <3>2, <3>3
  <2>7. Linked(rest)'
    BY <1>2, <2>4, <2>6 DEF Linked
  <2> QED BY <2>7
<1>7. \E sum : Summed(sum)'
  <2>1. PICK sum : Summed(sum)
    BY DEF LinkInv
  <2>2. /\ sum \in [1..n -> [size : Nat, num : Nat]]
        /\ total = [x \in Chains |-> TotalOf(sum, last[x])]
    BY <2>1 DEF Summed
  <2> DEFINE t == total[c]
             u == TotalOf(sum, p)
             m == blocks[last[c]].size
  <2>3. t = [size |-> u.size + m + TrailerSize, num |-> u.num + 1]
    <3>1. t = sum[last[c]]
      BY <1>2, <2>2 DEF TotalOf
    <3> QED BY <1>2, <2>1, <3>1 DEF Summed, p
  <2>4. u \in [size : Nat, num : Nat]
    BY <1>3, <2>2 DEF TotalOf, NoTotal
  <2>5. m \in Nat
    <3>1. blocks[last[c]] \in Blocks
      BY <1>1, <1>2, ElementOfSeq
    <3> QED BY <3>1 DEF Blocks
  <2>6. total' = [total EXCEPT ![c] = [size |-> t.size - m - TrailerSize, num |-> t.num - 1]]
    BY DEF FreeBlock
  <2> HIDE DEF t, u, m
  <2>7. [size |-> t.size - m - TrailerSize, num |-> t.num - 1] = u
    <3>1. t.size = u.size + m + TrailerSize /\ t.num = u.num + 1
      BY <2>3
    <3>2. u.size \in Nat /\ u.num \in Nat /\ u = [size |-> u.size, num |-> u.num]
      BY <2>4
    <3>3. t.size - m - TrailerSize = u.size /\ t.num - 1 = u.num
      BY <2>5, <3>1, <3>2, MempoolAssumption
    <3> QED BY <3>2, <3>3
  <2>8. total' = [x \in Chains |-> TotalOf(sum, last'[x])]
    BY <1>4, <2>2, <2>6, <2>7 DEF u
  <2>9. Summed(sum)'
    BY <1>2, <2>1, <2>8 DEF Summed
  <2> QED BY <2>9
<1> QED BY <1>5, <1>6, <1>7 DEF LinkInv

\* The invariant is inductive.
LEMMA LinkStepInv == LinkInv /\ [MempoolNext]_poolVars => LinkInv'
<1> SUFFICES ASSUME LinkInv, [MempoolNext]_poolVars PROVE LinkInv'
  OBVIOUS
<1>1. CASE UNCHANGED <<blocks, last, total, freed>> /\ (pool' # "copy" => pool # "copy")
  BY <1>1 DEF LinkInv, LinkTypes, Linked, ChainOf, Summed
<1>2. ASSUME NEW size \in Nat, Malloc(size), pool # "copy", pool' # "copy", freed' = freed
      PROVE  LinkInv'
  <2>1. BlockSize \in Nat /\ "small" \in Chains /\ "big" \in Chains
    BY MempoolAssumption DEF Chains
  <2> QED BY <1>1, <1>2, <2>1, NewBlockLinks DEF Malloc
<1>3. HeaderSize \in Nat
  BY MempoolAssumption
<1>4. CASE MempoolNew
  BY <1>2, <1>3, <1>4 DEF MempoolNew
<1>5. ASSUME NEW size \in 1..MaxObject, MempoolMalloc(size) PROVE LinkInv'
  BY <1>2, <1>5, MempoolAssumption DEF MempoolMalloc
<1>6. CASE MempoolDelete \/ UNCHANGED poolVars
  BY <1>1, <1>6 DEF MempoolDelete, poolVars
<1>7. ASSUME NEW c \in Chains, FreeBlock(c) PROVE LinkInv'
  BY <1>7, FreeBlockLinks
<1> QED BY <1>4, <1>5, <1>6, <1>7 DEF MempoolNext

\* mempool_delete gives back every block, and the statistics of the chains come out at
\* nothing.
THEOREM PoolFreed == MempoolSpec => []NothingLeaks
<1>1. LinkInv => NothingLeaks
  <2> SUFFICES ASSUME LinkInv, \A c \in Chains : last[c] = 0
               PROVE  freed = 1..Len(blocks) /\ \A c \in Chains : total[c] = NoTotal
    BY DEF NothingLeaks
  <2>1. PICK left : Linked(left)
    BY DEF LinkInv
  <2>2. Len(blocks) \in Nat /\ freed \subseteq 1..Len(blocks)
    BY LenProperties DEF LinkInv, LinkTypes
  <2>3. last["small"] = 0 /\ last["big"] = 0
    BY DEF Chains
  <2>4. \A b \in left["small"] \cup left["big"] : b <= 0
    BY <2>1, <2>3 DEF Linked, ChainOf
  <2>5. \A b \in 1..Len(blocks) : b \in freed
    BY <2>1, <2>2, <2>4 DEF Linked
  <2>6. PICK sum : Summed(sum)
    BY DEF LinkInv
  <2>7. \A c \in Chains : total[c] = NoTotal
    BY <2>6 DEF Summed, TotalOf
  <2> QED BY <2>2, <2>5, <2>7
<1> QED BY <1>1, LinkInitInv, LinkStepInv, PTL DEF MempoolSpec
=============================================================================
