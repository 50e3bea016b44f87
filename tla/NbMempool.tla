------------------------------ MODULE NbMempool -----------------------------
(***************************************************************************)
(* mempool.c: memory that is given out piecemeal and freed all at once.    *)
(* Small objects share blocks, a big one has a block to itself.  A block   *)
(* ends in a trailer that points to the block before it, and the pool's    *)
(* own header is its first object.                                         *)
(*                                                                         *)
(* Block b is blocks[b]; the trailer is at its cell blocks[b].size.        *)
(***************************************************************************)
EXTENDS Integers, Sequences

CONSTANTS
  BlockSize,   \* block_size: 16 groups in netbufs.c, 32 items in cbor.c
  HeaderSize,  \* sizeof(struct mempool)
  TrailerSize, \* sizeof(struct mempool_block)
  MaxObject,   \* bound: the largest object asked for
  MaxObjects   \* bound: how many are asked for, the header included

ASSUME MempoolAssumption ==
  /\ {BlockSize, HeaderSize, TrailerSize} \subseteq Nat \ {0}
  /\ MaxObject \in Nat /\ MaxObjects \in Nat

VARIABLES
  blocks,    \* every block malloc returned: its size and the block before it
  last,      \* chain->last of both chains, 0 for NULL
  last_free, \* chain->last_free
  total,     \* chain->total_size and chain->num_blocks
  objects,   \* history: what mempool_malloc returned: block, first cell, size
  pool,      \* where the struct mempool in use is: "local", "header" or "copy"
  freed      \* the blocks given back to free

poolVars == <<blocks, last, last_free, total, objects, pool, freed>>

Chains == {"small", "big"}
NoTotal == [size |-> 0, num |-> 0]

\* mempool_new: the pool is a local variable until its copy is allocated in it.
MempoolInit ==
  /\ blocks = <<>> /\ objects = <<>> /\ freed = {}
  /\ last = [c \in Chains |-> 0] /\ last_free = [c \in Chains |-> 0]
  /\ total = [c \in Chains |-> NoTotal]
  /\ pool = "local"

\* mempool_new_block
NewBlock(c, size) ==
  /\ blocks' = Append(blocks, [size |-> size, prev |-> last[c]])
  /\ last' = [last EXCEPT ![c] = Len(blocks) + 1]
  /\ total' = [total EXCEPT ![c] = [size |-> @.size + size + TrailerSize, num |-> @.num + 1]]

\* Mutant of Alloc: the address is taken from what is free after the object.
AllocBehind(c, b, free, size, block_size) ==
  /\ last_free' = [last_free EXCEPT ![c] = free - size]
  /\ objects' = Append(objects,
       [block |-> b, at |-> block_size - (free - size), size |-> size])

\* Mutant of Alloc: the object is not taken off the free cells.
AllocKeepsFree(c, b, free, size, block_size) ==
  /\ last_free' = [last_free EXCEPT ![c] = free]
  /\ objects' = Append(objects, [block |-> b, at |-> block_size - free, size |-> size])

\* mempool_alloc_chain: size cells, free cells before the trailer of block b.
Alloc(c, b, free, size, block_size) ==
  /\ last_free' = [last_free EXCEPT ![c] = free - size]
  /\ objects' = Append(objects, [block |-> b, at |-> block_size - free, size |-> size])

\* size <= small_treshold
IsSmall(size) == size <= BlockSize \div 2

\* mempool_malloc: the rest of the last small block, a new small block (what the
\* old one had left is lost), or a big block.  An empty object of a pool without
\* a small block is NULL; no pool in use is without one or asked for that.
Malloc(size) ==
  \/ /\ IsSmall(size) /\ last["small"] # 0 /\ last_free["small"] >= size
     /\ Alloc("small", last["small"], last_free["small"], size, blocks[last["small"]].size)
     /\ UNCHANGED <<blocks, last, total>>
  \/ /\ IsSmall(size) /\ (last["small"] = 0 \/ last_free["small"] < size)
     /\ NewBlock("small", BlockSize)
     /\ Alloc("small", Len(blocks) + 1, BlockSize, size, BlockSize)
  \/ /\ ~IsSmall(size)
     /\ NewBlock("big", size)
     /\ Alloc("big", Len(blocks) + 1, size, size, size)

\* The copy of the pool goes where mempool_memcpy allocated it, after the
\* allocation has changed the pool.
MempoolNew ==
  pool = "local" /\ Malloc(HeaderSize) /\ pool' = "header" /\ UNCHANGED freed

MempoolMalloc(size) ==
  /\ pool = "header" /\ Len(objects) < MaxObjects
  /\ Malloc(size)
  /\ UNCHANGED <<pool, freed>>

\* mempool_delete begins with a copy of the pool.
MempoolDelete ==
  pool = "header" /\ pool' = "copy" /\ UNCHANGED <<blocks, last, last_free, total, objects, freed>>

\* Mutant of FreeBlock: the block before it is not read off the trailer.
FreeBlockLast(c) ==
  /\ pool = "copy" /\ last[c] # 0
  /\ freed' = freed \cup {last[c]}
  /\ last' = [last EXCEPT ![c] = 0]
  /\ total' = [total EXCEPT ![c] =
       [size |-> @.size - blocks[last[c]].size - TrailerSize, num |-> @.num - 1]]
  /\ UNCHANGED <<blocks, last_free, objects, pool>>

\* One turn of the loop of mempool_free_chain, for the small chain first.
FreeBlock(c) ==
  /\ pool = "copy" /\ last[c] # 0
  /\ c = "big" => last["small"] = 0
  /\ freed' = freed \cup {last[c]}
  /\ last' = [last EXCEPT ![c] = blocks[@].prev]
  /\ total' = [total EXCEPT ![c] =
       [size |-> @.size - blocks[last[c]].size - TrailerSize, num |-> @.num - 1]]
  /\ UNCHANGED <<blocks, last_free, objects, pool>>

MempoolNext ==
  \/ MempoolNew \/ MempoolDelete
  \/ \E size \in 1..MaxObject : MempoolMalloc(size)
  \/ \E c \in Chains : FreeBlock(c)

MempoolSpec == MempoolInit /\ [][MempoolNext]_poolVars

-----------------------------------------------------------------------------
\* An object lies inside its block, before the trailer that links the chain.
ObjectsInBlocks ==
  \A i \in 1..Len(objects) :
    objects[i].at + objects[i].size <= blocks[objects[i].block].size

\* No two objects share a cell, in whatever order sizes are asked for.
ObjectsApart ==
  \A i, j \in 1..Len(objects) :
    i < j /\ objects[i].block = objects[j].block =>
      objects[i].at + objects[i].size <= objects[j].at

\* mempool_delete frees every block, and the statistics come out at nothing.
NothingLeaks ==
  pool = "copy" /\ (\A c \in Chains : last[c] = 0) =>
    freed = 1..Len(blocks) /\ \A c \in Chains : total[c] = NoTotal
=============================================================================
