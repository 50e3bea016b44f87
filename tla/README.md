# NetBufs in TLA+

TLA+ models of NetBufs (a C library that sends groups of named attributes as
CBOR over a byte stream), TLC runs that check them on small instances, and
TLAPS proofs of the properties that matter most.

## The system

NetBufs is a sequential library.  Its concurrency is that of its use: two
processes at the two ends of a file, a pipe or a socket, or one process that
writes into a memory buffer and reads it back.

| component | state | operations | works with |
|---|---|---|---|
| buffer (`buffer.c`, `buffer-memory.c`, `buffer-file.c`, `buffer.h`) | one block with `pos` and `len`, a mode (idle, reading, writing), a back end: growing memory or a file descriptor | write, read, getc, peek, ungetc, is_eof, flush, tell, delete | every byte of the layers above goes through it |
| CBOR encoder (`encode.c`) | the block stack of its `cbor_stream`: open arrays and maps with announced length and items counted | one call per item; begin and end of blocks; whole items | writes headers to the buffer, counts them in the top block |
| CBOR decoder (`decode.c`, `cbor-internal.h`) | the same stack, a peeked item | one call per item, begin and end of blocks, whole items | reads headers from the buffer, raises errors, feeds diag |
| stream, errors (`cbor.c`) | block stack, last error, handler | init, free, push block, error | the default handler ends the process; NetBufs installs its own |
| protocol, sending (`send.c`, `netbufs.c`) | per group: attributes and their protocol IDs (pids), `max_pid`; the active group | nb_send_group, nb_send_id, one call per value type, arrays | encoder |
| protocol, receiving (`receive.c`) | per group `pid_to_lid`; the active group, the current attribute | nb_recv_group, nb_recv_attr, one call per value type, arrays | decoder, diag |
| array, stack, strbuf, mempool | sizes and capacities, memory | push, pop, ensure index, reset, allocate | used by all of the above |
| diag, nbdiag | two pending lines, indentation, a comma that may follow | log bytes and items, end lines, indent; print or mirror a CBOR file | called by the decoder for every header and item |
| benchmark | sample clients in several formats | - | protocol, CBOR and buffer |

What is hard in it:

* **The buffer's fast and slow paths.**  Every call has an inline fast path and
  an out-of-line loop over several blocks, one block serves both directions,
  and the asserts look at the mode only.  Calls in an unusual order, counts of
  exactly what is left, short reads, failed reads and short writes are hardly
  tested.
* **The exchange of names.**  Sender and receiver number names on their own.  A
  pid is defined in the stream just before its first use, per namespace, and
  nested groups switch namespaces back and forth.  The receiver's table
  survives a restart of the sender.
* **Implicit bookkeeping.**  The active group is restored from the block stack;
  the parity and item checks at the end of a block depend on what exactly is
  counted, key maps inserted by the protocol included.
* **Ends of the stream.**  The sender may die with a part of a message flushed,
  so that the data may end where a break is looked for: in `nb_recv_attr` and in the
  loops over items and chunks.  `cbor_is_break` is false there and the loops go on,
  while `cbor_peek` takes the end for the byte of a break.
* **Diagnostics behind the decoder.**  Whether a comma follows a line is known when
  the next item begins, keys and values of a map are told apart by the parity of
  the headers counted, and the indentation is carried from line to line.
* **Numbers.**  Lengths and values of 8 to 64 bits, headers that choose a width,
  range checks, capacities that double.

What makes each part correct:

* buffer: bytes arrive in order, none lost or doubled; no copy outside its
  memory; loops end; a memory buffer is a queue.
* encoder and decoder: what one accepts the other does; blocks at both ends
  agree; the counts checked at the end are those announced.
* protocol: the receiver is told what the sender said; every ID is translated
  to the name meant or reported; the sender's checks never refuse a correct
  program.
* containers: size never exceeds capacity, growth keeps the contents, no two
  live objects overlap, every block of a pool is freed once.
* diagnostics: the text is diagnostic notation of exactly the tokens read, indented
  by depth.

## Modules

| module | models | lines of state and of actions in the code |
|---|---|---|
| `NbBuffer` | one buffer with either back end, called in any order | `mode`, `block`, `pos` are `buf->mode`, `buf->buf[0..len)`, `buf->pos`; `ops` is `buf->ops`, memory or file, and `store`, `store_pos`, `memory_size` are its state. `Write`, `Read`, `GetOrPeek`, `Ungetc` are the inline calls of `buffer.h`; `WriteStep` and `ReadStep` one iteration of `write_internal` and `read_internal`; `Flush`, `IsEof`, `Delete` the calls of `buffer.c`. An assert that fails is the terminal state `Aborted`. |
| `NbBufferClient` | the buffer with a client that writes, flushes and reads as `benchmark.c`, `nbdiag.c` and `test-stream.c` do | restricts the order of the calls |
| `ByteQueue` | what a memory buffer promises: a first-in first-out queue | abstract |
| `Netbufs` | sender and receiver of the protocol at two ends of a stream of CBOR items | `pid`, `max_pid`, `sblocks`, `sactive` are the sender's `struct nb`, `pid_to_lid`, `rblocks`, `ractive` the receiver's. An `nb_send_*` call is one action; an `nb_recv_*` call is one action per item it takes from the stream, since it may have to wait for it. `stodo` and `rtodo` are the program counters of the two clients. |
| `NbDictionary` | the exchange of names alone | `SendKnown`, `SendNew` are `lid_to_pid`, `RecvKeys` and `RecvId` `recv_keys` and `recv_id` |
| `CborSyntax` | what RFC 7049 calls well-formed, as a left-to-right reader | reference, no code |
| `CborDecode` | `cbor_decode_item`, item after item, over any stream of tokens | `blocks` is `cs->blocks`, `calls` the C stack: the loops of `decode_array_items` and `cbor_decode_stream`, and tags |
| `CborEncode` | the streaming calls of `encode.c` with any client | `blocks` is `cs->blocks`; `levels` what the client thinks is open, `tags` a record of the tags in each of its blocks, which the encoder counts as items |
| `CborHead` | numbers: width of the header, byte order, ranges at the receiver | `Send` is one of `cbor_encode_uint8` .. `cbor_encode_sval`, `Receive` one of the decoding calls |
| `CborDiag` | `diag.c` under `CborDecode`, as `diag_dump_cbor_stream` uses it | extends each action of `CborDecode` with what it logs; `diag` is `struct diag` (two lines, the index of the current one, `eol_on_next_raw`), and a reader of diagnostic notation, the reference, takes what is printed |
| `CborItem` | `cbor_encode_item`, the recursion that writes a whole item, over `CborEncode` | `todo` is the C stack of `encode_array_items`; the item is any tree |
| `NbArray` | `array.c` with a client that sets items | `num_items`, `capacity` are the header, `cells` the memory; `known` what the client may rely on |
| `NbStack`, `Lifo` | `stack.c`; what a stack promises | `depth`, `stack_size`, `slots` are `struct stack` |
| `NbStrbuf` | `strbuf.c` | `str`, `str_size`, `len` are `struct strbuf`; `reach` is the last cell a call writes |
| `NbMempool` | `mempool.c` | `last`, `last_free`, `total` are the two chains, `blocks` the trailers; the pool moves from a local variable into itself and out again when it is deleted |
| `NbBufferProofs`, `NetbufsProofs`, `NbDictionaryProofs`, `CborEncodeProofs`, `CborDecodeProofs`, `CborHeadProofs`, `NbContainerProofs` | theorems | |
| `CborSyntaxProofs` | lemmas about the grammar, for both CBOR proofs | |
| `MC*` | constants of the runs | |

`Netbufs` is shown to implement `NbDictionary` (`ExchangesNames`) and
`NbBufferClient` to implement `ByteQueue` (`IsFifo`), and `NbStack` to implement
`Lifo` (`IsLifo`), each with a refinement mapping.  `CborDecode` and `CborEncode` are compared with the one grammar in
`CborSyntax`.  `Netbufs` and the CBOR modules take `cs->blocks` as a sequence, which
`IsLifo` justifies, and `pid_to_lid` as a sequence whose gaps are zero, which
`ArrayHoldsItems` does.

What is abstract:

* a byte in `NbBuffer` is the number of its place in the file or among the bytes
  written, so that order and loss can be seen; its value plays no part;
* in `Netbufs` an item is a header with its payload and a value one of two small
  numbers, which are also pids in use.  The stream loses whole items at its end
  when the sender dies, where a flush may also cut an item in two: the decoder
  reports both as the end of the stream;
* in `CborDecode` and `CborEncode` a token is a header with the bytes that belong
  to it; integers and simple values are one kind, texts and byte strings another;
* `error()` calls a handler that ends the process, so an error is a terminal
  state.  `assert` is compiled in (no Makefile defines `NDEBUG`).

## Runs

| run | question | bounds, and why they are enough |
|---|---|---|
| `buffer_any_order` | Does any order of calls on a buffer with either back end copy outside its memory (`WithinBounds`), loop for ever (`SlowCallsReturn`) or find data behind the end (`EofIsSticky`)? | block of 2 bytes, calls of up to 4: fast, exactly full, one and two turns of the loop; memory grows twice; a file of two bytes, read in one go or bit by bit. `WithinBounds` is proved for all sizes. |
| `buffer_client` | Is a memory buffer a queue for a client that keeps to writing, flushing, reading (`IsFifo`), and are a file's bytes read and written in order, with short and failed reads and writes (`ReadsFileInOrder`, `WritesFileInOrder`)? | blocks of 2 and three of them, a partial one, two doublings; the end of the file inside a block, and writing past it. All three proved for all sizes. |
| `netbufs_protocol` | Does the receiver hear what the sender said (`ReceivedAsSent`), with which errors (`OnlyEofFails`, `SenderNeverFails`), are the active groups restored (`ActiveGroupIsInnermost`), do the block stacks agree (`BlocksAgree`), are IDs understood (`PidUnderstoodOrReported`)? Sender and receiver may start afresh, the sender may die with any part flushed. | two groups that contain each other, values, arrays of values and of groups, nesting of 5, two messages in flight, one restart. Nested groups of the same and of another namespace need 4; a lid order unlike the pid order and values that look like pids are in the constants. All six are proved for every schema; four of them for a receiver that is there from the beginning only, and with these two groups a late one does no harm. |
| `netbufs_progress` | Does everything arrive that was sent before a clean close (`CleanCloseDelivers`), does a full stream drain (`FullStreamDrains`), and are names exchanged as in `NbDictionary` (`ExchangesNames`)? | the same schema, one element per array, nesting of 4. `ExchangesNames` is proved for every schema and bound. |
| `netbufs_late_receiver` | *Violated*: see the findings | any two groups as the first one |
| `dictionary` | Are IDs understood whatever the delay and the restarts, and is the invariant the proof uses inductive from the start (`Inv`)? | two namespaces that share two names, three names, three messages on the wire; proved for all |
| `cbor_decode` | Does the decoder accept well-formed streams only (`AcceptsOnlyWellFormed`) and refuse ill-formed ones only, numbers out of its range apart (`RejectsOnlyIllFormed`), do its recursion and its block stack agree (`LoopsAndBlocksAgree`), does it end (`Terminates`)?  Is what diag prints the diagnostic notation of what was read (`PrintsWhatItReads`), and its indentation the depth (`IndentationIsDepth`)? | every stream of up to 5 tokens of 14 kinds that may end behind any of them (an end inside a number is for `cbor_head`), lengths up to 2: a map of two pairs, an array in a map in an array. Headers of one byte and of more. All but `Terminates` are proved for streams of any length and depth. |
| `cbor_rfc` | *Violated*: see the findings | |
| `cbor_encode` | Is a client that ends its blocks properly refused nothing but a map with an odd number of tags in it (`ProperClientAccepted`), and when are ill-formed bytes written (`WrittenIsWellFormed`, `EmptyStackIsComplete`)?  Is `cbor_encode_item` such a client for every item (`WholeItemIsProper`)? | 6 tokens, three open blocks, lengths up to 1: every pair of block types inside each other, with odd maps and tags. All four proved for any depth and length. |
| `cbor_head` | Does a number arrive or is refused rightly (`NumberArrives`, `RefusedOnlyOutOfRange`, `CutIsReported`), do both ends stay in step (`InStep`)? | bytes of 4 values instead of 256 and 0..1 in the header instead of 0..23: 8 bytes hold 65536, and the samples are both sides of every limit of 1, 2, 4 and 8 bytes, signed and unsigned. All four proved for every even number of values of a byte and every room in the header, 256 and 0..23 among them. |
| `cbor_uint64` | *Violated*: see the findings | |
| `memory` | Do arrays keep their items and new ones read as zero (`ArrayHoldsItems`), is a stack one (`IsLifo`), are strings written inside their memory with room for the zero (`StrbufFits`) and whole (`StringIsWhole`), are a pool's objects apart and inside their blocks (`ObjectsApart`, `ObjectsInBlocks`), is all of it freed (`NothingLeaks`)? | the four share nothing, so each behaviour is of one of them. Array and stack begin with one item and grow three times; strings begin with 2 cells; blocks of 6 cells and objects of 1 to 7, five of them: exactly half a block, one more, a block filled to its last cell, several blocks in each chain. All proved for all sizes. |

Deadlock is not checked in any run: a sender may stop after any message, a
deleted buffer, a failed assert and an error end the process, and the bounds end
the rest.

Every property of a passing run has a mutant: an operator of the model with a
bug that one could well make there, with which TLC finds the property violated.

## Fairness

* `NbBuffer`: weak fairness of `WriteStep` and `ReadStep`.  The loops are C loops
  and nothing but themselves can stop them.  The client need never call again.
* `Netbufs`: weak fairness of `Receive`, all actions of the receiving process
  together: it runs, and a `read` returns when there is something to read.
  Nothing is assumed of the sender, nor of restarts.
* `CborDiag`: weak fairness of the decoder's steps until an assertion fails
  (`Running /\ Next` of `CborDecode`): one sequential process.  Each such step is
  exactly one of `DiagNext`, since logging always succeeds, so this is the fairness
  of `DiagNext`, stated so that TLC need not build the logged text to see whether
  a step is possible.

The other specifications state no fairness and no liveness.

## Proofs

The assumptions are those stated in the modules with `ASSUME`, all of them
evaluated by TLC in the runs, and one hypothesis, `~LateReceiver`, where it is
named below.

### The buffer: `NbBufferProofs`

For every `BufSize` above 0, either back end, any file length and bounds:

* `TypeCorrect`, `MemorySafe` and `EofFinal`: `Spec => []TypeOK`, `Spec =>
  []WithinBounds`, and that who has been told of the end of a memory buffer hears nothing else
  (`EofIsSticky`, an action property, from the same invariant).
  The inductive invariant is their conjunction, `BufferInv`: the bounds of a copy
  follow from the types of the lengths, and that the memory is large enough after
  one doubling in `mem_flush` follows from the fact in `WithinBounds` that it is
  empty or at least a block long.  There is a lemma for each operator (what a
  fill, a flush, a `Put` does to block and back end), one for each action, and
  `StepInv` puts them together.
* `FileReadInOrder`, `FileWrittenInOrder`: `ClientSpec => []ReadsFileInOrder` and
  `[]WritesFileInOrder`.  Neither property is inductive: they compare what came out
  with the file, and the bytes in the block are in neither.  `ClientInv` says of
  memory, block and output together that they are consecutive runs of the bytes
  written (`WritingMemory`, `ReadingBack`) or of the file's bytes with the written
  ones before them (`WritingFile`); `Run` and the lemmas on joining and cutting
  runs carry the proof.  A block that is half read when writing begins is where
  the client's discipline is needed.
* `MemoryIsFifo`: `ClientSpec => IsFifo`.  The queue of `ByteQueue` is what is
  written and not yet read (`QueueInv`: a run again); each step is a put, a take, a
  byte put back, a call that comes up short, the end, or a stutter.

### The protocol: `NetbufsProofs`

For every schema, numbering by the receiver, depth, delay and number of restarts:

* `NetbufsTypes`, `SenderNeverFailsAlways`, `ActiveGroupAlways`.  Each end by itself:
  every frame of the client (an open group, attribute or array) has its block, with
  as many items counted as the client has dealt with (`SenderInv`, `ReceiverInv`).
  That the sender is never refused at the end of a map is that the keys inserted
  count in pairs (`EvenMaps`).
* `ReceivedAlways`, `OnlyEofAlways`, `BlocksAgreeAlways`, `PidUnderstoodAlways`, all
  under `~LateReceiver`.  `NamesInv` is the invariant of `NbDictionaryProofs` on the
  full stream: each pid in it stands for the name meant.  `InSynch` relates the two
  ends: an ideal receiver (`Step`, which knows the name meant by each pid) that is fed
  the stream goes from where the real one is to where the sender is, and what it is told on
  that way is what is pending.  The sender makes this way longer at its end, the
  receiver shorter at its beginning, a crash cuts it; only then is it a prefix of a
  way, and only then may the receiver report the end of the stream.  An item the
  ideal receiver accepts is accepted by the real one since the blocks of both ends
  are those of their clients.
* `ExchangesNamesAlways`: `Spec => ExchangesNames`, also under `~LateReceiver`: every
  step of either end is one of `NbDictionary` under the mapping, or a stutter.  The wire
  of the dictionary is the uses and definitions among the items of the stream, which
  `Messages` picks out item by item.  A call that sends a name is `SendKnown` or `SendNew`,
  the item that ends a key map `RecvKeys`, an item that means a name `RecvId`; a crash cuts
  the messages where it cuts the items (`MessagesPrefix`).  That the dictionary's bound on
  the wire is never in the way needs `AnnouncedInv` (behind every definition comes its
  use) and the way of `InSynch`: each use ends a call that is pending, so that there are
  at most two messages for each of those (`FewMessages`).
* The hypothesis is needed: a receiver that takes over a stream in progress has not
  learnt the names used in it.  With the two groups of the run `netbufs_protocol` it
  always notices; with more groups it takes an ID for another's, see the finding
  `netbufs_late_receiver`.

`NbDictionaryProofs` (for any groups, names, numbering by the receiver, and any
bound on the wire):

* `TypeCorrect`, `Consistent` and `Understood`: `[]TypeOK`, `[]Inv` and
  `[]IdsUnderstood`.  `IdsUnderstood` speaks of the first message only and is not
  inductive.  `Inv` says of *every* point of the wire that a pid in use there
  stands for the name meant, by the last definition before that point or by what
  the receiver already knows (`UsesStand`), and the same of the pids the sender
  has given out at the end of the wire (`AssignedStand`).  A restart is harmless
  because the sender forgets its pids with it, and a new definition because it is
  of a pid above all those in use (`PidsInRange`).

### CBOR: `CborEncodeProofs`, `CborDecodeProofs`, `CborHeadProofs`, `CborSyntaxProofs`

`CborEncodeProofs` (for any number of tokens, depth and announced length):

* `ClientAccepted`: `Spec => []ProperClientAccepted`.  A refusal is a matter of the
  block stack, a mistake one of the client's view, so the inductive invariant
  (`EncodeInv`) is that the stack follows that view while no mistake has been made:
  same types, and in a map the headers counted are odd exactly when its items and
  its tags together are (`tags` keeps count of these).  An odd number of tags in a map
  is therefore the one thing a proper client is refused, and the one thing that
  hides an odd item.
* `WellFormedAlways` and `CompleteAtRoot`: `[]WrittenIsWellFormed` and
  `[]EmptyStackIsComplete`.  `WrittenInv` says that the client's levels are among
  those the grammar has open, in order (`Holds`), and that what lies between them
  are tags and blocks that wait for nothing: `Trimmed` removes these when an item
  ends.
* `ItemsAreCalls`: `ItemSpec => Spec`, each step of `cbor_encode_item` is a streaming
  call or none; with it `ItemAccepted` and `ItemWellFormed`, the two invariants for
  whole items.  `ItemProper`: `ItemSpec => []WholeItemIsProper`; in `LoopsInv` each
  loop of the recursion has a level that lacks what the loop has to write, and tags
  have none.

`CborDecodeProofs` (for a stream of any length, depth and announced lengths):

* `LoopsAndBlocksAlways`: `[]LoopsAndBlocksAgree`, whatever the stream.
* `AcceptsWellFormedAlways` and `RejectsIllFormedAlways`: `[]AcceptsOnlyWellFormed` and
  `[]RejectsOnlyIllFormed`.  `Followed`, as long as the stream has nothing the decoder
  is known not to cope with (`met`): the levels the grammar has open are
  those of the loops (`LevelsOf`: what each has still to do), without the innermost
  ones that are complete.  For that a tag may not stand in a block of known length,
  since it would be taken for an item (`Proper`); the decoder counts it there, and
  `met` says so.  The refusal of an integer below the least `int64_t` or of a tag above
  32 bits (`NB_ERR_RANGE`) says nothing of the stream and is left out of the second.
* `DiagIsDecode`: `DiagSpec => Spec`, so that all three hold with diagnostics too.
* `PrintsWhatItReadsAlways` and `IndentationIsDepthAlways`: `DiagSpec =>
  []PrintsWhatItReads` and `[]IndentationIsDepth`.  Both speak of what has been
  printed and say nothing of the two lines that have not; the invariant that is added to the
  decoder's, `Logging`, does.  `Reading`: the reader that has taken the text, lines and all,
  is in each block at the place the block's count says (`Tracks`), and a comma is
  pending exactly if a value was the last thing read, which is what decides whether the next
  header's comma is right.  `BlocksDeep` and `CallsDeep`: the level of
  indentation is the number of blocks and of keys whose value is not finished.  The keys are
  counted twice, by the blocks' counts (`BlockKeys`) and by the loops' (`LoopKeys`),
  because a tag spoils the first and a string of indefinite length the
  second, and the assertion in `isbuf_dedent` needs one of them to hold: it can fail only
  for a stream with both.  `ReadText` is a recursive function, so what it returns for
  one symbol more is a lemma by itself (`ReadOneMore`).

`CborHeadProofs` (for every `Base` and `Direct` the code's 256 and 23 are instances of, and any
samples):

* `NumberArrivesAlways`, `RefusedAlways`, `CutReportedAlways`, `InStepAlways`: the four
  properties of `CborHead`.  A value is sent, its bytes are perhaps cut, it is received:
  the invariant (`HeadInv`) is little more than that the bytes in between are those of
  the item.  The work is in the functions: the digits written are put together to the
  number again (`DigitsJoin`), the form of header chosen is the one read
  (`ReadsWhatIsWritten`), a part of the bytes is none, and the range checks of the
  receiver let through exactly what its type holds (`ReceivedRight`).  Powers of `Base`
  are a function, `Power`, since `^` has no meaning for the provers.

`CborSyntaxProofs` has what the encoder's and the decoder's proof rest on: what `Trimmed` leaves of a sequence of
levels, when it leaves nothing, and that it commutes with what the innermost level
does.  `Trimmed` cuts behind the last level that takes more; that there is a last one is
an induction (`MaxIn`, from the library's theorem that `<` on numbers is
well-founded).

### Containers: `NbContainerProofs`

For every initial size above 0, for arrays from 0, every size asked for, and every
order of calls:

* `ArrayCorrect`: `[]ArrayHoldsItems`.  The property does not say what is behind the
  last item, where the next one comes from; `ArrayInv` adds that the memory there
  is zero unless it was an item before an `array_reset` (`ClearBehind`).
* `StackTypeCorrect`: the stack has room for its items (`StackTypeOK`, inductive by
  itself), and `StackIsLifo`: every step of `NbStack` is a step of `Lifo` under the
  mapping, `StackSpec => IsLifo`.
* `StrbufSafe` and `StrbufWhole`: `[]StrbufFits` and `[]StringIsWhole`, with
  `StrbufInv` (types, and both) inductive.  That a growth never cuts a string
  short needs the room for the zero, and the other way round.
* `PoolObjectsInBlocks` and `PoolObjectsApart`.  `PoolInv` adds that what a chain
  believes to be free lies behind every object of its last block (`FreeBehind`),
  which is why the next object is apart from all of them.
* `PoolFreed`: `[]NothingLeaks`.  `LinkInv` says what the walk over `prev` in
  `mempool_delete` has still to free: for each chain the set of blocks from its last one on,
  closed under `prev` and containing every block of the chain not yet freed
  (`Linked`), and that the statistics are the sums over the blocks (`Summed`).

### What is only model-checked

* Liveness, since the prover has no `ENABLED`: `SlowCallsReturn`, `CleanCloseDelivers`,
  `FullStreamDrains`, `Terminates`.
* The three violated properties, of course.

What a recursive function returns is proved where a proof needs it (`Messages`, `ReadText`): the
library's induction theorems take an operator and cannot be used, so `Upwards` of
`NetbufsProofs` and of `CborDecodeProofs` states induction for a set of numbers, from the theorem that `<` on
numbers is well-founded.

Type invariants are proved and, where nothing else needs them, not checked by a
run of their own.

## Findings

* `netbufs_late_receiver`: a receiver that starts on a stream in progress takes an
  ID it was never told for one it knows.  `recv_id` (receive.c:67) compares the
  length of `pid_to_lid` with `<`, and entries that were never learnt hold lid 0.
* `cbor_rfc`: the break at the end of a string of indefinite length is looked at
  (decode.c:529) and never read.  The next item is then this break.
* `cbor_uint64`: `cbor_encode_uint64` (cbor.h:232) calls `cbor_encode_uint32_slow`,
  so `nb_send_u64` loses the upper half of its argument.

The properties of the passing runs exempt these and the other known gaps by name:
`Truncated` and `NegativeAsUnsigned` in `CborHead`, `met` in `CborDecode`, `seen`
(tags and strings of indefinite length, both counted wrongly) in `CborDiag`,
`NB_ERR_RANGE` in `CborDecode`, `mistakes` and `OddTags` in `CborEncode`, `LateReceiver` in `Netbufs`.  That a complete map with an odd number of tags
directly in it is refused as one with an "Odd number of items" (encode.c:244) is no
finding since nothing in the repository says otherwise; `ProperClientAccepted` shows
that the encoder refuses a proper client nothing else.

## Not modelled

* The clients' data, the text parser and the other serialisations of the
  benchmark: no part of the library.
* Of the diagnostics, the offset, raw, item and protocol columns and the layout of
  a line: no decision depends on their text.  The assertion in `isbuf_dedent`
  (diag.c:41) can fail for a map that holds a tag and a string of indefinite length;
  the shortest such stream has six tokens, one more than the run's.
* The mirror mode of `nbdiag` (nbdiag.c:195): it sets no diagnostics for its input,
  and the decoder reads `cs->diag->enabled` without a check, so that it ends at the
  first item.
* Of the items the decoder builds, the memory they are in; `cbor_decode_bool`, and
  a map's announced length doubled beyond 64 bits (decode.c:391).
* Failed allocation: ends the process.
* Floats: the decoder refuses them, there is no encoder.  Reserved values in a header
  (`NB_ERR_PARSE`): no token of the models has one.
* The default branch of `cbor_encode_item` (encode.c:420, `NB_ERR_UNSUP`): the items
  of `CborItem` are of the types it knows.  A client that puts more items into a block
  than announced: that of `CborEncode` does not.
* What an error does besides ending the process: the formatting of its message (decode.c:386
  passes none) and the flush of the diagnostics by the handler.
* That `mempool_delete` copies the header before it frees the block with the header
  in it: `NbMempool` keeps the copy apart from the blocks.
* Failed writes inside the encoder: `nb_buffer_write` either writes all or its
  assert ends the process (`NbBuffer`), so the error returns of encode.c are
  never taken.
* `examples/nonblock` and `doc/examples`: fragments that are not built.

## Plan

1. Buffer: `NbBuffer`, `NbBufferClient`, `ByteQueue`, `NbBufferProofs`.  *Done.*
2. Protocol: `Netbufs`, `NbDictionary`, `NbDictionaryProofs`.  *Done.*
3. CBOR: `CborSyntax`, `CborDecode`, `CborEncode`, `CborHead`.  *Done.*
4. Containers: `NbArray`, `NbStack`, `NbStrbuf`, `NbMempool` and their proofs.  *Done.*
5. Whole items and diagnostics: `CborItem`, `CborDiag`.  *Done.*
6. The protocol over the buffer instead of an abstract stream, with items cut by
   a flush.
7. Proofs: all invariants of the buffer, the protocol, the encoder, the decoder and
   the containers, the diagnostics, and the refinements.  *Done.*
