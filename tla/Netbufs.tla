------------------------------- MODULE Netbufs ------------------------------
(***************************************************************************)
(* The NetBufs protocol: send.c at one end of a byte stream, receive.c at  *)
(* the other, both on the block stack of cbor.c / encode.c / decode.c.     *)
(*                                                                         *)
(* Groups and attributes have names both ends know.  Each end numbers them *)
(* as it likes (local IDs, lids); on the wire an attribute is a protocol   *)
(* ID (pid), given out by the sender at first use.  A pid is announced in  *)
(* the stream just before: pid 1 is reserved and is followed by a map from *)
(* a name to its pid.  Pid 0 is the key of the group's own ID.             *)
(*                                                                         *)
(* Sender and receiver are two processes.  An nb_send_* call appends       *)
(* the CBOR items it writes in one action.  An nb_recv_* call takes one    *)
(* item per action, so that it may be found waiting for the stream at any  *)
(* point.  A stream item is a CBOR header with its payload; IDs and values *)
(* are unsigned integers both, as on the wire.                             *)
(***************************************************************************)
EXTENDS Integers, Sequences

CONSTANTS
  GroupsNs,     \* the namespace of the groups themselves (nb->groups_ns)
  Groups,       \* the names of the groups
  Attrs,        \* Attrs[g]: the names of group g's attributes
  Type,         \* Type[g][a]: what follows attribute a of group g
  RLids,        \* RLids[ns]: the names in ns in the order of the receiver's lids
  Values,       \* values sent, among them some that look like pids
  TopGroups,    \* groups sent outside any group
  MaxElems,     \* bound: elements of an array
  MaxDepth,     \* bound: open groups and arrays
  MaxInFlight,  \* bound: the capacity of the stream, in calls not yet received
  MaxRestarts,  \* bound: times the sender starts afresh
  LateReceiver  \* TRUE if a receiver may take over a stream in progress

Namespaces == {GroupsNs} \cup Groups
NamesIn(ns) == IF ns = GroupsNs THEN Groups ELSE Attrs[ns]
NoGroup == "no group"
NoName == "no name"

\* What the program text of both clients says follows an attribute.
Value == [kind |-> "value", of |-> NoGroup]
GroupOf(g) == [kind |-> "group", of |-> g]
ArrayOf(g) == [kind |-> "array", of |-> g]  \* of values if g = NoGroup
ElemOf(t) == IF t.of = NoGroup THEN Value ELSE GroupOf(t.of)

ASSUME SchemaAssumption ==
  /\ GroupsNs \notin Groups /\ NoGroup \notin Groups /\ TopGroups \subseteq Groups
  /\ \A g \in Groups : \A a \in Attrs[g] :
       Type[g][a] \in {Value} \cup {ArrayOf(NoGroup)}
                       \cup {GroupOf(h) : h \in Groups} \cup {ArrayOf(h) : h \in Groups}
  /\ \A ns \in Namespaces :
       /\ RLids[ns] \in Seq(NamesIn(ns))
       /\ \A x \in NamesIn(ns) : \E i \in 1..Len(RLids[ns]) :
            RLids[ns][i] = x /\ \A j \in 1..Len(RLids[ns]) : RLids[ns][j] = x => j = i

ASSUME BoundsAssumption ==
  /\ Values \subseteq Nat /\ MaxElems \in Nat /\ MaxDepth \in Nat
  /\ MaxInFlight \in Nat /\ MaxRestarts \in Nat /\ LateReceiver \in BOOLEAN

VARIABLES
  pid,        \* sender: attr->pid of every name, 0 until its first use
  max_pid,    \* sender: group->max_pid of every namespace
  sblocks,    \* sender: cs.blocks, the root block first
  sactive,    \* sender: nb->active_group
  stodo,      \* sender: where its client is in the groups and arrays it sends
  restarts,   \* times the sender started afresh
  stream,     \* the items written and not yet read
  closed,     \* how the sender ended: "no", "cleanly", "crashed"
  pid_to_lid, \* receiver: group->pid_to_lid of every namespace
  rblocks,    \* receiver: cs.blocks
  ractive,    \* receiver: nb->active_group
  rtodo,      \* receiver: where its client is in the groups and arrays it expects
  rcall,      \* receiver: the call in progress and how far it is
  pending,    \* history: what was sent and not yet delivered to the client
  misread     \* history: the client was told something that was not sent next

svars == <<pid, max_pid, sblocks, sactive, stodo>>
rvars == <<pid_to_lid, rblocks, ractive, rtodo, rcall>>
vars == <<svars, restarts, stream, closed, rvars, pending, misread>>

-----------------------------------------------------------------------------
(* CBOR items and blocks.                                                  *)

\* "meant" is no part of the item: it records, for the properties, which name a
\* pid stands for, or which name a key map announces.
Nothing == [act |-> "none", ns |-> GroupsNs, name |-> NoName, pid |-> 0]
Item(kind, n, name, meant) == [kind |-> kind, n |-> n, name |-> name, meant |-> meant]
Uint(n) == Item("uint", n, NoName, Nothing)
Text(name) == Item("text", 0, name, Nothing)
MapIndef == Item("map", 0, NoName, Nothing)
Array(n) == Item("array", n, NoName, Nothing)
Break == Item("break", 0, NoName, Nothing)
PidOf(ns, name, p) == Item("uint", p, NoName, [act |-> "use", ns |-> ns, name |-> name, pid |-> p])
BreakOfKeys(ns, name, p) ==
  Item("break", 0, NoName, [act |-> "define", ns |-> ns, name |-> name, pid |-> p])

Block(type, len, group) == [type |-> type, len |-> len, num_items |-> 0, group |-> group]
Root == <<Block("root", 0, NoGroup)>>
Top(s) == s[Len(s)]
Popped(s) == SubSeq(s, 1, Len(s) - 1)
\* Mutant of Pushed: the new block belongs to no group.
PushedWithoutGroup(s, type, len) == Append(s, Block(type, len, NoGroup))

\* push_block: the new block inherits the group of the one below.
Pushed(s, type, len) == Append(s, Block(type, len, Top(s).group))
WithGroup(s, g) == [s EXCEPT ![Len(s)].group = g]

\* n headers in the innermost block.  Of an indefinite-length block only the
\* parity of num_items is ever read and of the root block nothing at all.
Counted(s, n) ==
  CASE Top(s).type = "root"  -> s
    [] Top(s).type = "map"   -> [s EXCEPT ![Len(s)].num_items = (@ + n) % 2]
    [] Top(s).type = "array" -> [s EXCEPT ![Len(s)].num_items = @ + n]

-----------------------------------------------------------------------------
(* The clients.  Both run the same program text: a call per thing sent.    *)
(* A frame is a group whose attributes are being gone through, an          *)
(* attribute whose item is due, or an array with "left" elements to go.    *)

Frame(kind, group, type, left) == [kind |-> kind, group |-> group, type |-> type, left |-> left]

\* The types of item that may come next.
Due(todo) ==
  IF todo = <<>> THEN {GroupOf(g) : g \in TopGroups}
  ELSE IF Top(todo).left > 0 THEN {Top(todo).type} ELSE {}

\* One item of those is begun; an array stays open until its elements are done.
Begun(todo) ==
  IF todo = <<>> THEN <<>>
  ELSE IF Top(todo).kind = "attr" THEN Popped(todo)
  ELSE [todo EXCEPT ![Len(todo)].left = @ - 1]

EnterGroup(todo, g) == Append(Begun(todo), Frame("group", g, Value, 0))
EnterAttr(todo, g, a) == Append(todo, Frame("attr", g, Type[g][a], 1))
EnterArray(todo, n) ==
  Append(Begun(todo), Frame("array", NoGroup, ElemOf(Top(todo).type), n))
InGroup(todo) == todo # <<>> /\ Top(todo).kind = "group"
AtArrayEnd(todo) == todo # <<>> /\ Top(todo).kind = "array" /\ Top(todo).left = 0

\* What one end says and the other is told.
Said(what, name, n) == [what |-> what, name |-> name, n |-> n]

Init ==
  /\ pid = [ns \in Namespaces |-> [x \in NamesIn(ns) |-> 0]]
  /\ max_pid = [ns \in Namespaces |-> 1]
  /\ sblocks = Root /\ sactive = NoGroup /\ stodo = <<>>
  /\ restarts = 0 /\ stream = <<>> /\ closed = "no"
  /\ pid_to_lid = [ns \in Namespaces |-> <<>>]
  /\ rblocks = Root /\ ractive = NoGroup /\ rtodo = <<>>
  /\ rcall = [at |-> "client", want |-> NoGroup, use |-> "none", name |-> NoName, pid |-> 0]
  /\ pending = <<>> /\ misread = FALSE

-----------------------------------------------------------------------------
(* The sender.                                                             *)

\* lid_to_pid: the name's pid, the next free one at its first use.
LidToPid(ns, name) == IF pid[ns][name] = 0 THEN max_pid[ns] + 1 ELSE pid[ns][name]

\* send_ikg, if this is the first use: pid 1 and a map from the name to its pid.
Keys(ns, name) ==
  IF pid[ns][name] # 0 THEN <<>>
  ELSE LET p == LidToPid(ns, name)
       IN  <<Uint(1), MapIndef, Text(name), Uint(p), BreakOfKeys(ns, name, p)>>

\* Mutant of KeyItems: the map is not counted.
KeyItemsWithoutMap(ns, name) == IF pid[ns][name] # 0 THEN 0 ELSE 1

\* The map of send_ikg counts as one item of the enclosing block, pid 1 as another.
KeyItems(ns, name) == IF pid[ns][name] # 0 THEN 0 ELSE 2

\* Mutant of Assign: max_pid + 1 instead of ++max_pid.
AssignWithoutIncrement(ns, name) ==
  pid' = [pid EXCEPT ![ns][name] = LidToPid(ns, name)] /\ UNCHANGED max_pid

Assign(ns, name) ==
  /\ pid' = [pid EXCEPT ![ns][name] = LidToPid(ns, name)]
  /\ max_pid' = IF pid[ns][name] = 0 THEN [max_pid EXCEPT ![ns] = @ + 1] ELSE max_pid

SenderReady == closed = "no" /\ Len(pending) < MaxInFlight
Say(items, what) == stream' = stream \o items /\ pending' = Append(pending, what)

SendGroup(g) ==
  /\ SenderReady /\ Len(stodo) < MaxDepth
  /\ GroupOf(g) \in Due(stodo)
  /\ Assign(GroupsNs, g)
  /\ Say(<<MapIndef>> \o Keys(GroupsNs, g)
           \o <<Uint(0), PidOf(GroupsNs, g, LidToPid(GroupsNs, g))>>,
         Said("group", g, 0))
  /\ sactive' = g
  /\ sblocks' = Counted(WithGroup(Pushed(Counted(sblocks, 1), "map", 0), g),
                        2 + KeyItems(GroupsNs, g))
  /\ stodo' = EnterGroup(stodo, g)
  /\ UNCHANGED <<restarts, closed, rvars, misread>>

\* cbor_encode_map_end refuses an odd map, end_block a block of another type.
SendGroupEnd ==
  /\ SenderReady /\ InGroup(stodo)
  /\ IF Top(sblocks).num_items = 1 \/ Top(sblocks).type # "map"
     THEN /\ closed' = "failed"
          /\ UNCHANGED <<svars, stream, pending>>
     ELSE /\ Say(<<Break>>, Said("group end", NoName, 0))
          /\ sblocks' = Popped(sblocks)
          /\ sactive' = Top(sblocks').group
          /\ stodo' = Popped(stodo)
          /\ UNCHANGED <<pid, max_pid, closed>>
  /\ UNCHANGED <<restarts, rvars, misread>>

SendId(a) ==
  /\ SenderReady /\ InGroup(stodo) /\ Len(stodo) < MaxDepth
  /\ sactive # NoGroup /\ a \in Attrs[sactive]
  /\ Assign(sactive, a)
  /\ Say(Append(Keys(sactive, a), PidOf(sactive, a, LidToPid(sactive, a))),
         Said("attr", a, 0))
  /\ sblocks' = Counted(sblocks, 1 + KeyItems(sactive, a))
  /\ stodo' = EnterAttr(stodo, sactive, a)
  /\ UNCHANGED <<sactive, restarts, closed, rvars, misread>>

\* nb_send_u32 and its like with ID -1, after the ID was sent or in an array.
SendValue(v) ==
  /\ SenderReady /\ Value \in Due(stodo)
  /\ Say(<<Uint(v)>>, Said("value", NoName, v))
  /\ sblocks' = Counted(sblocks, 1)
  /\ stodo' = Begun(stodo)
  /\ UNCHANGED <<pid, max_pid, sactive, restarts, closed, rvars, misread>>

SendArray(n) ==
  /\ SenderReady
  /\ \E t \in Due(stodo) : t.kind = "array"
  /\ Say(<<Array(n)>>, Said("array", NoName, n))
  /\ sblocks' = Pushed(Counted(sblocks, 1), "array", n)
  /\ stodo' = EnterArray(stodo, n)
  /\ UNCHANGED <<pid, max_pid, sactive, restarts, closed, rvars, misread>>

\* A definite-length array ends with its last element: end_block writes nothing.
SendArrayEnd ==
  /\ SenderReady /\ AtArrayEnd(stodo)
  /\ IF Top(sblocks).type # "array"
     THEN closed' = "failed" /\ UNCHANGED <<sblocks, stodo>>
     ELSE /\ sblocks' = Popped(sblocks)
          /\ stodo' = Popped(stodo)
          /\ UNCHANGED closed
  /\ UNCHANGED <<pid, max_pid, sactive, restarts, stream, rvars, pending, misread>>

\* nb_free and nb_init on the same buffer between two messages: a new struct nb
\* has assigned no pids.
SenderRestart ==
  /\ SenderReady /\ stodo = <<>> /\ restarts < MaxRestarts
  /\ restarts' = restarts + 1
  /\ pid' = [ns \in Namespaces |-> [x \in NamesIn(ns) |-> 0]]
  /\ max_pid' = [ns \in Namespaces |-> 1]
  /\ sblocks' = Root /\ sactive' = NoGroup
  /\ UNCHANGED <<stodo, stream, closed, rvars, pending, misread>>

\* Mutant of SenderClose: the last item stays in the block of the buffer.
SenderCloseUnflushed ==
  /\ closed = "no" /\ stodo = <<>>
  /\ closed' = "cleanly"
  /\ stream' = IF stream = <<>> THEN stream ELSE Popped(stream)
  /\ UNCHANGED <<svars, restarts, rvars, pending, misread>>

\* nb_buffer_delete after the last message: everything is flushed.
SenderClose ==
  /\ closed = "no" /\ stodo = <<>>
  /\ closed' = "cleanly"
  /\ UNCHANGED <<svars, restarts, stream, rvars, pending, misread>>

\* The sender dies: what nb_buffer had not flushed never reaches the stream.
SenderCrash ==
  /\ closed = "no"
  /\ closed' = "crashed"
  /\ \E n \in 0..Len(stream) : stream' = SubSeq(stream, 1, n)
  /\ UNCHANGED <<svars, restarts, rvars, pending, misread>>

-----------------------------------------------------------------------------
(* The receiver.  cs->error_handler and a failed assert end the process, so  *)
(* an error is a place in rcall that nothing leaves.                         *)

Errors == {"NB_ERR_EOF", "NB_ERR_ITEM", "NB_ERR_OPER", "NB_ERR_BREAK", "NB_ERR_NITEMS",
           "NB_ERR_UNDEF_ID", "NB_ERR_OTHER", "assert", "undefined"}
Fail(code) == rcall' = [rcall EXCEPT !.at = code] /\ UNCHANGED <<pending, misread>>
AtClient == rcall.at = "client"
GoTo(at) == rcall' = [rcall EXCEPT !.at = at]
Return ==
  rcall' = [at |-> "client", want |-> NoGroup, use |-> "none", name |-> NoName, pid |-> 0]

\* The client is told "what"; it should be what the sender said next.
Deliver(what) ==
  /\ misread' = (misread \/ pending = <<>> \/ Head(pending) # what)
  /\ pending' = IF pending = <<>> THEN <<>> ELSE Tail(pending)

\* predecode: the next item of the stream.
Reads(kind) == stream # <<>> /\ Head(stream).kind = kind /\ stream' = Tail(stream)
ReadsOther(kind) == stream # <<>> /\ Head(stream).kind # kind /\ stream' = Tail(stream)
Read == Head(stream)

\* The namespace in which the recv_id call in progress looks a pid up.
LookupNs == IF rcall.use = "attr" THEN ractive ELSE GroupsNs

\* Mutant of Ensured: a new array instead of a grown one.
EnsuredWithoutCopy(arr, index) ==
  IF Len(arr) > index THEN arr ELSE [i \in 1..(index + 1) |-> 0]

\* Mutant of Ensured: index for index + 1.
EnsuredOneTooFew(arr, index) ==
  IF Len(arr) >= index THEN arr ELSE arr \o [i \in 1..(index - Len(arr)) |-> 0]

\* array_ensure_index: new entries are zero.
Ensured(arr, index) ==
  IF Len(arr) > index THEN arr
  ELSE arr \o [i \in 1..(index + 1 - Len(arr)) |-> 0]

\* recv_id's guard lets an index one behind the array pass; the memory there is
\* still zero from resize's memset as long as it is within the capacity.
Reported(ns, p) == Len(pid_to_lid[ns]) < p
Lookup(ns, p) == IF p < Len(pid_to_lid[ns]) THEN pid_to_lid[ns][p + 1] ELSE 0
RName(ns, lid) == RLids[ns][lid + 1]

\* Mutant of Learnt: the search has gone past the name.
LearntOneTooFar(ns, name, p) ==
  {[Ensured(pid_to_lid[ns], p) EXCEPT ![p + 1] = i] :
     i \in {j \in 1..Len(RLids[ns]) : RLids[ns][j] = name}}

\* recv_keys: pid_to_lid with the lid of "name" entered under p.
Learnt(ns, name, p) ==
  {[Ensured(pid_to_lid[ns], p) EXCEPT ![p + 1] = lid] :
     lid \in {i \in 0..Len(RLids[ns]) - 1 : RName(ns, i) = name}}

\* nb_recv_group, called by a client that knows what group comes next.
RecvGroup(g) ==
  /\ AtClient /\ GroupOf(g) \in Due(rtodo)
  /\ rtodo = <<>> => pending # <<>> /\ Head(pending) = Said("group", g, 0)
  /\ rcall' = [rcall EXCEPT !.at = "group", !.want = g]
  /\ UNCHANGED <<svars, restarts, stream, closed, pid_to_lid, rblocks, ractive, rtodo,
                 pending, misread>>

RecvGroupMap ==
  /\ rcall.at = "group"
  /\ \/ /\ Reads("map")
        /\ rblocks' = Pushed(Counted(rblocks, 1), "map", 0)
        /\ rcall' = [rcall EXCEPT !.at = "id", !.use = "key 0"]
        /\ UNCHANGED <<pending, misread>>
     \/ ReadsOther("map") /\ Fail("NB_ERR_ITEM") /\ UNCHANGED rblocks
  /\ UNCHANGED <<svars, restarts, closed, pid_to_lid, ractive, rtodo>>

\* recv_id has found an ID: what nb_recv_group and nb_recv_attr do with it.
IdKey0(lid) ==
  /\ rcall.use = "key 0"
  /\ IF lid = 0 THEN rcall' = [rcall EXCEPT !.use = "group"] /\ UNCHANGED <<pending, misread>>
     ELSE Fail("NB_ERR_OTHER")
  /\ rblocks' = Counted(rblocks, 1)
  /\ UNCHANGED <<ractive, rtodo>>

IdGroup(lid) ==
  /\ rcall.use = "group"
  /\ IF RName(GroupsNs, lid) = rcall.want
     THEN /\ ractive' = rcall.want
          /\ rblocks' = WithGroup(Counted(rblocks, 1), rcall.want)
          /\ rtodo' = EnterGroup(rtodo, rcall.want)
          /\ Deliver(Said("group", rcall.want, 0))
          /\ Return
     ELSE Fail("NB_ERR_OTHER") /\ UNCHANGED <<rblocks, ractive, rtodo>>

IdAttr(lid) ==
  /\ rcall.use = "attr"
  /\ rblocks' = Counted(rblocks, 1)
  /\ rtodo' = EnterAttr(rtodo, ractive, RName(ractive, lid))
  /\ Deliver(Said("attr", RName(ractive, lid), 0))
  /\ Return
  /\ UNCHANGED ractive

\* recv_id.  decode_uint takes the u64 of whatever item comes, which is not
\* set for some of them.
RecvId ==
  /\ rcall.at = "id"
  /\ \/ /\ Reads("uint") /\ Read.n = 1
        /\ rblocks' = Counted(rblocks, 1)
        /\ GoTo("keys map")
        /\ UNCHANGED <<ractive, rtodo, pending, misread>>
     \/ /\ Reads("uint") /\ Read.n # 1 /\ Reported(LookupNs, Read.n)
        /\ Fail("NB_ERR_UNDEF_ID")
        /\ UNCHANGED <<rblocks, ractive, rtodo>>
     \/ /\ Reads("uint") /\ Read.n # 1 /\ ~Reported(LookupNs, Read.n)
        /\ LET lid == Lookup(LookupNs, Read.n)
           IN  IdKey0(lid) \/ IdGroup(lid) \/ IdAttr(lid)
     \/ ReadsOther("uint") /\ Fail("undefined") /\ UNCHANGED <<rblocks, ractive, rtodo>>
  /\ UNCHANGED <<svars, restarts, closed, pid_to_lid>>

\* Mutant of RecvKeysMap: the map is not counted in the enclosing block.
RecvKeysMapUncounted ==
  /\ rcall.at = "keys map"
  /\ Reads("map")
  /\ rblocks' = Pushed(rblocks, "map", 0)
  /\ GoTo("keys name")
  /\ UNCHANGED <<svars, restarts, closed, pid_to_lid, ractive, rtodo, pending, misread>>

\* recv_keys: a map of indefinite length from one name to its pid.
RecvKeysMap ==
  /\ rcall.at = "keys map"
  /\ \/ /\ Reads("map")
        /\ rblocks' = Pushed(Counted(rblocks, 1), "map", 0)
        /\ GoTo("keys name") /\ UNCHANGED <<pending, misread>>
     \/ ReadsOther("map") /\ Fail("NB_ERR_ITEM") /\ UNCHANGED rblocks
  /\ UNCHANGED <<svars, restarts, closed, pid_to_lid, ractive, rtodo>>

RecvKeysName ==
  /\ rcall.at = "keys name"
  /\ \/ /\ Reads("text")
        /\ rblocks' = Counted(rblocks, 1)
        /\ rcall' = [rcall EXCEPT !.at = "keys pid", !.name = Read.name]
        /\ UNCHANGED <<pending, misread>>
     \/ ReadsOther("text") /\ Fail("NB_ERR_ITEM") /\ UNCHANGED rblocks
  /\ UNCHANGED <<svars, restarts, closed, pid_to_lid, ractive, rtodo>>

RecvKeysPid ==
  /\ rcall.at = "keys pid"
  /\ \/ /\ Reads("uint")
        /\ rblocks' = Counted(rblocks, 1)
        /\ rcall' = [rcall EXCEPT !.at = "keys end", !.pid = Read.n]
        /\ UNCHANGED <<pending, misread>>
     \/ ReadsOther("uint") /\ Fail("undefined") /\ UNCHANGED rblocks
  /\ UNCHANGED <<svars, restarts, closed, pid_to_lid, ractive, rtodo>>

\* Mutant of RecvKeysEnd: it goes on as if another key map followed.
RecvKeysEndNoRetry ==
  /\ rcall.at = "keys end" /\ Reads("break")
  /\ rblocks' = Popped(rblocks)
  /\ \E new \in Learnt(LookupNs, rcall.name, rcall.pid) :
       pid_to_lid' = [pid_to_lid EXCEPT ![LookupNs] = new]
  /\ GoTo("keys map")
  /\ UNCHANGED <<svars, restarts, closed, ractive, rtodo, pending, misread>>

\* The end of the map, then the search for the name among the receiver's own.
RecvKeysEnd ==
  /\ rcall.at = "keys end"
  /\ \/ /\ Reads("break")
        /\ rblocks' = Popped(rblocks)
        /\ LET learnt == Learnt(LookupNs, rcall.name, rcall.pid)
           IN  \/ /\ \E new \in learnt : pid_to_lid' = [pid_to_lid EXCEPT ![LookupNs] = new]
                  /\ GoTo("id") /\ UNCHANGED <<pending, misread>>
               \/ learnt = {} /\ Fail("assert") /\ UNCHANGED pid_to_lid
     \/ ReadsOther("break") /\ Fail("NB_ERR_BREAK") /\ UNCHANGED <<rblocks, pid_to_lid>>
  /\ UNCHANGED <<svars, restarts, closed, ractive, rtodo>>

\* nb_recv_attr peeks: a break means that the group has no more attributes. The end of the
\* stream is no break; there recv_id fails with NB_ERR_EOF.
AtBreak == stream # <<>> /\ Read.kind = "break"

RecvAttr ==
  /\ AtClient /\ InGroup(rtodo)
  /\ stream # <<>> \/ closed # "no"
  /\ IF AtBreak THEN GoTo("group end")
     ELSE IF ractive # NoGroup THEN rcall' = [rcall EXCEPT !.at = "id", !.use = "attr"]
     ELSE GoTo("NB_ERR_OPER")
  /\ UNCHANGED <<pending, misread>>
  /\ UNCHANGED <<svars, restarts, stream, closed, pid_to_lid, rblocks, ractive, rtodo>>

RecvGroupEnd ==
  /\ rcall.at = "group end"
  /\ \/ /\ Top(rblocks).group # NoGroup /\ Top(rblocks).type = "map" /\ Reads("break")
        /\ rblocks' = Popped(rblocks)
        /\ ractive' = Top(rblocks').group
        /\ rtodo' = Popped(rtodo)
        /\ Deliver(Said("group end", NoName, 0))
        /\ Return
     \/ /\ Top(rblocks).group = NoGroup \/ Top(rblocks).type # "map"
        /\ Fail(IF Top(rblocks).group = NoGroup THEN "assert" ELSE "NB_ERR_OPER")
        /\ UNCHANGED <<stream, rblocks, ractive, rtodo>>
  /\ UNCHANGED <<svars, restarts, closed, pid_to_lid>>

RecvValue ==
  /\ AtClient /\ Value \in Due(rtodo)
  /\ \/ /\ Reads("uint")
        /\ rblocks' = Counted(rblocks, 1)
        /\ rtodo' = Begun(rtodo)
        /\ Deliver(Said("value", NoName, Read.n))
        /\ UNCHANGED rcall
     \/ ReadsOther("uint") /\ Fail("undefined") /\ UNCHANGED <<rblocks, rtodo>>
  /\ UNCHANGED <<svars, restarts, closed, pid_to_lid, ractive>>

RecvArray ==
  /\ AtClient /\ \E t \in Due(rtodo) : t.kind = "array"
  /\ \/ /\ Reads("array")
        /\ rblocks' = Pushed(Counted(rblocks, 1), "array", Read.n)
        /\ rtodo' = EnterArray(rtodo, Read.n)
        /\ Deliver(Said("array", NoName, Read.n))
        /\ UNCHANGED rcall
     \/ ReadsOther("array") /\ Fail("NB_ERR_ITEM") /\ UNCHANGED <<rblocks, rtodo>>
  /\ UNCHANGED <<svars, restarts, closed, pid_to_lid, ractive>>

\* decode_block_end compares the items counted with the length announced.
RecvArrayEnd ==
  /\ AtClient /\ AtArrayEnd(rtodo)
  /\ IF Top(rblocks).type = "array" /\ Top(rblocks).num_items = Top(rblocks).len
     THEN /\ rblocks' = Popped(rblocks)
          /\ rtodo' = Popped(rtodo)
          /\ UNCHANGED <<rcall, pending, misread>>
     ELSE Fail("NB_ERR_OPER") /\ UNCHANGED <<rblocks, rtodo>>
  /\ UNCHANGED <<svars, restarts, stream, closed, pid_to_lid, ractive>>

\* The stream ends where an item is due.
RecvEof ==
  /\ stream = <<>> /\ closed # "no"
  /\ rcall.at \notin Errors
  /\ AtClient => rtodo # <<>> /\ \E t \in Due(rtodo) : t.kind # "group"
  /\ Fail("NB_ERR_EOF")
  /\ UNCHANGED <<svars, restarts, stream, closed, pid_to_lid, rblocks, ractive, rtodo>>

\* A receiver with a fresh struct nb goes on reading between two messages.
ReceiverRestart ==
  /\ LateReceiver /\ AtClient /\ rtodo = <<>>
  /\ pid_to_lid' = [ns \in Namespaces |-> <<>>]
  /\ rblocks' = Root /\ ractive' = NoGroup
  /\ UNCHANGED <<svars, restarts, stream, closed, rtodo, rcall, pending, misread>>

-----------------------------------------------------------------------------
Send ==
  \/ \E g \in Groups : SendGroup(g)
  \/ \E a \in UNION {Attrs[g] : g \in Groups} : SendId(a)
  \/ \E v \in Values : SendValue(v)
  \/ \E n \in 0..MaxElems : SendArray(n)
  \/ SendGroupEnd \/ SendArrayEnd
  \/ SenderRestart \/ SenderClose \/ SenderCrash

Receive ==
  \/ \E g \in Groups : RecvGroup(g)
  \/ RecvGroupMap \/ RecvId
  \/ RecvKeysMap \/ RecvKeysName \/ RecvKeysPid \/ RecvKeysEnd
  \/ RecvAttr \/ RecvGroupEnd \/ RecvValue \/ RecvArray \/ RecvArrayEnd
  \/ RecvEof

Next == Send \/ Receive \/ ReceiverRestart

\* The receiving process runs; the sender may do nothing for ever.
Spec == Init /\ [][Next]_vars /\ WF_vars(Receive)

-----------------------------------------------------------------------------
(* Properties.                                                             *)

Calls == {"client", "group", "id", "keys map", "keys name", "keys pid", "keys end",
          "group end"} \cup Errors

\* Types; pid_to_lid holds nothing but lids of the receiver.
TypeOK ==
  /\ \A ns \in Namespaces : pid[ns] \in [NamesIn(ns) -> Nat] /\ max_pid[ns] \in Nat
  /\ sactive \in Groups \cup {NoGroup} /\ ractive \in Groups \cup {NoGroup}
  /\ closed \in {"no", "cleanly", "crashed", "failed"} /\ restarts \in 0..MaxRestarts
  /\ \A ns \in Namespaces : pid_to_lid[ns] \in Seq(0..Len(RLids[ns]) - 1)
  /\ rcall.at \in Calls /\ rcall.use \in {"none", "key 0", "group", "attr"}
  /\ misread \in BOOLEAN
  /\ \A b \in {sblocks, rblocks} : \A i \in 1..Len(b) :
       b[i].type \in {"root", "map", "array"} /\ b[i].group \in Groups \cup {NoGroup}

\* The receiving client is told what the sending client said, in the same order,
\* nothing else and nothing twice: whatever the two numberings of the names, the
\* values that look like pids, the restarts of the sender, and where the stream
\* breaks off.
ReceivedAsSent == ~misread

\* A receiver whose sender lives, or has closed the stream between two messages,
\* never runs into an error of the decoder or of recv_id, and an abrupt end of
\* the stream is reported as the end of the stream.  A receiver that takes over a
\* stream in progress may have to report an undefined ID besides, and no other.
OnlyEofFails ==
  rcall.at \in Errors =>
    \/ rcall.at = "NB_ERR_EOF" /\ closed = "crashed"
    \/ rcall.at = "NB_ERR_UNDEF_ID" /\ LateReceiver

\* The sender's own checks (odd map, block of another type) never fire.
SenderNeverFails == closed # "failed"

\* Between calls nb->active_group is, at either end, the group whose attributes
\* the client is going through, also behind nested groups and arrays.
ActiveGroupIsInnermost ==
  /\ InGroup(stodo) => sactive = Top(stodo).group
  /\ InGroup(rtodo) /\ AtClient => ractive = Top(rtodo).group

\* Both ends agree on the open blocks and on the items counted in them whenever
\* the receiver has caught up and no array is about to be closed at either end.
BlocksAgree ==
  (/\ stream = <<>> /\ pending = <<>> /\ closed = "no" /\ AtClient
   /\ ~AtArrayEnd(stodo) /\ ~AtArrayEnd(rtodo))
    => rblocks = sblocks

\* Everything sent before a clean close arrives.
CleanCloseDelivers == closed = "cleanly" ~> pending = <<>>

\* A receiver that keeps up lets the sender go on: a full stream drains.
FullStreamDrains ==
  Len(pending) = MaxInFlight /\ closed = "no" ~> Len(pending) < MaxInFlight \/ closed # "no"

\* error.h:25, NB_ERR_UNDEF_ID, "an ID was used prior to being defined": recv_id
\* either reports a pid or takes it for the name the sender meant by it, also
\* when sender or receiver has started afresh.
PidUnderstoodOrReported ==
  (rcall.at = "id" /\ stream # <<>> /\ Read.meant.act = "use")
    => \/ Reported(LookupNs, Read.n)
       \/ /\ LookupNs = Read.meant.ns
          /\ RName(LookupNs, Lookup(LookupNs, Read.n)) = Read.meant.name

-----------------------------------------------------------------------------
(* The exchange of names.                                                  *)

AllNames == Groups \cup UNION {Attrs[g] : g \in Groups}
AllPids == [ns \in Namespaces |->
              [x \in AllNames |-> IF x \in NamesIn(ns) THEN pid[ns][x] ELSE 0]]

\* The definitions and uses of pids among the items of s.
Heard(messages, item) ==
  IF item.meant.act = "none" THEN messages ELSE Append(messages, item.meant)
Messages(s) ==
  LET upTo[i \in 0..Len(s)] == IF i = 0 THEN <<>> ELSE Heard(upTo[i - 1], s[i])
  IN  upTo[Len(s)]

Dictionary == INSTANCE NbDictionary WITH
  Names <- AllNames,
  MaxWire <- 2 * MaxInFlight + 1,
  pid <- AllPids,
  open <- closed = "no",
  wire <- Messages(stream)

\* Among the items of the stream, the calls of the two clients, the blocks and
\* the loop of recv_id, names are exchanged as NbDictionary says, for which it
\* is proved that every ID is understood.
ExchangesNames == Dictionary!Spec
=============================================================================
