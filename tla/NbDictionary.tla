----------------------------- MODULE NbDictionary ---------------------------
(***************************************************************************)
(* How sender and receiver agree on names: lid_to_pid and send_ikg of      *)
(* send.c, recv_keys and recv_id of receive.c, and nothing else of the     *)
(* protocol.  The wire carries definitions of pids and uses of them, in    *)
(* the order in which they are written; everything between them (maps,     *)
(* values, the reserved pids 0 and 1) is left out.  Netbufs.tla implements *)
(* this module.                                                            *)
(***************************************************************************)
EXTENDS Integers, Sequences

CONSTANTS
  Namespaces,  \* the groups, and the namespace of the groups themselves
  Names,       \* the names of groups and attributes
  RLids,       \* RLids[ns]: the names in ns in the order of the receiver's lids
  MaxWire      \* bound: messages not yet received

ASSUME DictionaryAssumption ==
  RLids \in [Namespaces -> Seq(Names)] /\ MaxWire \in Nat

VARIABLES
  pid,        \* sender: attr->pid of every name, 0 until its first use
  max_pid,    \* sender: group->max_pid
  open,       \* the sender may still write
  wire,       \* messages written and not yet received
  pid_to_lid  \* receiver: group->pid_to_lid

vars == <<pid, max_pid, open, wire, pid_to_lid>>

Define(ns, name, p) == [act |-> "define", ns |-> ns, name |-> name, pid |-> p]
Use(ns, name, p) == [act |-> "use", ns |-> ns, name |-> name, pid |-> p]

Init ==
  /\ pid = [ns \in Namespaces |-> [name \in Names |-> 0]]
  /\ max_pid = [ns \in Namespaces |-> 1]
  /\ open = TRUE
  /\ wire = <<>>
  /\ pid_to_lid = [ns \in Namespaces |-> <<>>]

-----------------------------------------------------------------------------
(* The sender.                                                             *)

\* lid_to_pid for a name that has a pid.
SendKnown(ns, name) ==
  /\ open /\ Len(wire) < MaxWire
  /\ pid[ns][name] # 0
  /\ wire' = Append(wire, Use(ns, name, pid[ns][name]))
  /\ UNCHANGED <<pid, max_pid, open, pid_to_lid>>

\* Mutant of SendNew: max_pid + 1 instead of ++max_pid.
SendNewWithoutIncrement(ns, name) ==
  /\ open /\ Len(wire) < MaxWire
  /\ pid[ns][name] = 0
  /\ pid' = [pid EXCEPT ![ns][name] = max_pid[ns] + 1]
  /\ wire' = wire \o <<Define(ns, name, max_pid[ns] + 1), Use(ns, name, max_pid[ns] + 1)>>
  /\ UNCHANGED <<max_pid, open, pid_to_lid>>

\* lid_to_pid at the first use of a name: the next pid, announced by send_ikg.
SendNew(ns, name) ==
  /\ open /\ Len(wire) < MaxWire
  /\ pid[ns][name] = 0
  /\ pid' = [pid EXCEPT ![ns][name] = max_pid[ns] + 1]
  /\ max_pid' = [max_pid EXCEPT ![ns] = @ + 1]
  /\ wire' = wire \o <<Define(ns, name, max_pid[ns] + 1), Use(ns, name, max_pid[ns] + 1)>>
  /\ UNCHANGED <<open, pid_to_lid>>

\* nb_init: a new struct nb on the same stream has given out no pids.
Restart ==
  /\ open
  /\ pid' = [ns \in Namespaces |-> [name \in Names |-> 0]]
  /\ max_pid' = [ns \in Namespaces |-> 1]
  /\ UNCHANGED <<open, wire, pid_to_lid>>

\* The sender closes the stream or dies; what was not flushed is lost.
BreakOff ==
  /\ open
  /\ open' = FALSE
  /\ \E n \in 0..Len(wire) : wire' = SubSeq(wire, 1, n)
  /\ UNCHANGED <<pid, max_pid, pid_to_lid>>

-----------------------------------------------------------------------------
(* The receiver.                                                           *)

\* array_ensure_index: new entries are zero.
Ensured(arr, index) ==
  IF Len(arr) > index THEN arr
  ELSE arr \o [i \in 1..(index + 1 - Len(arr)) |-> 0]

\* Mutant of Learnt: the array does not grow.
LearntNotGrown(arr, p, lid) ==
  IF p < Len(arr) THEN [arr EXCEPT ![p + 1] = lid] ELSE arr

\* recv_keys: pid_to_lid with one lid entered.
Learnt(arr, p, lid) == [Ensured(arr, p) EXCEPT ![p + 1] = lid]

\* The guard of recv_id and what it returns behind the guard.
Reported(ns, p) == Len(pid_to_lid[ns]) < p
Lookup(ns, p) == IF p < Len(pid_to_lid[ns]) THEN pid_to_lid[ns][p + 1] ELSE 0
RName(ns, lid) == RLids[ns][lid + 1]

\* recv_keys: the lid of the name goes into pid_to_lid.  With a name that the
\* receiver does not have, the assert on "found" ends the process.
RecvKeys ==
  /\ wire # <<>> /\ Head(wire).act = "define"
  /\ LET ns == Head(wire).ns
         p == Head(wire).pid
     IN  \E lid \in 0..Len(RLids[ns]) - 1 :
           /\ RName(ns, lid) = Head(wire).name
           /\ pid_to_lid' = [pid_to_lid EXCEPT ![ns] = Learnt(@, p, lid)]
  /\ wire' = Tail(wire)
  /\ UNCHANGED <<pid, max_pid, open>>

\* recv_id: an ID that is not reported is taken for RName(ns, Lookup(ns, p)).
RecvId ==
  /\ wire # <<>> /\ Head(wire).act = "use"
  /\ ~Reported(Head(wire).ns, Head(wire).pid)
  /\ wire' = Tail(wire)
  /\ UNCHANGED <<pid, max_pid, open, pid_to_lid>>

-----------------------------------------------------------------------------
Next ==
  \/ \E ns \in Namespaces, name \in Names : SendKnown(ns, name) \/ SendNew(ns, name)
  \/ Restart \/ BreakOff
  \/ RecvKeys \/ RecvId

Spec == Init /\ [][Next]_vars

-----------------------------------------------------------------------------
(* Properties.                                                             *)

Message == [act : {"define", "use"}, ns : Namespaces, name : Names, pid : Nat \ {0, 1}]

\* Types; the reserved pids 0 and 1 are never put on the wire for a name.
TypeOK ==
  /\ pid \in [Namespaces -> [Names -> Nat]]
  /\ max_pid \in [Namespaces -> Nat]
  /\ open \in BOOLEAN
  /\ wire \in Seq(Message)
  /\ pid_to_lid \in [Namespaces -> Seq(Nat)]

\* An ID is never reported as undefined and always taken for the name the sender
\* meant by it, whatever the order of first uses, the receiver's own numbering,
\* the delay of the wire and the restarts of the sender.
IdsUnderstood ==
  wire # <<>> /\ Head(wire).act = "use" =>
    LET m == Head(wire)
    IN  /\ ~Reported(m.ns, m.pid)
        /\ RName(m.ns, Lookup(m.ns, m.pid)) = m.name

-----------------------------------------------------------------------------
(* Why it holds: at every point of the wire a pid in use stands for the    *)
(* name meant, by the last definition before that point or, where there is *)
(* none, by what the receiver has learnt already.                          *)

Known(ns, p, name) ==
  /\ p < Len(pid_to_lid[ns])
  /\ RName(ns, pid_to_lid[ns][p + 1]) = name

Redefines(m, ns, p) == m.act = "define" /\ m.ns = ns /\ m.pid = p

\* What holds for the receiver when it has taken the first i messages.
StandsFor(i, ns, p, name) ==
  \/ /\ Known(ns, p, name)
     /\ \A k \in 1..i : ~Redefines(wire[k], ns, p)
  \/ \E j \in 1..i :
       /\ Redefines(wire[j], ns, p) /\ wire[j].name = name
       /\ \A k \in (j + 1)..i : ~Redefines(wire[k], ns, p)

UsesStand ==
  \A i \in 1..Len(wire) :
    wire[i].act = "use" => StandsFor(i - 1, wire[i].ns, wire[i].pid, wire[i].name)

AssignedStand ==
  open => \A ns \in Namespaces, name \in Names :
            pid[ns][name] # 0 => StandsFor(Len(wire), ns, pid[ns][name], name)

PidsInRange ==
  \A ns \in Namespaces :
    /\ max_pid[ns] >= 1
    /\ \A name \in Names : pid[ns][name] # 0 => pid[ns][name] \in 2..max_pid[ns]

\* The inductive invariant: all of this at once (send.c:35 to receive.c:76).
Inv == TypeOK /\ PidsInRange /\ UsesStand /\ AssignedStand
=============================================================================
