----------------------------- MODULE HandleTable -----------------------------
(***************************************************************************)
(* The fixed-capacity handle table of the kernel, kernel/src/handles.      *)
(* A table is a value [entries, next]; the IPC broker and the block broker *)
(* each instantiate this module with their own limits.  A slot number is   *)
(* never observable, so the entries are a set; a rights byte is the set of *)
(* its bits.                                                               *)
(***************************************************************************)
EXTENDS Naturals, FiniteSets

CONSTANTS Capacity,      \* slots of the table
          PerOwner,      \* live entries one owner may hold
          IdSpace,       \* 2^56 in the code: identities below the domain byte
          Domain,        \* the domain byte of every identity
          Allowed,       \* rights a grant may carry
          TransferRight  \* the right a transfer needs, {} when there is none

New == [entries |-> {}, next |-> 1]

\* Mutant of NextId: retired identities are issued again.
NextIdReuses(t) ==
    Domain * IdSpace + (CHOOSE n \in 1 .. IdSpace :
        /\ \A e \in t.entries : e.id # Domain * IdSpace + n
        /\ \A m \in 1 .. n - 1 : \E e \in t.entries : e.id = Domain * IdSpace + m)

\* The identity the next grant or transfer issues: domain << 56 | next.
NextId(t) == Domain * IdSpace + t.next

CounterLeft(t) == t.next + 1 < IdSpace

Room(t, owner) ==
    Cardinality({e \in t.entries : e.owner = owner}) < PerOwner

\* The entry an owner names with an identity: a set of at most one entry.
Held(t, owner, id) == {e \in t.entries : e.id = id /\ e.owner = owner}

CanGrant(t, owner, rights) ==
    /\ rights # {} /\ rights \subseteq Allowed
    /\ Room(t, owner)
    /\ Cardinality(t.entries) < Capacity
    /\ CounterLeft(t)

Grant(t, owner, object, rights) ==
    [entries |-> t.entries \cup {[id     |-> NextId(t), owner  |-> owner,
                                  object |-> object,    rights |-> rights]},
     next    |-> t.next + 1]

Resolves(t, owner, id, right) ==
    \E e \in Held(t, owner, id) : right \subseteq e.rights

Resolve(t, owner, id) == (CHOOSE e \in Held(t, owner, id) : TRUE).object

Remove(t, owner, id) ==
    [t EXCEPT !.entries = @ \ Held(t, owner, id)]

\* Mutant of CanTransfer: the requested rights are not compared with the held ones.
CanTransferAmplified(t, owner, id, target, rights) ==
    /\ \E e \in Held(t, owner, id) : TransferRight # {} /\ TransferRight \subseteq e.rights
    /\ rights # {}
    /\ target # owner => Room(t, target)
    /\ CounterLeft(t)

CanTransfer(t, owner, id, target, rights) ==
    /\ \E e \in Held(t, owner, id) :
          /\ TransferRight # {} /\ TransferRight \subseteq e.rights
          /\ rights # {} /\ rights \subseteq e.rights
    /\ target # owner => Room(t, target)
    /\ CounterLeft(t)

\* The slot keeps its object; the identity is fresh, so the old one is dead.
Transfer(t, owner, id, target, rights) ==
    [entries |-> (t.entries \ Held(t, owner, id)) \cup
                 {[id     |-> NextId(t),             owner  |-> target,
                   object |-> Resolve(t, owner, id), rights |-> rights]},
     next    |-> t.next + 1]

RemoveOwners(t, owners) ==
    [t EXCEPT !.entries = {e \in @ : e.owner \notin owners}]
=============================================================================
