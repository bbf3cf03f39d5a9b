---------------------------- MODULE VolumeFormat ----------------------------
(***************************************************************************)
(* The on-disk volume of crates/fs, formats 1 to 5: two metadata banks and *)
(* two extents per object.  A bank is a header, the node sectors and, from *)
(* format 2 on, the recovery sectors.  The header carries checksums of the *)
(* other sectors of its bank; here it carries the metadata itself, so that *)
(* "the checksum matches" reads "the sectors hold what the header names"   *)
(* (no collisions).  A sector holds a value, nothing yet (Zero) or the mix *)
(* an interrupted write leaves (Torn).                                     *)
(***************************************************************************)
EXTENDS Naturals, Sequences, FiniteSetsExt

CONSTANTS OBJECTS,   \* object slots of a volume
          RETAINED,  \* retained operation records
          None, Zero, Torn

Banks   == 0..1
Objects == 1..OBJECTS
Slots   == 1..RETAINED

\* Identities below 5 are the four fixed directories.
FirstId == 5

Header(b)          == <<"header", b>>
NodeSector(b, i)   == <<"node", b, i>>
StateSector(b)     == <<"state", b>>
RecordSector(b, i) == <<"record", b, i>>
DataSector(i, b, half) == <<"data", i, b, half>>

Sectors ==
    {Header(b) : b \in Banks} \cup {StateSector(b) : b \in Banks}
    \cup {NodeSector(b, i) : b \in Banks, i \in Objects}
    \cup {RecordSector(b, i) : b \in Banks, i \in Slots}
    \cup {DataSector(i, b, half) : i \in Objects, b \in Banks, half \in 1..2}

EmptyNode(id, version) == [id |-> id, version |-> version, bank |-> 0, data |-> None]

\* What a fresh volume publishes; without a provisioned lineage it has no recovery bank.
InitialMetadata(format) ==
    [sequence |-> 1, next |-> FirstId, format |-> format,
     nodes |-> [i \in Objects |-> None],
     epoch |-> IF format = 1 THEN 0 ELSE 1, records |-> [i \in Slots |-> None]]

Records(m) == {m.records[i] : i \in Slots} \ {None}
Nodes(m)   == {m.nodes[i] : i \in Objects} \ {None}

Stamps(r) == {r.committed, r.number, r.terminal} \ {0}
SameToken(r, q) == /\ r.subject = q.subject /\ r.scoped = q.scoped
                   /\ r.epoch = q.epoch /\ r.key = q.key

\* An admission's state agrees with its receipt and with the volume's history.
ValidAdmission(m, r) ==
    r.state # "None" =>
       /\ m.format >= 4
       /\ m.format = 4 => r.reason \in {"None", "Unknown"}
       /\ r.reason # "None" <=> r.state = "Cancelled"
       /\ r.number \in 1..m.sequence
       /\ r.previous < r.number
       /\ r.scoped
       /\ CASE r.state = "Admitted"  -> r.terminal = 0 /\ r.committed = 0
            [] r.state = "Cancelled" -> r.terminal \in (r.number + 1)..m.sequence /\ r.committed = 0
            [] r.state = "Committed" -> r.terminal \in (r.number + 1)..m.sequence /\ r.committed = r.terminal

ValidRecord(m, r) ==
    /\ ValidAdmission(m, r)
    /\ r.epoch = m.epoch
    /\ r.id \in FirstId..(m.next - 1)
    /\ r.previous # 0
    /\ r.state = "None" => r.previous < r.committed
    /\ r.committed <= m.sequence
    /\ r.scoped => m.format >= 3

ValidRecovery(m) ==
    /\ m.epoch \in 1..m.sequence
    /\ \A i \in Slots :
          m.records[i] # None =>
             /\ ValidRecord(m, m.records[i])
             /\ \A j \in 1..(i - 1) :
                   m.records[j] # None =>
                      /\ Stamps(m.records[i]) \cap Stamps(m.records[j]) = {}
                      /\ ~SameToken(m.records[i], m.records[j])

\* The checks a reader makes on metadata whose checksums match.
Valid(m) ==
    /\ m.sequence # 0 /\ m.next >= FirstId
    /\ \A i \in Objects :
          m.nodes[i] # None =>
             /\ m.nodes[i].id < m.next
             /\ m.nodes[i].version \in 1..m.sequence
             /\ \A j \in 1..(i - 1) : m.nodes[j] # None => m.nodes[j].id # m.nodes[i].id
    /\ m.format >= 2 => ValidRecovery(m)

RecoveryState(m) == <<m.format, m.epoch>>

\* The metadata of one bank; Zero: the bank was never published; Torn: it is corrupt.
ReadBank(disk, b) ==
    LET m == disk[Header(b)] IN
    IF m = Zero \/ m = Torn THEN m
    ELSE IF /\ \A i \in Objects : disk[NodeSector(b, i)] = m.nodes[i]
            /\ m.format >= 2 => /\ disk[StateSector(b)] = RecoveryState(m)
                                /\ \A i \in Slots : disk[RecordSector(b, i)] = m.records[i]
            /\ Valid(m)
         THEN m
         ELSE Torn

\* The bank a mount selects; None: the volume does not mount.
Select(disk) ==
    LET a == ReadBank(disk, 0)
        b == ReadBank(disk, 1)
        Found(m) == m \notin {Zero, Torn}
        Mounted(m, bank) == [metadata |-> m, bank |-> bank, poisoned |-> FALSE]
    IN  CASE Found(a) /\ Found(b) /\ a.sequence = b.sequence -> IF a = b THEN Mounted(a, 0) ELSE None
          [] Found(a) /\ (Found(b) => a.sequence > b.sequence) -> Mounted(a, 0)
          [] Found(b) /\ (Found(a) => b.sequence > a.sequence) -> Mounted(b, 1)
          [] OTHER -> None

\* A file whose extent holds the bytes its node names; an empty file has no extent.
ReadsBack(disk, m, i) ==
    (m.nodes[i] # None /\ m.nodes[i].data # None) =>
        \A half \in 1..2 : disk[DataSector(i, m.nodes[i].bank, half)] = m.nodes[i].data

Put(sector, value) == [op |-> "write", sector |-> sector, value |-> value]
Flush == [op |-> "flush", sector |-> None, value |-> None]

\* A mistaken order: the header is not held back until its bank is on the medium.
MetadataCommandsHeaderFirst(m, b) ==
    (IF m.format >= 2
     THEN <<Put(StateSector(b), RecoveryState(m))>>
          \o [i \in Slots |-> Put(RecordSector(b, i), m.records[i])]
     ELSE <<>>)
    \o [i \in Objects |-> Put(NodeSector(b, i), m.nodes[i])]
    \o <<Put(Header(b), m), Flush, Flush>>

\* The ordered commands that publish m in bank b.
MetadataCommands(m, b) ==
    (IF m.format >= 2
     THEN <<Put(StateSector(b), RecoveryState(m))>>
          \o [i \in Slots |-> Put(RecordSector(b, i), m.records[i])]
     ELSE <<>>)
    \o [i \in Objects |-> Put(NodeSector(b, i), m.nodes[i])]
    \o <<Flush, Put(Header(b), m), Flush>>

WriteSteps(m) == (IF m.format >= 2 THEN 1 + RETAINED ELSE 0) + OBJECTS + 3

\* The commands that fill the inactive extent of object i.
DataCommands(m, i, bytes) ==
    << Put(DataSector(i, m.nodes[i].bank, 1), bytes),
       Put(DataSector(i, m.nodes[i].bank, 2), bytes), Flush >>
=============================================================================
