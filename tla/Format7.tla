------------------------------ MODULE Format7 -------------------------------
(***************************************************************************)
(* What a volume of format 7 keeps on disk (crates/fs/src/format7): two    *)
(* generations of headers, nodes, allocation map and retained records over *)
(* one payload region, the rules that make a generation valid, and how a   *)
(* mount chooses one.  A header stands for its checksums: it carries the   *)
(* tables it names.  Files are flat objects; directories and names are     *)
(* left out.  A payload is a sequence of sector contents and stands for    *)
(* its own checksum.                                                       *)
(***************************************************************************)
EXTENDS Naturals, Sequences, FiniteSets, SequencesExt

CONSTANTS None,      \* an empty slot
          Zero,      \* a sector never written
          Torn,      \* a sector whose write was cut
          NODES,     \* files a volume can hold
          RETAINED,  \* records it can retain
          DATA,      \* payload sectors
          MAX_EXTENTS  \* runs of sectors a payload may be spread over, 8 in the code

NextMin == 5

Header(g)  == <<"header", g>>
Tables(g)  == <<"tables", g>>
Payload(s) == <<"payload", s>>

Put(sector, value) == [op |-> "write", sector |-> sector, value |-> value]
Flush == [op |-> "flush"]

Data == 1..DATA

Sectors == {<<kind, g>> : kind \in {"header", "tables"}, g \in 0..1}
           \cup {Payload(s) : s \in Data}

\* Nodes, map and receipts, in the order they are written.
TablesOf(g) == <<g.nodes, g.map, g.records>>

Live(table) == {table[i] : i \in DOMAIN table} \ {None}

Nodes(id, g) == {n \in Live(g.nodes) : n.id = id}

InitialGeneration ==
    [sequence |-> 1, epoch |-> 1, next |-> NextMin, map |-> {},
     nodes |-> [i \in 1..NODES |-> None], records |-> [i \in 1..RETAINED |-> None]]

---------------------------------------------------------------------------
(* Validity of a generation *)

IsCommitted(r) == r.state \in {"DirectCommitted", "AdmittedCommitted"}

\* What one record proves about itself.
LocallyValid(r) ==
    /\ r.previous >= 1
    /\ (r.reason # None) = (r.state = "Cancelled")
    /\ CASE r.state = "DirectCommitted" -> r.number = 0 /\ r.terminal = r.committed /\ r.committed > r.previous
         [] r.state = "Admitted"  -> r.committed = 0 /\ r.terminal = 0 /\ r.number > r.previous
         [] r.state = "Cancelled" -> r.committed = 0 /\ r.terminal > r.number /\ r.number > r.previous
         [] OTHER                 -> r.committed = r.terminal /\ r.terminal > r.number /\ r.number > r.previous
    /\ r.epoch <= (IF r.state = "DirectCommitted" THEN r.committed ELSE r.number)
    /\ Len(r.sectors) = Len(r.content)

SameContent(r, n) == n.content = r.content /\ n.sectors = r.sectors

\* A committed record may share the sectors of the file version it committed.
Aliases(r, g) ==
    /\ IsCommitted(r)
    /\ \E n \in Nodes(r.object, g) : n.version = r.committed /\ SameContent(r, n)

ValidTarget(r, g) ==
    \A n \in Nodes(r.object, g) :
       /\ n.version >= r.previous
       /\ ~IsCommitted(r) => ~(r.previous < n.version /\ n.version <= r.number)
       /\ IsCommitted(r) => n.version >= r.committed
       /\ IsCommitted(r) /\ n.version = r.committed => SameContent(r, n)

Events(r) == {r.number, r.terminal, r.committed} \ {0}

\* When a record saw the version it replaces.
Observation(r) == IF r.state = "DirectCommitted" THEN r.committed ELSE r.number

\* Two records of one file tell one history: r is the earlier one.
ConsistentHistory(r, q) ==
    /\ r.previous <= q.previous
    /\ r.state = "AdmittedCommitted" /\ Observation(q) < r.committed => q.previous = r.previous
    /\ IsCommitted(r) /\ IsCommitted(q) =>
          IF r.committed < q.committed THEN q.previous >= r.committed ELSE r.previous >= q.committed
    /\ IsCommitted(r) /\ Observation(q) > r.committed => q.previous >= r.committed

ValidReceipts(g) ==
    /\ \A r \in Live(g.records) :
          /\ LocallyValid(r)
          /\ r.object < g.next
          /\ \A stamp \in Events(r) \cup {r.previous} : stamp <= g.sequence
          /\ r.epoch = g.epoch
          /\ ValidTarget(r, g)
    /\ \A i, j \in 1..RETAINED :
          LET r == g.records[i]  q == g.records[j]
          IN  i # j /\ r # None /\ q # None =>
                 /\ <<r.epoch, r.key>> # <<q.epoch, q.key>>
                 /\ Events(r) \cap Events(q) = {}
                 /\ r.object = q.object =>
                       /\ Observation(r) # Observation(q)
                       /\ Observation(r) < Observation(q) => ConsistentHistory(r, q)

ValidNodes(g) ==
    /\ \A n \in Live(g.nodes) :
          /\ n.id < g.next /\ n.version <= g.sequence
          /\ Len(n.sectors) = Len(n.content)
    /\ \A i, j \in 1..NODES :
          i # j /\ g.nodes[i] # None /\ g.nodes[j] # None => g.nodes[i].id # g.nodes[j].id

\* The payloads of a generation, each with its owner.
Holdings(g) ==
    {<<"node", n.id, n.sectors>> : n \in Live(g.nodes)} \cup
    {<<"record", r.key, r.sectors>> : r \in {q \in Live(g.records) : ~Aliases(q, g)}}

\* The map has exactly the sectors with an owner, and each has one.
ExactOwnership(g) ==
    /\ \A h, k \in Holdings(g) : h = k \/ ToSet(h[3]) \cap ToSet(k[3]) = {}
    /\ g.map = UNION {ToSet(h[3]) : h \in Holdings(g)}

validate_generation(g) == g.epoch <= g.sequence /\ ValidNodes(g) /\ ValidReceipts(g) /\ ExactOwnership(g)

---------------------------------------------------------------------------
(* Mount *)

ReadsBack(disk, content, sectors) ==
    \A i \in 1..Len(content) : disk[Payload(sectors[i])] = content[i]

verify_payloads(disk, g) ==
    \A owner \in Live(g.nodes) \cup Live(g.records) : ReadsBack(disk, owner.content, owner.sectors)

\* The header's three checksums cover the nodes, the map and the receipts.
ReadGeneration(disk, b) == disk[Tables(b)] = TablesOf(disk[Header(b)])

\* The generation a mount finds: its bank, or None.
select_header(disk) ==
    LET found(b) == disk[Header(b)] \notin {Zero, Torn}
        follows(b) == LET new == disk[Header(b)]  old == disk[Header(1 - b)]
                      IN  new.sequence = old.sequence + 1 /\ new.epoch >= old.epoch /\ new.next >= old.next
        chosen == {b \in 0..1 : found(b) /\ (found(1 - b) => follows(b))}
    IN  IF chosen = {} THEN None ELSE CHOOSE b \in chosen : TRUE

Mountable(disk) ==
    LET b == select_header(disk)
    IN  /\ b # None
        /\ ReadGeneration(disk, b)
        /\ validate_generation(disk[Header(b)])
        /\ verify_payloads(disk, disk[Header(b)])

---------------------------------------------------------------------------
(* Allocation *)

\* The longest free run; the first of several.
LongestRun(free) ==
    LET runs == {r \in Data \X Data : r[1] <= r[2] /\ r[1]..r[2] \subseteq free}
        size(r) == r[2] - r[1]
    IN  CHOOSE r \in runs : \A q \in runs : size(q) < size(r) \/ (size(q) = size(r) /\ r[1] <= q[1])

\* n sectors of the free ones, longest runs first; None: there are too few, or they lie in
\* too many runs.
plan_payload(free, n) ==
    LET plan[m \in 0..n, rest \in SUBSET Data, used \in 0..MAX_EXTENTS] ==
          IF m = 0 THEN <<>>
          ELSE IF used = MAX_EXTENTS \/ rest = {} THEN None
          ELSE LET run  == LongestRun(rest)
                   len  == run[2] - run[1] + 1
                   all  == [i \in 1..len |-> run[1] + i - 1]
                   more == plan[m - len, rest \ (run[1]..run[2]), used + 1]
               IN  IF len >= m THEN SubSeq(all, 1, m)
                   ELSE IF more = None THEN None ELSE all \o more
    IN  plan[n, free, 0]
=============================================================================
