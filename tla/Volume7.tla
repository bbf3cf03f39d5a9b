------------------------------ MODULE Volume7 -------------------------------
(***************************************************************************)
(* The volume of format 7 (crates/fs/src/volume7).  Files are replaced     *)
(* under a retry token, at once or through an admission that is executed   *)
(* or cancelled later; bytes come with the call or through a stage that    *)
(* writes them sector by sector into reserved free sectors.  Every change  *)
(* is one publication: payload, the inactive generation's tables, its      *)
(* header.  Publications are polled, may be aborted before the header and  *)
(* dropped at any point, or run to their end inside one call.  The server  *)
(* is killed and power is lost at any moment.                              *)
(***************************************************************************)
EXTENDS Format7

CONSTANTS STAGES,    \* stages that can be open at once
          Histories  \* bounds of the histories explored: records [offered operations, retry
                     \* keys, payload lengths and contents, last sequence, restarts, losses, device errors]

VARIABLES cache, media,
          volume,       \* the mounted volume; None: unmounted or fenced
          publication,  \* the open publication, which has the volume and the disk to itself
          budget,       \* the history's bounds, with the faults left
          held,         \* ghost: the generation last committed or mounted
          attempt,      \* ghost: the generation whose publication is in doubt
          told,         \* ghost: the records callers were shown
          refused       \* ghost: a candidate that passed its preflight was found invalid

INSTANCE WriteBackDisk

vars == <<cache, media, volume, publication, budget, held, attempt, told, refused>>

Image(v) == [sequence |-> v.sequence, epoch |-> v.epoch, next |-> v.next,
             nodes |-> v.nodes, records |-> v.records, map |-> v.map]

Mounted(g, bank) == [sequence |-> g.sequence, epoch |-> g.epoch, next |-> g.next,
                     nodes |-> g.nodes, records |-> g.records, map |-> g.map,
                     bank |-> bank, stages |-> [i \in 1..STAGES |-> None]]

Offered(operation) == volume # None /\ publication = None /\ operation \in budget.offered

\* The bound on sequence numbers.
Room == volume.sequence < budget.last

Keys == budget.keys
Lengths == budget.lengths
Contents == UNION {[1..n -> budget.payloads] : n \in Lengths}

---------------------------------------------------------------------------
(* Publications *)

\* Mutant: the payload is taken to be on disk already.
CommandsWithoutPayload(p) ==
    LET g == 1 - volume.bank
    IN  IF p.next = None THEN [i \in 1..Len(p.sectors) |-> [op |-> "read"]]
        ELSE <<Put(Tables(g), Torn), Put(Tables(g), TablesOf(p.next)), Flush, Put(Header(g), p.next), Flush>>

\* The commands of a publication, in order; `bytes' are the payload writes still to do
\* and `barrier' tells whether a flush separates payload and tables.  The tables take many
\* writes: the first spoils what was there, the last makes them whole.  A publication of
\* nothing compares a caller's bytes with the snapshot of a retained record.
Commands(p) ==
    LET g == 1 - volume.bank
    IN  IF p.next = None THEN [i \in 1..Len(p.sectors) |-> [op |-> "read"]]
        ELSE
        [i \in 1..Len(p.bytes) |-> Put(Payload(p.sectors[i]), p.bytes[i])]
        \o (IF p.barrier THEN <<Flush>> ELSE <<>>)
        \o <<Put(Tables(g), Torn), Put(Tables(g), TablesOf(p.next)), Flush, Put(Header(g), p.next), Flush>>

Total(p) == Len(Commands(p))

Command(p) == Commands(p)[p.step + 1]

\* From the submission of the header until its flush has settled.
Settling(p) ==
    /\ p.next # None
    /\ p.step = Total(p) - 1 \/ (p.step = Total(p) - 2 /\ p.pending)

Preparation(next, sectors, bytes, barrier, sync, slot) ==
    [next |-> next, sectors |-> sectors, bytes |-> bytes, barrier |-> barrier, sync |-> sync,
     slot |-> slot, step |-> 0, pending |-> FALSE, stopping |-> FALSE]

\* A publication starts only with a candidate that would mount.
Publish(next, sectors, bytes, barrier, sync, slot) ==
    /\ IF validate_generation(next)
       THEN /\ publication' = Preparation(next, sectors, bytes, barrier, sync, slot)
            /\ attempt' = next
            /\ UNCHANGED refused
       ELSE refused' = TRUE /\ UNCHANGED <<publication, attempt>>
    /\ UNCHANGED <<cache, media, budget, held, told>>

\* The same for changes made in memory before they are validated: one that is not valid
\* fences the volume.
PublishInPlace(next) ==
    IF validate_generation(next)
    THEN Publish(next, <<>>, <<>>, FALSE, TRUE, 0) /\ UNCHANGED volume
    ELSE /\ refused' = TRUE
         /\ volume' = None
         /\ UNCHANGED <<cache, media, publication, budget, held, attempt, told>>

Pend ==
    /\ publication # None /\ ~publication.sync
    /\ publication.step < Total(publication)
    /\ publication' = [publication EXCEPT !.pending = TRUE]
    /\ UNCHANGED <<cache, media, volume, budget, held, attempt, told, refused>>

\* The volume goes on with the generation it has.
Resume == publication' = None /\ attempt' = None /\ UNCHANGED volume

\* The volume is fenced: only a mount can tell what the disk holds.
Fence == volume' = None /\ publication' = None

\* Mutant: the map in memory is not brought up to date.
ConcludeKeepsMap(p) ==
    /\ volume' = [Mounted(p.next, 1 - volume.bank) EXCEPT !.stages = volume.stages, !.map = volume.map]
    /\ held' = p.next
    /\ told' = told \cup (IF p.slot = 0 THEN {} ELSE {p.next.records[p.slot]})
    /\ publication' = None /\ attempt' = None

\* The last command of p has settled.
Conclude(p) ==
    /\ volume' = [Mounted(p.next, 1 - volume.bank) EXCEPT !.stages = volume.stages]
    /\ held' = p.next
    /\ told' = told \cup (IF p.slot = 0 THEN {} ELSE {p.next.records[p.slot]})
    /\ publication' = None /\ attempt' = None

\* Mutant: the result is shown once the header is written.
AdvanceTellsEarly ==
    /\ publication # None /\ publication.next # None
    /\ Applied(Command(publication))
    /\ CASE publication.stopping -> Resume /\ UNCHANGED <<held, told>>
         [] ~publication.stopping /\ publication.step + 1 = Total(publication) -> Conclude(publication)
         [] OTHER -> /\ publication' = [publication EXCEPT !.pending = FALSE, !.step = @ + 1]
                     /\ told' = IF publication.step + 2 = Total(publication) /\ publication.slot # 0
                                THEN told \cup {publication.next.records[publication.slot]} ELSE told
                     /\ UNCHANGED <<volume, held, attempt>>
    /\ UNCHANGED <<budget, refused>>

Advance ==
    /\ publication # None /\ publication.next # None
    /\ Applied(Command(publication))
    /\ CASE publication.stopping -> Resume /\ UNCHANGED <<held, told>>
         [] ~publication.stopping /\ publication.step + 1 = Total(publication) -> Conclude(publication)
         [] OTHER -> /\ publication' = [publication EXCEPT !.pending = FALSE, !.step = @ + 1]
                     /\ UNCHANGED <<volume, held, attempt, told>>
    /\ UNCHANGED <<budget, refused>>

\* A repeated token: the snapshot is read sector by sector and compared; bytes that
\* differ end as an abort does, a snapshot that is not intact fences.
AdvanceRetry ==
    /\ publication # None /\ publication.next = None
    /\ LET r == volume.records[publication.slot]
       IN  CASE publication.stopping -> Resume /\ UNCHANGED told
             [] ~publication.stopping /\ publication.step + 1 < Total(publication) ->
                  /\ publication' = [publication EXCEPT !.pending = FALSE, !.step = @ + 1]
                  /\ UNCHANGED <<volume, attempt, told>>
             [] OTHER -> IF ReadsBack(cache, r.content, r.sectors)
                         THEN Resume /\ told' = told \cup {r}
                         ELSE Fence /\ UNCHANGED <<attempt, told>>
    /\ UNCHANGED <<cache, media, budget, held, refused>>

Fail ==
    /\ publication # None /\ publication.step < Total(publication) /\ budget.errors > 0
    /\ Failed(Command(publication))
    /\ Fence
    /\ budget' = [budget EXCEPT !.errors = @ - 1]
    /\ UNCHANGED <<held, attempt, told, refused>>

abort_before_header ==
    /\ publication # None /\ ~publication.sync /\ "abort" \in budget.offered
    /\ ~Settling(publication)
    /\ IF publication.pending
       THEN /\ publication' = [publication EXCEPT !.stopping = TRUE]
            /\ UNCHANGED <<volume, attempt>>
       ELSE Resume
    /\ UNCHANGED <<cache, media, budget, held, told, refused>>

\* A command left pending may still be carried out.
Drop ==
    /\ publication # None /\ ~publication.sync /\ "abort" \in budget.offered
    /\ IF publication.pending \/ Settling(publication)
       THEN /\ Fence /\ UNCHANGED attempt
            /\ \/ UNCHANGED <<cache, media>>
               \/ publication.pending /\ Applied(Command(publication))
       ELSE Resume /\ UNCHANGED <<cache, media>>
    /\ UNCHANGED <<budget, held, told, refused>>

---------------------------------------------------------------------------
(* Namespace and retention *)

Free(table) == {i \in DOMAIN table : table[i] = None}

\* The lowest free slot.
First(slots) == CHOOSE i \in slots : \A j \in slots : i <= j

\* Mutant: a replaced file gives up its sectors even when a record keeps them.
ReleasedAlways(sectors) == ToSet(sectors)

\* Sectors of a file that no retained record owns.
Released(sectors) ==
    {s \in ToSet(sectors) : \A r \in Live(volume.records) : s \notin ToSet(r.sectors)}

create ==
    /\ Offered("create") /\ Room
    /\ Free(volume.nodes) # {}
    /\ LET node == [id |-> volume.next, version |-> volume.sequence + 1, content |-> <<>>, sectors |-> <<>>]
           next == [Image(volume) EXCEPT !.sequence = @ + 1, !.next = @ + 1,
                                         !.nodes[First(Free(volume.nodes))] = node]
       IN  PublishInPlace(next)

remove ==
    /\ Offered("remove") /\ Room
    /\ \E i \in 1..NODES \ Free(volume.nodes) :
          LET next == [Image(volume) EXCEPT !.sequence = @ + 1, !.nodes[i] = None,
                                            !.map = @ \ Released(volume.nodes[i].sectors)]
          IN  PublishInPlace(next)

\* Forgets every settled record and opens a new epoch; open stages and undecided
\* admissions forbid it.
maintain_retention ==
    /\ Offered("retain") /\ Room
    /\ Free(volume.stages) = 1..STAGES
    /\ \A r \in Live(volume.records) : r.state # "Admitted"
    /\ LET next == [Image(volume) EXCEPT
                      !.sequence = @ + 1, !.epoch = @ + 1,
                      !.records = [i \in 1..RETAINED |-> None],
                      !.map = UNION {ToSet(n.sectors) : n \in Live(volume.nodes)}]
       IN  PublishInPlace(next)

---------------------------------------------------------------------------
(* Preflight of a write *)

FreshStages == {s \in Live(volume.stages) : s.record = None}

\* A retained record is free and not promised to an open stage.
free_record_slot == Cardinality(Free(volume.records)) > Cardinality(FreshStages)

stage_holds_scope(key, epoch) == \E s \in Live(volume.stages) : s.key = key /\ s.epoch = epoch

find_retry(key, epoch) == {r \in Live(volume.records) : r.key = key /\ r.epoch = epoch}

\* Mutant: reservations of open stages are overlooked.
planning_map_mounted == volume.map

planning_map == volume.map \cup UNION {ToSet(s.sectors) : s \in FreshStages}

\* A new write of `node' under `key'.
Target(key, epoch, object, previous) ==
    /\ epoch = volume.epoch
    /\ \E n \in Nodes(object, volume) : n.version = previous
    /\ free_record_slot

Plan(length) == plan_payload(Data \ planning_map, length)

Fresh(key, object, previous, length) ==
    /\ ~stage_holds_scope(key, volume.epoch)
    /\ find_retry(key, volume.epoch) = {}
    /\ Target(key, volume.epoch, object, previous)
    /\ Plan(length) # None

Record(state, key, object, previous, content, sectors) ==
    [state |-> state, key |-> key, epoch |-> volume.epoch, object |-> object, previous |-> previous,
     committed |-> IF state = "Admitted" THEN 0 ELSE volume.sequence + 1,
     number    |-> IF state = "Admitted" THEN volume.sequence + 1 ELSE 0,
     terminal  |-> IF state = "Admitted" THEN 0 ELSE volume.sequence + 1,
     reason |-> None, content |-> content, sectors |-> sectors]

\* The generation in which record r is in slot i, its bytes in `added' sectors, and, when
\* `file' holds, are the file's.
Candidate(i, r, file, added) ==
    LET j    == CHOOSE k \in 1..NODES : volume.nodes[k] # None /\ volume.nodes[k].id = r.object
        old  == volume.nodes[j]
        base == [Image(volume) EXCEPT !.sequence = @ + 1, !.records[i] = r]
    IN  IF file
        THEN [base EXCEPT !.nodes[j] = [old EXCEPT !.version = r.committed, !.content = r.content,
                                                   !.sectors = r.sectors],
                          !.map = (@ \cup added) \ Released(old.sectors)]
        ELSE [base EXCEPT !.map = @ \cup added]

---------------------------------------------------------------------------
(* Writes with the caller's bytes *)

replace_tracked ==
    /\ Offered("track") /\ Room
    /\ \E key \in Keys, n \in Live(volume.nodes), content \in Contents :
          /\ Fresh(key, n.id, n.version, Len(content))
          /\ LET plan == Plan(Len(content))
                 i == First(Free(volume.records))
                 r == Record("DirectCommitted", key, n.id, n.version, content, plan)
             IN  Publish(Candidate(i, r, TRUE, ToSet(plan)), plan, content, FALSE, TRUE, i)
    /\ UNCHANGED volume

prepare_admission ==
    /\ Offered("admit") /\ Room
    /\ \E key \in Keys, n \in Live(volume.nodes), content \in Contents :
          /\ Fresh(key, n.id, n.version, Len(content))
          /\ LET plan == Plan(Len(content))
                 i == First(Free(volume.records))
                 r == Record("Admitted", key, n.id, n.version, content, plan)
             IN  Publish(Candidate(i, r, FALSE, ToSet(plan)), plan, content, TRUE, FALSE, i)
    /\ UNCHANGED volume

\* A caller repeats an admission: its bytes are compared with the retained snapshot.
RetryAdmission ==
    /\ Offered("retry")
    /\ \E i \in 1..RETAINED \ Free(volume.records) :
          LET r == volume.records[i]
          IN  /\ ~stage_holds_scope(r.key, r.epoch)
              /\ publication' = Preparation(None, r.sectors, <<>>, FALSE, FALSE, i)
    /\ UNCHANGED <<cache, media, volume, budget, held, attempt, told, refused>>

\* A settled record is returned at once: to a repeated replacement whose bytes match, to
\* an execution or cancellation that comes too late.
Replay ==
    /\ Offered("retry")
    /\ \E r \in Live(volume.records) : r.state # "Admitted" /\ told' = told \cup {r}
    /\ UNCHANGED <<cache, media, volume, publication, budget, held, attempt, refused>>

prepare_execute ==
    /\ Offered("execute") /\ Room
    /\ \E i \in 1..RETAINED \ Free(volume.records) :
          LET r == volume.records[i]
              done == [r EXCEPT !.state = "AdmittedCommitted", !.committed = volume.sequence + 1,
                                !.terminal = volume.sequence + 1]
          IN  /\ r.state = "Admitted"
              /\ \E n \in Nodes(r.object, volume) : n.version = r.previous
              /\ Publish(Candidate(i, done, TRUE, {}), <<>>, <<>>, FALSE, FALSE, i)
    /\ UNCHANGED volume

prepare_cancellation ==
    /\ Offered("cancel") /\ Room
    /\ \E i \in 1..RETAINED \ Free(volume.records) :
          LET r == volume.records[i]
              stopped == [r EXCEPT !.state = "Cancelled", !.terminal = volume.sequence + 1,
                                   !.reason = "Requested"]
          IN  /\ r.state = "Admitted"
              /\ Publish(Candidate(i, stopped, FALSE, {}), <<>>, <<>>, FALSE, FALSE, i)
    /\ UNCHANGED volume

---------------------------------------------------------------------------
(* Stages *)

\* The slot of a stage; `record' is the retained record a repeated token is compared
\* with, `supplied' the sectors given so far.
Stage(kind, key, object, previous, length, sectors, record) ==
    [kind |-> kind, key |-> key, epoch |-> volume.epoch, object |-> object, previous |-> previous,
     length |-> length, sectors |-> sectors, record |-> record, supplied |-> <<>>]

SetStage(i, s) ==
    /\ volume' = [volume EXCEPT !.stages[i] = s]
    /\ UNCHANGED <<publication, budget, held, attempt, told, refused>>

Kinds == {"Tracked", "Admission"}

open_stage ==
    /\ Offered("stage")
    /\ Free(volume.stages) # {}
    /\ LET i == First(Free(volume.stages))
       IN  \E kind \in Kinds \cap budget.offered :
              \/ \E key \in Keys, n \in Live(volume.nodes), length \in Lengths :
                    /\ Fresh(key, n.id, n.version, length)
                    /\ SetStage(i, Stage(kind, key, n.id, n.version, length, Plan(length), None))
              \/ \E r \in Live(volume.records) :
                    /\ ~stage_holds_scope(r.key, r.epoch)
                    /\ kind = "Tracked" => r.state = "DirectCommitted"
                    /\ SetStage(i, Stage(kind, r.key, r.object, r.previous, Len(r.content), r.sectors, r))
    /\ UNCHANGED <<cache, media>>

\* A fresh stage writes the sector; a repeated one reads the snapshot, and `supplied'
\* keeps what it read (bytes that differ only refuse the stage at its end).
stage_write ==
    /\ Offered("stage")
    /\ \E i \in 1..STAGES \ Free(volume.stages) :
          LET s == volume.stages[i]
              sector == Payload(s.sectors[Len(s.supplied) + 1])
          IN  /\ Len(s.supplied) < s.length
              /\ \/ \E value \in budget.payloads :
                       /\ s.record = None
                       /\ Applied(Put(sector, value))
                       /\ SetStage(i, [s EXCEPT !.supplied = Append(@, value)])
                 \/ /\ s.record # None
                    /\ SetStage(i, [s EXCEPT !.supplied = Append(@, cache[sector])])
                    /\ UNCHANGED <<cache, media>>

\* A payload write that fails fences the volume.
stage_write_fails ==
    /\ Offered("stage") /\ budget.errors > 0
    /\ \E s \in FreshStages, value \in budget.payloads :
          /\ Len(s.supplied) < s.length
          /\ Failed(Put(Payload(s.sectors[Len(s.supplied) + 1]), value))
    /\ Fence
    /\ budget' = [budget EXCEPT !.errors = @ - 1]
    /\ UNCHANGED <<held, attempt, told, refused>>

abort_stage ==
    /\ Offered("stage")
    /\ \E i \in 1..STAGES \ Free(volume.stages) : SetStage(i, None)
    /\ UNCHANGED <<cache, media>>

release_stages ==
    /\ Offered("stage")
    /\ volume' = [volume EXCEPT !.stages = [i \in 1..STAGES |-> None]]
    /\ UNCHANGED <<cache, media, publication, budget, held, attempt, told, refused>>

Complete(i, kind) ==
    /\ volume.stages[i] # None
    /\ volume.stages[i].kind = kind
    /\ Len(volume.stages[i].supplied) = volume.stages[i].length

\* The stage ends whatever comes of it; the preflight is repeated without it.
FinishFresh(i, state, sync) ==
    LET s == volume.stages[i]
        reserved == Cardinality(FreshStages) - 1
        slot == First(Free(volume.records))
        r == Record(state, s.key, s.object, s.previous, s.supplied, s.sectors)
    IN  IF /\ s.epoch = volume.epoch
           /\ \E n \in Nodes(s.object, volume) : n.version = s.previous
           /\ find_retry(s.key, s.epoch) = {}
           /\ Cardinality(Free(volume.records)) > reserved
        THEN Publish(Candidate(slot, r, state = "DirectCommitted", ToSet(s.sectors)), <<>>, <<>>,
                     ~sync, sync, slot)
        ELSE UNCHANGED <<cache, media, publication, budget, held, attempt, told, refused>>

\* What a repetition is shown; execution or cancellation may have advanced an admission
\* while the stage was open.
RetryShown(s) == IF s.kind = "Tracked" THEN {s.record} ELSE find_retry(s.key, s.epoch)

\* A snapshot that is not intact is an error, for an admission one that fences; otherwise
\* the caller's bytes were the same or they were not.
FinishRetry(i) ==
    LET s == volume.stages[i]
        intact == s.supplied = s.record.content
    IN  /\ \/ intact /\ told' = told \cup RetryShown(s)
           \/ UNCHANGED told
        /\ volume' = IF intact \/ s.kind = "Tracked" THEN [volume EXCEPT !.stages[i] = None] ELSE None
        /\ UNCHANGED <<cache, media, publication, budget, held, attempt, refused>>

Finish(kind, state, sync) ==
    /\ Offered("stage")
    /\ \E i \in 1..STAGES :
          /\ Complete(i, kind)
          /\ \/ /\ volume.stages[i].record = None /\ Room
                /\ FinishFresh(i, state, sync)
                /\ volume' = [volume EXCEPT !.stages[i] = None]
             \/ volume.stages[i].record # None /\ FinishRetry(i)

finish_tracked == Finish("Tracked", "DirectCommitted", TRUE)

finish_admission == Finish("Admission", "Admitted", FALSE)

---------------------------------------------------------------------------
(* Interruption and recovery *)

Submitted == publication # None /\ (publication.pending \/ publication.sync)

Restart ==
    /\ volume # None /\ budget.restarts > 0
    /\ \/ UNCHANGED <<cache, media>>
       \/ Submitted /\ Applied(Command(publication))
    /\ Fence
    /\ budget' = [budget EXCEPT !.restarts = @ - 1]
    /\ UNCHANGED <<held, attempt, told, refused>>

PowerLoss ==
    /\ budget.losses > 0
    /\ LET write == Submitted /\ Command(publication).op = "write"
           m == IF write THEN Spread(Command(publication).sector, Command(publication).value) ELSE media
       IN  \E disk \in Remains(m) : cache' = disk /\ media' = Durable(disk)
    /\ Fence
    /\ budget' = [budget EXCEPT !.losses = @ - 1]
    /\ UNCHANGED <<held, attempt, told, refused>>

\* A mount flushes before it reads.
mount_into ==
    /\ volume = None
    /\ Applied(Flush)
    /\ Mountable(cache)
    /\ LET bank == select_header(cache)
       IN  /\ volume' = Mounted(cache[Header(bank)], bank)
           /\ held' = cache[Header(bank)]
    /\ attempt' = None
    /\ UNCHANGED <<publication, budget, told, refused>>

---------------------------------------------------------------------------

Init ==
    /\ budget \in Histories
    /\ volume = Mounted(InitialGeneration, 0)
    /\ cache = [s \in Sectors |-> CASE s = Header(0) -> InitialGeneration
                                    [] s = Tables(0) -> TablesOf(InitialGeneration)
                                    [] OTHER         -> Zero]
    /\ media = Durable(cache)
    /\ publication = None
    /\ held = InitialGeneration
    /\ attempt = None
    /\ told = {}
    /\ refused = FALSE

Next ==
    \/ Pend \/ Advance \/ AdvanceRetry \/ Fail \/ abort_before_header \/ Drop
    \/ create \/ remove \/ maintain_retention
    \/ replace_tracked \/ prepare_admission \/ RetryAdmission \/ Replay \/ prepare_execute \/ prepare_cancellation
    \/ open_stage \/ stage_write \/ stage_write_fails \/ abort_stage \/ release_stages
    \/ finish_tracked \/ finish_admission
    \/ Restart \/ PowerLoss \/ mount_into

Spec == Init /\ [][Next]_vars

---------------------------------------------------------------------------
(* Properties *)

Serving == volume # None /\ publication = None

\* Whatever stages write and publications release or reserve, every file and retained
\* snapshot of the generation in force reads back, and after every interruption the next
\* mount succeeds: the newer readable header names tables and payloads that are whole
\* (planning_map, retained_owns_run, the flushes around the header write, mount_trusted).
GenerationIntact ==
    IF volume = None THEN Mountable(cache) ELSE verify_payloads(cache, Image(volume))

\* Sectors reserved by an open stage belong to nobody else and hold what was supplied to
\* it, whatever is published while it is open (stage.rs: reservations); and a record slot
\* waits for every open fresh stage, so that no completed upload is refused for want of
\* one (free_record_slot).
StagesKeepTheirReservations ==
    volume # None =>
      /\ Cardinality(FreshStages) <= Cardinality(Free(volume.records))
      /\ \A i \in 1..STAGES :
           LET s == volume.stages[i]
           IN  s # None /\ s.record = None =>
                 /\ ToSet(s.sectors) \cap volume.map = {}
                 /\ \A j \in 1..STAGES : j # i /\ volume.stages[j] # None =>
                       ToSet(s.sectors) \cap ToSet(volume.stages[j].sectors) = {}
                 /\ ReadsBack(cache, s.supplied, s.sectors)

\* No sequence of legal calls prepares a generation the volume would refuse to mount
\* (validate_candidate after each preflight).
PreflightSuffices == ~refused

\* A record shown to a caller is kept while its epoch lasts: after kills and power
\* losses in any order its outcome is still there, except that an admission may
\* be decided (mount flushes before it reads; header flush before the result).
ShownRecordsSurvive ==
    Serving =>
      \A r \in told :
         r.epoch = volume.epoch =>
           \E q \in Live(volume.records) :
              /\ q.key = r.key /\ q.epoch = r.epoch /\ q.content = r.content
              /\ r.state # "Admitted" => q = r

\* The volume implements the atomic volume: it serves one whole generation at a time,
\* replaced only by the one being published, and a mount finds one of these two.
A == INSTANCE AtomicVolume WITH
        Nothing <- None,
        Firsts  <- {InitialGeneration},
        current <- IF Serving THEN Image(volume) ELSE held,
        attempt <- attempt

RefinesAtomicVolume == A!Spec
=============================================================================
