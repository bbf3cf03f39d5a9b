------------------------------ MODULE Service7 ------------------------------
(***************************************************************************)
(* The file service over a volume of format 7 (crates/file-service/src/v7  *)
(* and v7.rs): grants of client slots, one streamed transfer per slot,     *)
(* cached receipts, and admissions whose publication is polled while the   *)
(* owner may take grants away.  The volume is seen at its interface (the   *)
(* module Volume7 has its inside): a generation of files and retained      *)
(* records, the open stages, and whether it is fenced.  A request is a     *)
(* function from the service's state to its possible outcomes.             *)
(***************************************************************************)
EXTENDS Naturals, Sequences, FiniteSetsExt

CONSTANTS None,
          CLIENTS,   \* client slots
          STAGES,    \* stages the volume can have open
          RETAINED,  \* retained records
          SECTOR,    \* chunks that fill a sector
          MAX_FILE   \* chunks a file may have

VARIABLES clock,
          grants,     \* per slot: the owner's grant, or None
          transfers,  \* per slot: the open upload, or None
          receipts,   \* per slot: the record last completed or looked up, or None
          volume,     \* [now: the generation in force, ready, stages, doubt]; doubt is a ghost: the
                      \* generation that may have become durable when the volume was fenced
          job,        \* the publication a client's request waits for, or None
          command     \* the disk command the poller has outstanding, or None

Slots == 1..CLIENTS

\* The error of the first rule that applies.
Refusal(rules) ==
    LET hits == {i \in DOMAIN rules : rules[i][1]}
    IN  IF hits = {} THEN "Ok" ELSE rules[Min(hits)][2]

---------------------------------------------------------------------------
(* Grants *)

READ_ONLY7     == {"read"}
TRACKED_WRITE7 == {"read", "write", "inspect"}
ADMISSION7     == TRACKED_WRITE7 \cup {"cancel"}

Expired(g) == g # None /\ g.expires # 0 /\ clock >= g.expires

\* `bound' tells whether the kernel names the granted peer as the sender.
check(slot, bound, context) ==
    LET g == grants[slot]
    IN  Refusal(<< <<g = None \/ ~bound, "Denied">>,
                   <<g # None /\ (g.revoked \/ g.context # context), "Revoked">>,
                   <<Expired(g), "Expired">> >>)

expire == [s \in Slots |-> IF Expired(grants[s]) THEN [grants[s] EXCEPT !.revoked = TRUE] ELSE grants[s]]

---------------------------------------------------------------------------
(* The volume at its interface *)

Opened(generation) ==
    [now |-> generation, ready |-> TRUE, stages |-> [i \in 1..STAGES |-> None], doubt |-> None]

Free == {i \in 1..STAGES : volume.stages[i] = None}
OpenStages == {volume.stages[i] : i \in 1..STAGES \ Free}

Same(r, s) == r.subject = s.subject /\ r.epoch = s.epoch /\ r.key = s.key

find_retry(id) == {r \in volume.now.records : Same(r, id)}

\* A record is free that no open stage of `others' has reserved.
free_record_slot(others) ==
    Cardinality(volume.now.records) + Cardinality({s \in others : s.replay = None}) < RETAINED

\* The checks of a fresh write, made when its stage opens and again when it finishes.
Target(id, others) ==
    << <<id.epoch # volume.now.epoch, "ExpiredEpoch">>,
       <<volume.now.files[id.object].version # id.previous, "Version">>,
       <<~free_record_slot(others), "Full">> >>

open_slot(id, kind) ==
    << <<~volume.ready, "Uncertain">>,
       <<Free = {}, "Busy">>,
       <<id.size > MAX_FILE, "Size">>,
       <<\E s \in OpenStages : Same(s, id), "Busy">>,
       <<\E r \in find_retry(id) : r.object # id.object \/ r.previous # id.previous
                                   \/ Len(r.content) # id.size, "IdempotencyConflict">>,
       <<kind = "Tracked" /\ \E r \in find_retry(id) : r.state # "DirectCommitted", "OutcomeUnknown">> >>
    \o (IF find_retry(id) = {} THEN Target(id, OpenStages) ELSE <<>>)

\* A failed write fences the volume and ends its stages.
Fenced(candidate) ==
    [volume EXCEPT !.ready = FALSE, !.stages = [i \in 1..STAGES |-> None], !.doubt = candidate]

\* The next generation: record r in place of the one with its identity, its bytes in the
\* file if it commits.
WithRecord(r) ==
    LET n == volume.now.sequence + 1
    IN  [volume.now EXCEPT
            !.sequence = n,
            !.records  = (@ \ find_retry(r)) \cup {r},
            !.files    = IF r.committed # n THEN @
                         ELSE [@ EXCEPT ![r.object] = [version |-> n, content |-> r.content]]]

NewRecord(s, state) ==
    LET n == volume.now.sequence + 1
    IN  [subject |-> s.subject, key |-> s.key, epoch |-> s.epoch, object |-> s.object,
         previous |-> s.previous, content |-> s.supplied, state |-> state, reason |-> None,
         committed |-> IF state = "DirectCommitted" THEN n ELSE 0,
         number    |-> IF state = "Admitted" THEN n ELSE 0]

Executed(r) == [r EXCEPT !.state = "AdmittedCommitted", !.committed = volume.now.sequence + 1]

Prevented(r, reason) == [r EXCEPT !.state = "Cancelled", !.reason = reason]

---------------------------------------------------------------------------
(* Outcomes of a request: the status of its answer, the record shown with  *)
(* it, and what it changes; `failed' tells that the device failed.         *)

Outcome(answer) ==
    [status |-> answer, shown |-> None, failed |-> FALSE, job |-> None,
     transfers |-> transfers, receipts |-> receipts, volume |-> volume]

NoReceipts == [s \in Slots |-> None]

\* Mutant: the stage of a slot that lost its grant is left open.
ResetLeaks(out, slots) ==
    [out EXCEPT !.transfers = [s \in Slots |-> IF s \in slots THEN None ELSE @[s]],
                !.receipts  = [s \in Slots |-> IF s \in slots THEN None ELSE @[s]]]

\* Slots whose grants are replaced or lost give up their uploads and receipts.
reset(out, slots) ==
    LET held == {out.transfers[s].stage : s \in {x \in slots : out.transfers[x] # None}}
    IN  [out EXCEPT !.transfers = [s \in Slots |-> IF s \in slots THEN None ELSE @[s]],
                    !.receipts  = [s \in Slots |-> IF s \in slots THEN None ELSE @[s]],
                    !.volume.stages = [i \in 1..STAGES |-> IF i \in held THEN None ELSE @[i]]]

Holds(g, rights) == rights \subseteq g.rights

\* For a grant only the records of its subject within its scope exist.
Mine(g) == {r \in volume.now.records : r.subject = g.subject}
Visible(g, r) == r.object \in g.scope

\* A sector could not be read: nothing changes.
Unread == [Outcome("Io") EXCEPT !.failed = TRUE]

read(g, q) ==
    LET refusal == Refusal(<< <<~Holds(g, READ_ONLY7), "Denied">>,
                              <<~volume.ready, "Uncertain">>,
                              <<q.object \notin g.scope, "Denied">>,
                              <<volume.now.files[q.object].version # q.previous, "Version">> >>)
    IN  IF refusal = "Ok" THEN {Outcome("Ok"), Unread} ELSE {Outcome(refusal)}

---------------------------------------------------------------------------
(* Transfers *)

\* A fresh write may also find no room for its bytes: which sectors are free is not seen at
\* this interface.
open(slot, g, q, kind) ==
    LET id == [q EXCEPT !.subject = g.subject]
        refusal == Refusal(<< <<~Holds(g, {"write", "inspect"}) \/ g.subject = 0, "Denied">>,
                              <<~volume.ready, "Uncertain">>,
                              <<id.object \notin g.scope, "Denied">>,
                              <<transfers[slot] # None, "Busy">>,
                              <<kind = "Admission" /\ \E r \in find_retry(id) : r.state = "DirectCommitted",
                                "IdempotencyConflict">> >>
                           \o open_slot(id, kind))
        i == Min(Free)
        stage == [subject |-> id.subject, key |-> id.key, epoch |-> id.epoch, object |-> id.object,
                  previous |-> id.previous, supplied |-> <<>>,
                  replay |-> IF find_retry(id) = {} THEN None ELSE CHOOSE r \in find_retry(id) : TRUE]
    IN  IF refusal # "Ok" THEN {Outcome(refusal)}
        ELSE {[Outcome("Ok") EXCEPT
                 !.volume.stages[i] = stage,
                 !.transfers[slot] = [stage |-> i, kind |-> kind, size |-> id.size, bytes |-> <<>>]]}
             \cup (IF stage.replay = None /\ id.size > 0 THEN {Outcome("Full")} ELSE {})

NoTransfer(slot, kind) == transfers[slot] = None \/ transfers[slot].kind # kind

Incomplete(slot) == transfers[slot] # None /\ Len(transfers[slot].bytes) < transfers[slot].size

\* Chunks gather until they fill a sector (or end the file), which is then handed to the
\* stage: written if it is fresh, compared with the snapshot if it repeats a record.
chunk(slot, g, q, kind) ==
    LET refusal == Refusal(<< <<~Holds(g, {"write"}) \/ (kind = "Admission" /\ ~Holds(g, {"inspect"})), "Denied">>,
                              <<NoTransfer(slot, kind), "NoTransfer">>,
                              <<~Incomplete(slot), "Offset">> >>)
        t == transfers[slot]
        bytes == Append(t.bytes, q.value)
        full == Len(bytes) % SECTOR = 0 \/ Len(bytes) = t.size
        ended == [Outcome("Uncertain") EXCEPT !.transfers[slot] = None]
        taken == [Outcome("Ok") EXCEPT !.transfers[slot].bytes = bytes]
        stage == volume.stages[t.stage]
    IN  CASE refusal # "Ok"              -> {Outcome(refusal)}
          [] refusal = "Ok" /\ ~full     -> {taken}
          [] OTHER ->
               IF ~volume.ready THEN {ended}
               ELSE {[taken EXCEPT !.volume.stages[t.stage].supplied = bytes],
                     [ended EXCEPT !.failed = TRUE,
                                   !.status = IF stage.replay = None THEN "Uncertain" ELSE "Io",
                                   !.volume = IF stage.replay = None THEN Fenced(None)
                                              ELSE [volume EXCEPT !.stages[t.stage] = None]]}

abort(slot, g, kind) ==
    LET refusal == Refusal(<< <<~Holds(g, {"write"}) \/ (kind = "Admission" /\ ~Holds(g, {"inspect"})), "Denied">>,
                              <<NoTransfer(slot, kind), "NoTransfer">> >>)
    IN  IF refusal # "Ok" THEN {Outcome(refusal)}
        ELSE {[Outcome("Ok") EXCEPT !.transfers[slot] = None,
                                    !.volume.stages = [@ EXCEPT ![transfers[slot].stage] = None]]}

take_complete(slot, g, kind) ==
    Refusal(<< <<~Holds(g, {"write"}) \/ (kind = "Admission" /\ ~Holds(g, {"inspect"})), "Denied">>,
               <<NoTransfer(slot, kind), "NoTransfer">>,
               <<Incomplete(slot), "Offset">> >>)

\* The refusals of a finished stage; a repetition is only compared.
Finish(slot) ==
    LET i == transfers[slot].stage
        s == volume.stages[i]
    IN  IF ~volume.ready THEN "Uncertain"
        ELSE IF s.replay # None THEN Refusal(<< <<s.supplied # s.replay.content, "IdempotencyConflict">> >>)
        ELSE Refusal(<< <<find_retry(s) # {}, "IdempotencyConflict">> >>
                     \o Target(s, {volume.stages[j] : j \in 1..STAGES \ (Free \cup {i})}))

\* The slot without its finished transfer and stage.
Ended(slot, answer) ==
    LET i == transfers[slot].stage
    IN  [Outcome(answer) EXCEPT !.transfers[slot] = None, !.volume.stages[i] = None]

REPLACE_COMMIT(slot, g) ==
    LET refusal == take_complete(slot, g, "Tracked")
        s == volume.stages[transfers[slot].stage]
        done(r) == [Ended(slot, "Ok") EXCEPT !.shown = r, !.receipts[slot] = r]
        r == NewRecord(s, "DirectCommitted")
    IN  CASE refusal # "Ok" -> {Outcome(refusal)}
          [] refusal = "Ok" /\ Finish(slot) # "Ok" -> {Ended(slot, Finish(slot))}
          [] OTHER ->
               IF s.replay # None THEN {done(s.replay)}
               ELSE {[done(r) EXCEPT !.volume.now = WithRecord(r)],
                     [Ended(slot, "Uncertain") EXCEPT !.failed = TRUE, !.volume = Fenced(WithRecord(r))]}

---------------------------------------------------------------------------
(* Receipts and maintenance *)

\* A lookup by retry identity or by committed sequence.
retained(slot, g, q) ==
    LET found == {r \in Mine(g) : IF q.op = "OPERATION_ID" THEN r.committed = q.number
                                  ELSE r.key = q.key /\ r.epoch = q.epoch}
        missing == IF q.op = "OPERATION_RETRY" /\ q.epoch # volume.now.epoch THEN "ExpiredEpoch"
                   ELSE "OutcomeUnknown"
        refusal == Refusal(<< <<g.subject = 0 \/ ~Holds(g, {"inspect"}), "Denied">>,
                              <<~volume.ready, "Uncertain">>,
                              <<~\E r \in found : Visible(g, r), missing>>,
                              <<\E r \in found : r.state = "Admitted", "Busy">>,
                              <<\E r \in found : r.state = "Cancelled", "Unsupported">> >>)
    IN  IF refusal # "Ok" THEN {Outcome(refusal)}
        ELSE LET r == CHOOSE x \in found : TRUE
             IN  {[Outcome("Ok") EXCEPT !.shown = r, !.receipts[slot] = r], Unread}

\* Parts of a receipt come from the slot's cache alone.
part(slot, g, q) ==
    {Outcome(Refusal(<< <<~Holds(g, {"inspect"}), "Denied">>,
                        <<receipts[slot] = None \/ receipts[slot].committed # q.number, "OutcomeUnknown">> >>))}

\* Drops every settled record and opens the next epoch.
maintain ==
    LET refusal == Refusal(<< <<\E s \in Slots : transfers[s] # None, "Busy">>,
                              <<~volume.ready, "Uncertain">>,
                              <<OpenStages # {} \/ \E r \in volume.now.records : r.state = "Admitted", "Busy">> >>)
        next == [volume.now EXCEPT !.sequence = @ + 1, !.epoch = @ + 1, !.records = {}]
    IN  IF refusal # "Ok" THEN {Outcome(refusal)}
        ELSE {[Outcome("Ok") EXCEPT !.volume.now = next],
              [Outcome("Uncertain") EXCEPT !.volume = Fenced(next), !.failed = TRUE]}

\* Mutant: receipts outlive the records they describe.
maintain_retention_keeps_receipts == maintain

\* Receipts are forgotten whenever the records they name may be gone.
maintain_retention ==
    {[out EXCEPT !.receipts = IF out.status = "Ok" \/ ~out.volume.ready THEN NoReceipts ELSE @] : out \in maintain}

---------------------------------------------------------------------------
(* Admissions *)

\* The publication that puts `result' in place of `admitted', for a client that must keep
\* `right'; the answer goes to request `serial' of `endpoint'.  `lost' collects the slots
\* that lose their grants meanwhile; `authorised' and `before' are ghosts.
Publication(kind, slot, right, admitted, result) ==
    [kind |-> kind, slot |-> slot, context |-> grants[slot].context, endpoint |-> grants[slot].endpoint,
     serial |-> 0, right |-> right, admitted |-> admitted, result |-> result, next |-> WithRecord(result),
     step |-> "work", stopping |-> FALSE, denied |-> None, lost |-> {},
     authorised |-> FALSE, before |-> volume]

ACCEPT(slot, g) ==
    LET refusal == take_complete(slot, g, "Admission")
        s == volume.stages[transfers[slot].stage]
        r == NewRecord(s, "Admitted")
    IN  CASE refusal # "Ok" -> {Outcome(refusal)}
          [] refusal = "Ok" /\ Finish(slot) # "Ok" -> {Ended(slot, Finish(slot))}
          [] OTHER ->
               IF s.replay # None THEN {[Ended(slot, "Ok") EXCEPT !.shown = CHOOSE x \in find_retry(s) : TRUE]}
               ELSE {[Ended(slot, "Ok") EXCEPT
                        !.job = Publication("ACCEPT", slot, "inspect", r, r)]}

\* The admission a request names by number or retry identity.
Named(g, q) ==
    {r \in Mine(g) : /\ r.number # 0 /\ Visible(g, r)
                     /\ IF q.op = "RETRY" THEN r.key = q.key /\ r.epoch = q.epoch ELSE r.number = q.number}

Missing(q) == IF q.op = "RETRY" /\ q.epoch # volume.now.epoch THEN "ExpiredEpoch" ELSE "OutcomeUnknown"

Show(g, q) == [Outcome("Ok") EXCEPT !.shown = CHOOSE r \in Named(g, q) : TRUE]

\* GET, RETRY and OBSERVE.
status(g, q) ==
    LET refusal == Refusal(<< <<~Holds(g, {"inspect"}), "Denied">>,
                              <<~volume.ready, "Uncertain">>,
                              <<Named(g, q) = {}, Missing(q)>> >>)
    IN  IF refusal # "Ok" THEN {Outcome(refusal)} ELSE {Show(g, q)}

EXECUTE(slot, g, q) ==
    LET refusal == Refusal(<< <<~Holds(g, {"inspect"}), "Denied">>,
                              <<~volume.ready, "Uncertain">>,
                              <<Named(g, q) = {}, Missing(q)>> >>)
        r == CHOOSE x \in Named(g, q) : TRUE
    IN  CASE refusal # "Ok" -> {Outcome(refusal)}
          [] refusal = "Ok" /\ r.state # "Admitted" -> {Show(g, q)}
          [] OTHER ->
               IF ~Holds(g, {"write"}) THEN {Outcome("Denied")}
               ELSE IF volume.now.files[r.object].version # r.previous THEN {Outcome("Version")}
               ELSE {[Outcome("Ok") EXCEPT
                        !.job = Publication("EXECUTE", slot, "inspect", r, Executed(r))]}

CANCEL(slot, g, q) ==
    LET refusal == Refusal(<< <<~Holds(g, {"cancel", "inspect"}), "Denied">>,
                              <<~volume.ready, "Uncertain">>,
                              <<Named(g, q) = {}, Missing(q)>> >>)
        r == CHOOSE x \in Named(g, q) : TRUE
    IN  CASE refusal # "Ok" -> {Outcome(refusal)}
          [] refusal = "Ok" /\ r.state # "Admitted" -> {Show(g, q)}
          [] OTHER -> {[Outcome("Ok") EXCEPT
                          !.job = Publication("CANCEL", slot, "cancel", r, Prevented(r, "Requested"))]}

---------------------------------------------------------------------------
(* Dispatch *)

\* The outcomes of request q on `slot'.
dispatch(slot, q) ==
    LET g == grants[slot]
        allowed == check(slot, q.bound, q.context)
    IN  IF q.op = "malformed" THEN {Outcome("Protocol")}
        ELSE IF allowed # "Ok" THEN {Outcome(allowed)}
        ELSE CASE q.op = "READ"           -> read(g, q)
               [] q.op = "REPLACE_OPEN"   -> open(slot, g, q, "Tracked")
               [] q.op = "REPLACE_CHUNK"  -> chunk(slot, g, q, "Tracked")
               [] q.op = "REPLACE_COMMIT" -> REPLACE_COMMIT(slot, g)
               [] q.op = "REPLACE_ABORT"  -> abort(slot, g, "Tracked")
               [] q.op \in {"OPERATION_ID", "OPERATION_RETRY"} -> retained(slot, g, q)
               [] q.op = "OPERATION_PART" -> part(slot, g, q)
               [] g.subject = 0           -> {Outcome("Denied")}
               [] g.subject # 0 /\ q.op = "OPEN"    -> open(slot, g, q, "Admission")
               [] g.subject # 0 /\ q.op = "CHUNK"   -> chunk(slot, g, q, "Admission")
               [] g.subject # 0 /\ q.op = "ACCEPT"  -> ACCEPT(slot, g)
               [] g.subject # 0 /\ q.op = "ABORT"   -> abort(slot, g, "Admission")
               [] g.subject # 0 /\ q.op \in {"GET", "RETRY"} -> status(g, q)
               [] g.subject # 0 /\ q.op = "EXECUTE" -> EXECUTE(slot, g, q)
               [] g.subject # 0 /\ q.op = "CANCEL"  -> CANCEL(slot, g, q)
=============================================================================
