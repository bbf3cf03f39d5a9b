----------------------------- MODULE FileVolume -----------------------------
(***************************************************************************)
(* The operations of a volume (crates/fs: mutations, recovery, admission): *)
(* each checks its request against the metadata and publishes the next     *)
(* version, or finds the request in the retained records and answers from  *)
(* there.  A retry token is a subject, the volume's epoch and a key; one   *)
(* workspace holds every file.  Refused requests change nothing and are    *)
(* left out.                                                               *)
(***************************************************************************)
EXTENDS Publication

CONSTANTS Subjects, Keys, Payloads

VARIABLES upgrade,  \* format being enabled; 0: none
          upgraded  \* ghost: highest format whose enabling was reported

vars == <<volumeVars, upgrade, upgraded>>

\* The next version has the next sequence number; none is left after the last.
Following(m) == [m EXCEPT !.sequence = @ + 1]

Serving(operation) ==
    /\ operation \in budget.offered
    /\ Ready /\ upgrade = 0
    /\ UNCHANGED <<upgrade, upgraded>>

Begins(operation) == Serving(operation) /\ Metadata.sequence < budget.last

Recovery(format) == Metadata.format >= format
SlotOf(id) == CHOOSE i \in Objects : Metadata.nodes[i] # None /\ Metadata.nodes[i].id = id
Ids == {n.id : n \in Nodes(Metadata)}
FreeSlots == {i \in Slots : Metadata.records[i] = None}

\* A mistaken replacement: the bytes go to the extent the volume still names.
RewrittenInPlace(m, id, bytes) ==
    [m EXCEPT !.nodes[SlotOf(id)] = [@ EXCEPT !.data = bytes, !.version = Metadata.sequence + 1]]

\* prepare_recorded: the object's other extent, under the next sequence number.
Rewritten(m, id, bytes) ==
    [m EXCEPT !.nodes[SlotOf(id)] = [@ EXCEPT !.bank = 1 - @, !.data = bytes,
                                              !.version = Metadata.sequence + 1]]

---------------------------------------------------------------------------
(* Plain mutations *)

Create ==
    /\ Begins("create")
    /\ \E i \in Objects :
          /\ i = Min({j \in Objects : Metadata.nodes[j] = None} \cup {OBJECTS + 1})
          /\ Publish([Following(Metadata) EXCEPT
                         !.next = @ + 1,
                         !.nodes[i] = EmptyNode(Metadata.next, Metadata.sequence + 1)],
                     0, None, 0, TRUE)

Remove ==
    /\ Begins("remove")
    /\ \E id \in Ids :
          Publish([Following(Metadata) EXCEPT !.nodes[SlotOf(id)] = None], 0, None, 0, TRUE)

Replace ==
    /\ Begins("replace")
    /\ \E id \in Ids, bytes \in Payloads :
          Publish(Rewritten(Following(Metadata), id, bytes), SlotOf(id), bytes, 0, FALSE)

---------------------------------------------------------------------------
(* Retained replacements *)

Requests ==
    [subject : Subjects, epoch : 1..Metadata.epoch, key : Keys, id : FirstId..(Metadata.next - 1),
     previous : 1..Metadata.sequence, data : Payloads]

Ask(request, scoped) ==
    [subject |-> request.subject, scoped |-> scoped, epoch |-> request.epoch, key |-> request.key,
     id |-> request.id, previous |-> request.previous, committed |-> 0, data |-> request.data,
     state |-> "None", number |-> 0, terminal |-> 0, reason |-> "None"]

SameArguments(r, q) == r.id = q.id /\ r.previous = q.previous /\ r.data = q.data
Retained(q) == {r \in Records(Metadata) : SameToken(r, q)}

\* A new token is accepted in the current epoch, for the file's current version, while
\* a record slot is free.
Admissible(q) ==
    /\ Retained(q) = {}
    /\ q.epoch = Metadata.epoch
    /\ q.id \in Ids
    /\ Metadata.nodes[SlotOf(q.id)].version = q.previous
    /\ FreeSlots # {}

\* The record is published with the metadata m, in the first free slot.
PublishRecord(m, r, file, sync) ==
    LET slot == Min(FreeSlots) IN
    Publish([m EXCEPT !.records[slot] = r], file, r.data, slot, sync)

\* An identical request is answered with the record it left.
Replayed(records) ==
    /\ told' = told \cup records
    /\ UNCHANGED <<cache, media, volume, writer, budget>>

Committed(r) == r.state \in {"None", "Committed"}

\* A mistaken repetition: a token used before is carried out again, over its record.
ReplaceTrackedAgain ==
    /\ Begins("track")
    /\ \E scoped \in BOOLEAN, request \in Requests :
          LET q == Ask(request, scoped)
              r == [q EXCEPT !.committed = Metadata.sequence + 1]
              again == {i \in Slots : Metadata.records[i] \in Retained(q)}
              slot  == Min(IF again = {} THEN FreeSlots ELSE again)
          IN  /\ Recovery(IF scoped THEN 3 ELSE 2)
              /\ q.epoch = Metadata.epoch /\ q.id \in Ids
              /\ Metadata.nodes[SlotOf(q.id)].version = q.previous
              /\ FreeSlots # {}
              /\ Publish([Rewritten(Following(Metadata), q.id, q.data) EXCEPT !.records[slot] = r],
                         SlotOf(q.id), r.data, slot, ~scoped)

ReplaceTracked ==
    /\ Serving("track")
    /\ \E scoped \in BOOLEAN, request \in Requests :
          LET q == Ask(request, scoped)
              r == [q EXCEPT !.committed = Metadata.sequence + 1]
          IN  /\ Recovery(IF scoped THEN 3 ELSE 2)
              /\ \/ /\ Begins("track")
                    /\ Admissible(q)
                    /\ PublishRecord(Rewritten(Following(Metadata), q.id, q.data), r, SlotOf(q.id), ~scoped)
                 \/ \E old \in Retained(q) :
                       Committed(old) /\ SameArguments(old, q) /\ Replayed({old})

---------------------------------------------------------------------------
(* Admissions *)

\* The request is retained with its arguments before anything of the file changes.
Admit ==
    /\ Serving("admit") /\ Recovery(4)
    /\ \E request \in Requests :
          LET q == Ask(request, TRUE)
              r == [q EXCEPT !.state = "Admitted", !.number = Metadata.sequence + 1]
          IN  \/ /\ Begins("admit")
                 /\ Admissible(q)
                 /\ PublishRecord(Following(Metadata), r, 0, FALSE)
              \/ \E old \in Retained(q) :
                    old.state # "None" /\ SameArguments(old, q) /\ Replayed({old})

Reasons == IF Recovery(5) THEN {"Requested", "VersionConflict", "AuthorityLost"} ELSE {"Unknown"}

\* A mistaken stamp: the cancellation carries the number of the version it replaces.
CancelStampedEarly ==
    /\ Begins("admit") /\ Recovery(4)
    /\ \E i \in Slots :
          /\ Metadata.records[i] # None /\ Metadata.records[i].state = "Admitted"
          /\ Publish([Following(Metadata) EXCEPT
                         !.records[i] = [@ EXCEPT !.state = "Cancelled", !.reason = "Unknown",
                                                  !.terminal = Metadata.sequence]],
                     0, None, i, FALSE)

CancelAdmission ==
    /\ Begins("admit") /\ Recovery(4)
    /\ \E i \in Slots, reason \in Reasons :
          /\ Metadata.records[i] # None /\ Metadata.records[i].state = "Admitted"
          /\ Publish([Following(Metadata) EXCEPT
                         !.records[i] = [@ EXCEPT !.state = "Cancelled", !.reason = reason,
                                                  !.terminal = Metadata.sequence + 1]],
                     0, None, i, FALSE)

\* A mistaken execution: the file is not looked at again.
ExecuteStale ==
    /\ Begins("admit") /\ Recovery(4)
    /\ \E i \in Slots :
          /\ Metadata.records[i] # None /\ Metadata.records[i].state = "Admitted"
          /\ LET r == Metadata.records[i]
                 done == [r EXCEPT !.state = "Committed", !.committed = Metadata.sequence + 1,
                                   !.terminal = Metadata.sequence + 1]
             IN  /\ r.id \in Ids
                 /\ Publish([Rewritten(Following(Metadata), r.id, r.data) EXCEPT !.records[i] = done],
                            SlotOf(r.id), r.data, i, FALSE)

\* Execution checks the file again; the effect and the record are one publication.
ExecuteAdmitted ==
    /\ Begins("admit") /\ Recovery(4)
    /\ \E i \in Slots :
          /\ Metadata.records[i] # None /\ Metadata.records[i].state = "Admitted"
          /\ LET r == Metadata.records[i]
                 done == [r EXCEPT !.state = "Committed", !.committed = Metadata.sequence + 1,
                                   !.terminal = Metadata.sequence + 1]
             IN  /\ r.id \in Ids /\ Metadata.nodes[SlotOf(r.id)].version = r.previous
                 /\ Publish([Rewritten(Following(Metadata), r.id, r.data) EXCEPT !.records[i] = done],
                            SlotOf(r.id), r.data, i, FALSE)

\* A query shows a record; asking to cancel or execute a settled one does the same.
Lookup ==
    /\ Serving("lookup") /\ Recovery(2)
    /\ \E r \in Records(Metadata) : Replayed({r})

---------------------------------------------------------------------------
(* Retention and one-way upgrades *)

\* A mistaken retention: the records go, their epoch stays current.
ForgetRecords ==
    /\ Begins("epoch") /\ Recovery(2)
    /\ \A r \in Records(Metadata) : r.state # "Admitted"
    /\ Publish([Following(Metadata) EXCEPT !.records = [i \in Slots |-> None]], 0, None, 0, TRUE)

AdvanceEpoch ==
    /\ Begins("epoch") /\ Recovery(2)
    /\ \A r \in Records(Metadata) : r.state # "Admitted"
    /\ Publish([Following(Metadata) EXCEPT !.epoch = @ + 1, !.records = [i \in Slots |-> None]],
               0, None, 0, TRUE)

\* enable_operations, enable_admissions and enable_prevention_reasons.
Enable ==
    /\ "upgrade" \in budget.offered /\ Ready /\ upgrade = 0 /\ Metadata.sequence + 1 < budget.last
    /\ \E level \in 3..5 :
          /\ Metadata.format >= level - 1
          /\ upgrade' = level
          /\ IF Metadata.format >= level THEN UNCHANGED volumeVars
             ELSE Publish([Following(Metadata) EXCEPT !.format = level], 0, None, 0, TRUE)
    /\ UNCHANGED upgraded

\* A mistaken upgrade: one bank is enough.
FinishEnableOneBank ==
    /\ Ready /\ upgrade # 0
    /\ upgrade' = 0 /\ upgraded' = Max({upgraded, upgrade})
    /\ UNCHANGED volumeVars

\* The other bank must not offer an older format to an older reader.
FinishEnable ==
    /\ Ready /\ upgrade # 0
    /\ LET other == ReadBank(cache, 1 - volume.bank)
       IN  IF other \notin {Zero, Torn} /\ other.format >= upgrade
           THEN /\ upgrade' = 0
                /\ upgraded' = Max({upgraded, upgrade})
                /\ UNCHANGED volumeVars
           ELSE /\ Publish(Following(Metadata), 0, None, 0, TRUE)
                /\ UNCHANGED <<upgrade, upgraded>>

---------------------------------------------------------------------------

Init ==
    /\ PublicationInit
    /\ upgrade = 0 /\ upgraded = 0

Calls == Create \/ Remove \/ Replace \/ ReplaceTracked \/ Admit \/ CancelAdmission
         \/ ExecuteAdmitted \/ Lookup \/ AdvanceEpoch

Settles == Pend \/ Fail \/ Advance \/ Cancel \/ Drop \/ Lands

Next ==
    \/ Calls
    \/ Enable
    \/ FinishEnable
    \/ Settles /\ UNCHANGED <<upgrade, upgraded>>
    \/ (Restart \/ PowerLoss) /\ upgrade' = 0 /\ UNCHANGED upgraded
    \/ Mount /\ UNCHANGED <<upgrade, upgraded>>

Spec == Init /\ [][Next]_vars

---------------------------------------------------------------------------
(* Properties *)

\* The version a caller finds, mounted or after the next mount.
Holds == IF volume # None THEN volume.metadata
         ELSE LET found == Select(cache) IN IF found = None THEN None ELSE found.metadata

Atomic == INSTANCE AtomicVolume WITH
    Nothing <- None,
    Firsts  <- {InitialMetadata(h.format) : h \in Histories},
    current <- Holds,
    attempt <- IF writer # None /\ writer.phase \notin {"Committed", "Cancelled"}
               THEN writer.next ELSE None

\* Whatever is cancelled, dropped with a command outstanding, failed, killed or cut, the
\* volume holds one whole version, and it changes only to the version whose publication was
\* open: the ordering of format/publication.rs, the fence of writer.rs and the choice of
\* Volume::mount.  A kill followed by a power loss is not covered: Volume::mount does not
\* flush what it finds, and the loss may take it back.
RefinesAtomicVolume == Atomic!Spec

\* Every file of the version the volume holds reads back with the bytes its node names:
\* a replacement goes to the extent no mountable version uses (prepare_recorded), so
\* read_versioned never meets a checksum mismatch after kills or after power losses, nor
\* after a command of a dropped publication landed late.
FilesReadBack ==
    LET m == Holds IN m # None => \A i \in Objects : ReadsBack(cache, m, i)

\* q is record r, or what an admitted request became later.
Continues(r, q) == /\ SameToken(r, q) /\ SameArguments(r, q) /\ r.number = q.number
                   /\ r.state # "Admitted" => q = r

\* "A receipt establishes the earlier committed version": a record a caller was shown is
\* still retained, with the outcome it was shown, until its epoch is retired.
ToldSurvives ==
    LET m == Holds IN
    m # None => \A r \in told : /\ r.epoch <= m.epoch
                                /\ r.epoch = m.epoch => \E q \in Records(m) : Continues(r, q)

Settled(r) == r.state \in {"None", "Committed", "Cancelled"}

\* The records a caller was shown or would find.
Known == told \cup (IF Holds = None THEN {} ELSE Records(Holds))

\* A retry token has one outcome: what it came to is never replaced by something else,
\* however often it is sent, cancelled or executed, whether or not anyone was told, with the
\* server killed, its commands failing or its callers walking away in between (the look for
\* the token in prepare_scoped and prepare_admission, the state checks of prepare_admitted
\* and prepare_cancelled).
OneOutcome ==
    [][\A r \in Known, q \in Known' : (SameToken(r, q) /\ Settled(r) /\ Settled(q)) => r = q]_vars

\* Records and files tell one story: the version a record committed carries its bytes,
\* no committed record is ahead of its file, and a request that is only admitted or was
\* cancelled has produced no version of any file.  Two committed records never overlap:
\* each took the file from the version it names, however long after its admission it was
\* executed (prepare_recorded compares the version again).
EvidenceMatchesFiles ==
    LET m == Holds IN
    m # None =>
       /\ \A r \in Records(m), n \in Nodes(m) :
             /\ r.committed = n.version => (n.id = r.id /\ n.data = r.data)
             /\ (Committed(r) /\ n.id = r.id) => n.version >= r.committed
             /\ ~Committed(r) => n.version \notin {r.number, r.terminal}
       /\ \A r, q \in Records(m) :
             (r # q /\ r.id = q.id /\ Committed(r) /\ Committed(q)) =>
                r.committed <= q.previous \/ q.committed <= r.previous

\* Every version an operation publishes passes the checks of Metadata::read, so no
\* sequence of calls can commit metadata the next mount rejects.
PublishesReadable == writer # None => Valid(writer.next)

\* "A successful upgrade leaves no older-format fallback for an old kernel to silently
\* select": once enabling a format was reported, no bank mounts with an older one.
NoOlderFallback ==
    \A b \in Banks : LET m == ReadBank(cache, b)
                     IN  m \notin {Zero, Torn} => m.format >= upgraded
=============================================================================
