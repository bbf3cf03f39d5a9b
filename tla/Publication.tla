---------------------------- MODULE Publication -----------------------------
(***************************************************************************)
(* The one path by which a volume changes (crates/fs/src/publication and   *)
(* volume.rs): a writer owns the volume and its disk and settles one write *)
(* or flush at a time, the header last.  The disk has a write-back cache:  *)
(* `cache' is what reads see and `media' the contents each sector may have *)
(* after a power loss.  Servers are killed and restarted with the cache    *)
(* intact, and power is lost, at any moment.                               *)
(***************************************************************************)
EXTENDS VolumeFormat

CONSTANTS Envelope,  \* the disk carries a provisioned lineage
          Histories  \* bounds of the histories explored: records [format of the first
                     \* volume, offered: operations, and whether commands fail ("error") and
                     \* callers cancel and drop publications ("abandon"), last sequence
                     \* number, restarts, losses]

VARIABLES cache,     \* the disk as reads see it
          media,     \* what each sector may hold after a power loss
          volume,    \* the mounted volume; None: nothing is mounted
          writer,    \* the open or abandoned publication; None: there is none
          budget,    \* the history's bounds, with the restarts and losses left
          told       \* ghost: the retained records callers were shown

INSTANCE WriteBackDisk

volumeVars == <<cache, media, volume, writer, budget, told>>

Phases == {"Preparing", "ReadyToPublish", "Settling", "Committed", "Cancelled", "Uncertain"}

\* A publication of `next'; `file' is the object whose bytes it writes (0: metadata
\* only), `record' the retained record it returns (0: none) and `sync' tells the calls
\* that settle every command before they return.
Preparation(next, file, bytes, record, sync) ==
    [next |-> next, file |-> file, bytes |-> bytes, record |-> record, sync |-> sync,
     step |-> 0, phase |-> "Preparing", pending |-> FALSE, stopping |-> FALSE, open |-> TRUE]

\* A publication owns the volume while it is open; the fence is all that outlasts it.
Ready == volume # None /\ ~volume.poisoned /\ (writer # None => ~writer.open)

Metadata == volume.metadata

\* Publication::new: fenced before the first command.
Publish(next, file, bytes, record, sync) ==
    /\ writer' = Preparation(next, file, bytes, record, sync)
    /\ volume' = [volume EXCEPT !.poisoned = TRUE]
    /\ UNCHANGED <<cache, media, budget, told>>

Commands(w) ==
    (IF w.file = 0 THEN <<>> ELSE DataCommands(w.next, w.file, w.bytes))
    \o MetadataCommands(w.next, 1 - volume.bank)

Total(w) == (IF w.file = 0 THEN 0 ELSE 3) + WriteSteps(w.next)

Command(w) == Commands(w)[w.step + 1]

Driven == /\ volume # None /\ writer # None
          /\ writer.open
          /\ writer.phase \in {"Preparing", "ReadyToPublish", "Settling"}

---------------------------------------------------------------------------
(* The device *)

\* A command was submitted and nothing is known of it, whether or not its writer is still
\* there; a synchronous call always has one outstanding.
InFlight == /\ volume # None /\ writer # None
            /\ writer.phase \in {"Preparing", "ReadyToPublish", "Settling"}
            /\ writer.pending \/ writer.sync

\* The command a dropped writer left behind is carried out after all.
Lands ==
    /\ InFlight /\ ~writer.open
    /\ Applied(Command(writer))
    /\ writer' = [writer EXCEPT !.pending = FALSE]
    /\ UNCHANGED <<volume, budget, told>>

---------------------------------------------------------------------------
(* The writer *)

\* Once the header may be with the device it is too late to cancel.
Before(w) == IF w.step >= Total(w) - 2 THEN "Settling" ELSE w.phase

PhaseAt(w, step) ==
    CASE step = Total(w)     -> "Committed"
      [] step = Total(w) - 1 -> "Settling"
      [] step = Total(w) - 2 -> "ReadyToPublish"
      [] OTHER               -> "Preparing"

Pend ==
    /\ Driven /\ ~writer.sync
    /\ writer' = [writer EXCEPT !.pending = TRUE, !.phase = Before(writer)]
    /\ UNCHANGED <<cache, media, volume, budget, told>>

Fail ==
    /\ Driven /\ "error" \in budget.offered
    /\ Failed(Command(writer))
    /\ writer' = [writer EXCEPT !.pending = TRUE, !.phase = "Uncertain"]
    /\ UNCHANGED <<volume, budget, told>>

\* The result of a committed publication is shown to its caller.
Advance ==
    /\ Driven
    /\ Applied(Command(writer))
    /\ LET reached == PhaseAt(writer, writer.step + 1)
           phase   == IF writer.stopping THEN "Cancelled" ELSE reached
       IN  /\ writer' = [writer EXCEPT !.pending = FALSE, !.step = @ + 1, !.phase = phase]
           /\ volume' = IF reached = "Committed"
                        THEN [metadata |-> writer.next, bank |-> 1 - volume.bank, poisoned |-> FALSE]
                        ELSE [volume EXCEPT !.poisoned = phase # "Cancelled"]
           /\ told' = IF phase = "Committed" /\ writer.record # 0
                      THEN told \cup {writer.next.records[writer.record]} ELSE told
    /\ UNCHANGED budget

Cancel ==
    /\ volume # None /\ writer # None /\ writer.open /\ ~writer.sync
    /\ "abandon" \in budget.offered
    /\ writer.phase \in {"Preparing", "ReadyToPublish"}
    /\ IF writer.pending
       THEN /\ writer' = [writer EXCEPT !.stopping = TRUE]
            /\ UNCHANGED volume
       ELSE /\ writer' = [writer EXCEPT !.phase = "Cancelled"]
            /\ volume' = [volume EXCEPT !.poisoned = FALSE]
    /\ UNCHANGED <<cache, media, budget, told>>

\* A mistaken drop: whatever is outstanding, the volume goes on serving.
DropServes ==
    /\ volume # None /\ writer # None /\ writer.open
    /\ Driven => ~writer.sync /\ "abandon" \in budget.offered
    /\ volume' = [volume EXCEPT !.poisoned = FALSE]
    /\ writer' = IF writer.phase \in {"Committed", "Cancelled"} THEN None ELSE [writer EXCEPT !.open = FALSE]
    /\ UNCHANGED <<cache, media, budget, told>>

\* A writer dropped with a command outstanding or in doubt leaves the volume fenced.
Drop ==
    /\ volume # None /\ writer # None /\ writer.open
    /\ Driven => ~writer.sync /\ "abandon" \in budget.offered
    /\ LET safe == ~writer.pending /\ writer.phase \in {"Preparing", "ReadyToPublish"}
       IN  /\ volume' = IF safe THEN [volume EXCEPT !.poisoned = FALSE] ELSE volume
           /\ writer' = IF safe \/ writer.phase \in {"Committed", "Cancelled"}
                        THEN None ELSE [writer EXCEPT !.open = FALSE]
    /\ UNCHANGED <<cache, media, budget, told>>

---------------------------------------------------------------------------
(* Interruption and recovery *)

\* The server is killed; a command it submitted may still be carried out.
Restart ==
    /\ volume # None
    /\ budget.restarts > 0
    /\ \/ UNCHANGED <<cache, media>>
       \/ InFlight /\ Applied(Command(writer))
    /\ budget' = [budget EXCEPT !.restarts = @ - 1]
    /\ volume' = None /\ writer' = None
    /\ UNCHANGED told

PowerLoss ==
    /\ budget.losses > 0
    /\ LET submitted == InFlight /\ Command(writer).op = "write"
           m == IF submitted THEN Spread(Command(writer).sector, Command(writer).value) ELSE media
       IN  \E disk \in Remains(m) :
              /\ cache' = disk
              /\ media' = Durable(disk)
    /\ budget' = [budget EXCEPT !.losses = @ - 1]
    /\ volume' = None /\ writer' = None
    /\ UNCHANGED told

\* enable_recovery resumes over blank sectors or over its own interrupted attempt.
Resumable(disk) ==
    \A b \in Banks : /\ disk[StateSector(b)] \in {Zero, Torn, <<2, 1>>}
                     /\ \A i \in Slots : disk[RecordSector(b, i)] = None

\* A provisioned volume of format 1 gets its recovery bank while it is mounted.
Mount ==
    /\ volume = None
    /\ Select(cache) # None
    /\ LET found   == Select(cache)
           m       == found.metadata
           enabled == [m EXCEPT !.sequence = @ + 1, !.format = 2, !.epoch = 1]
       IN  IF Envelope /\ m.format = 1
           THEN /\ Resumable(cache)
                /\ volume' = [found EXCEPT !.poisoned = TRUE]
                /\ writer' = Preparation(enabled, 0, None, 0, TRUE)
           ELSE /\ volume' = found
                /\ UNCHANGED writer
    /\ UNCHANGED <<cache, media, budget, told>>

BlankDisk ==
    [s \in Sectors |-> IF s[1] \in {"node", "record"} THEN None ELSE Zero]

Formatted(m) ==
    [s \in Sectors |-> CASE s = Header(0)      -> m
                         [] s = StateSector(0) -> IF m.format = 1 THEN Zero ELSE RecoveryState(m)
                         [] OTHER              -> BlankDisk[s]]

PublicationInit ==
    /\ budget \in Histories
    /\ volume = [metadata |-> InitialMetadata(budget.format), bank |-> 0, poisoned |-> FALSE]
    /\ cache = Formatted(volume.metadata)
    /\ media = Durable(cache)
    /\ writer = None
    /\ told = {}
=============================================================================
