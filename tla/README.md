# RusticOS: TLA+ models, model checking and proofs

RusticOS is a small single-core operating system in Rust: a kernel with
processes, capability-like handles, message channels and one block device, a
supervisor that launches everything else, and a file service over a
crash-consistent volume.  This directory holds TLA+ models of its stateful
parts, the TLC configurations that check them on small instances, and theorems
about them checked by TLAPS.

## Inventory of the system

| Part | Source | Kind | Module |
|---|---|---|---|
| Handle table | `kernel/src/handles/table.rs` | stateful, bounded identities | `HandleTable` |
| Message broker | `kernel/src/ipc` | stateful: channels, rings | `IpcBroker`, abstractly `Ports` |
| Block access broker and service | `kernel/src/block/access`, `process/runtime/block` | stateful, asynchronous device | `BlockService` |
| VirtIO driver | `kernel/src/drivers/block` | device protocol | answers of a poll, in `BlockService` |
| Process table, scheduler, waits | `kernel/src/process` | stateful, interleaving | `Kernel` |
| Native runtime control, shutdown | `kernel/src/process/runtime/native` | stateful | `Kernel` |
| Image staging | `native/staging.rs` | stateful, holds frames | planned |
| Memory: frames, page tables, user heap regions | `kernel/src/memory`, `arch/x86_64/memory`, `process/heap.rs` | stateful, hardware | planned (frames, regions) |
| Boot, traps, clock, PCI, serial | `kernel/src/boot`, `arch`, `time` | hardware set-up | environment actions only |
| ELF loader | `process/elf.rs` | pure parsing | not planned |
| Volume, formats 1 to 5 | `crates/fs/src` | crash-consistent storage | `VolumeFormat`, `Publication`, `FileVolume`, abstractly `AtomicVolume` |
| Volume 6 and its upgrade | `crates/fs/src/volume6`, `upgrade6.rs` | crash-consistent storage | planned |
| Volume 7 | `crates/fs/src/volume7`, `format7` | crash-consistent storage, polled | `Format7`, `Volume7`, abstractly `AtomicVolume` |
| File service, volume 7 | `crates/file-service/src/v7` | authority, transfers, admissions | `Service7` |
| File server, volume 7 | `apps/file-server/src/serving/v7`, `poller.rs` | serving loop, poller, owner control | `FileServer7` |
| File service and server, volume 5 | `crates/file-service/src`, `apps/file-server/src/serving` | authority, execution queue | planned |
| SDK: RPC, files, memory | `crates/sdk` | client protocol, allocator | planned |
| Supervisor | `apps/supervisor` | launch, grants, takeover, jobs | planned |
| Tasks | `crates/tasks-client`, `tasks-contract`, `apps/tasks` | client journal | planned |
| Shell, utilities, probes, host tools | `apps/*`, `tools/*` | presentation, tests | not planned |

The kernel is single-threaded: a system call runs to its end.  What interleaves
is processes between calls, the clock, the serial line and the device.  The
file volume is driven by a server process that can be killed between any two
disk commands, over a device with a write-back cache that can lose power.

## Modules

**`HandleTable`** (`handles/table.rs`) is the table both brokers use: a set of
entries `[id, owner, object, rights]` and the next identity.  Slots are
abstracted away (only their number matters), identities and the quota per owner
are kept.  It has operators only: `Grant`, `Resolve`, `Remove`, `Transfer`.

**`IpcBroker`** (`ipc/broker.rs`, `ipc/channel.rs`) has the state of
`Broker`: `handles`, `channels` and `nextChannel`.  A channel has two open flags
and two rings of two cells with head and length as in the code.  One action per
operation: `Connect`, `ConnectRefused` (the second grant fails and the first is
taken back), `Send`, `Receive`, `Close`, `CloseOwner`, `Transfer`.  Receive is
peek, copy and consume in one step because no user code runs in between.

**`Ports`** is what users may rely on: ports with an inbox that is a sequence.
`RefinesPorts` shows that the broker implements it.

**`BlockService`** (`block/access/queue.rs`, `process/runtime/block/service.rs`)
has the grants, the request records and the service's view of the device.
`Tick` is the whole of `Service::tick`: poll the active request, settle it,
recover the device after a timeout or protocol error, start the oldest queued
request.  The device is external: `Apply` makes a submitted mutation take
effect at any moment, also after a reset that could not be confirmed
(`quarantined`).  The ghost `told` keeps what owners were told.

**`Kernel`** (`process/lifecycle.rs`, `process/runtime`) composes both with
the process table.  `Manager::step` is the sequence `Tick`, `Pick`, one event of
the running process; every event ends with the `refresh_waiters` the code runs.
Control operations need the supervisor.  `Shutdown`, `Reclaim`, `Drain` and
`PowerOff` are the end of `run()`.

**`VolumeFormat`**, **`Publication`**, **`FileVolume`** (`crates/fs/src`) are the
volume of formats 1 to 5.  `VolumeFormat` has the sectors, the validity checks,
the choice of a bank at mount and the ordered commands of a publication.
`Publication` has the writer that settles one command at a time (with pending,
failed, cancelled and dropped publications) over a disk with a write-back cache,
kills, power losses and mount.  A command outstanding when its writer is dropped
may still be carried out at any later moment (`Lands`).  `FileVolume` has the operations: create, remove,
replace, tracked replace, admit, cancel, execute, query, advance epoch, and the
format upgrades.  A header stands for its checksums: it is valid when the
sectors of its bank hold what it names.

**`WriteBackDisk`** is the disk under both volumes: what reads see, and what each
sector may hold after a power loss.

**`Format7`**, **`Volume7`** (`crates/fs/src/format7`, `volume7`) are the volume of
format 7.  `Format7` has the validity rules of a generation
(`validate_generation`), the choice of a header at mount and the planning of
payload sectors; the node, map and receipt tables of a generation are one
multi-sector write that is spoilt at its first sector and whole at its last.
`Volume7` has create, remove, tracked replacement, admission, execution,
cancellation, retention, the two stages that upload sector by sector into
reserved sectors, and the publication each of them ends in: polled (pending,
aborted before the header, dropped) or run to its end inside the call.  A
fenced volume and an unmounted one are both `None`: either needs a mount.
Create, remove and retention change the tables in place, so a candidate that is
not valid fences the volume (`PublishInPlace`); the other operations refuse and
go on.  A payload takes at most `MAX_EXTENTS` runs of sectors.  The
ghosts `held` and `attempt` name the generation in force and the one in doubt,
`told` the records callers saw, `refused` a candidate that failed its validation.
**`MCVolume7`** lists its histories.

**`Service7`**, **`FileServer7`** (`crates/file-service/src/v7`,
`apps/file-server/src/serving/v7`) are the service on top of that volume and the
process that runs it.  `Service7` has the tables (`grants`, `transfers`,
`receipts`) and each request as a function from the state to its possible
outcomes; the volume appears at its interface only, because `Volume7` has its
inside: a generation, the open stages and whether it is fenced.  Which payload
sectors are free is not seen there, so opening a fresh upload may always answer
Full.  `FileServer7`
has the loop: `Replies`, `Admin` and `Client(slot)` are its three parts, one
request each.  A request that publishes moves the loop to `Administer`,
`OtherClients` and `Drive`, the body of the polling loop: owner's request, other
clients (told Busy), authority check and one poll.  A publication has three
commands here, the writes before its header, the header and the flush.  The other
clients are served in one step: the code reads the clock once for all of them
and what it does for one slot touches nothing of another.  The environment is the clients (which may pipeline, stop reading or go away), the
owner, the clock and the device.  The ghosts are `verdict` (the last answer),
`acked` (revocations acknowledged), `volume.doubt` (the generation a failed
publication may have left), and `authorised` and `before` in a job.
**`MCFileServer7`** lists its histories.

**`AtomicVolume`** is what the volume promises: one whole version at a time, and
it changes only to the version being published.

**`MCFileVolume`** lists the bounded histories the volume runs explore.

## Runs

| Run | Bounds | Shows |
|---|---|---|
| `ipc` | 2 owners, 2 channels, 4 identities, 3 handles per owner | one-to-one handles and sides, stale handles dead, authority only shrinks, rings are windows, refinement of `Ports` |
| `block_service` | 2 owners, 2 records, few identities, 1 silent poll | device and active record agree, no leak of records, honest effects, every request settles |
| `kernel_sched` | 3 slots, 4 identities, no channels | coherent table, round robin is fair |
| `kernel_ipc` | 2 slots, 1 channel, 3 endpoint identities, timeouts of 1 tick | no lost wakeup, timed waits end |
| `kernel_block` | 2 slots, 1 grant, 2 requests | no lost wakeup, block waits and the shutdown end |
| `kernel_owners` | 2 slots, 4 process identities, 1 channel with 3 endpoint identities, 1 block grant, 1 request, no timeouts | nothing left to the dead although slots, channels and records are used again, authority only from the supervisor, shutdown reclaims |
| `volume_faults` | 1 object, 2 contents, 4 versions; 2 power losses, or 1 kill, or 3 losses in upgrades; commands fail, publications are cancelled and dropped | refinement of `AtomicVolume`, files read back, no older-format fallback |
| `volume_retries` | 1 object, 2 records, 2 contents; 6 versions and 1 kill, or 4 versions with failing commands, abandoned publications and 1 kill | one outcome per token, records match files |
| `volume_admission` | 1 object, 2 records, 2 contents, 5 versions, new epochs; 1 kill or 1 power loss | shown records survive, every published version is readable |
| `volume7` | 2 files, 2 records, 3 payload sectors, 2 stages, up to 6 versions, in five families of histories | uploads keep their sectors and slots, generations stay intact and mountable, legal calls never prepare an invalid generation, shown records survive kills and power losses in any order, refinement of `AtomicVolume` |
| `file_server7` | 2 clients, 3 channels of one message, 2 stages, 2 records, sectors of 2 chunks, up to 5 requests and 2 owner orders, 1 device error, in eleven families of histories | revocations acknowledged after settlement, stages belong to transfers, honest answers, no execution after a lost authority, receipts name retained records, replies reach their asker, the poller drains, every request and order is answered |
| `volume_restart_then_power` | 1 kill, then 1 power loss | violation, see Finding |

Why the bounds are enough: two of each thing is where sharing, reuse and
confusion begin; the rings have two cells in the code; identities run out
within the bound, so exhaustion is reached; the third scheduler slot is what
round robin needs to pass somebody over.  A volume has two banks and two extents
per object, and both are used three times within four versions.  Two records are
what the code retains: a repeated token is then recognised although a slot is
free, one file gets two committed records (one from a scoped token,
one from an unscoped one), and an admission waits while another request changes its file.  With
three payload sectors no plan needs more than two runs, so the refusal at
`MAX_EXTENTS` is modelled and not reached.  In `ipc` one
payload suffices because a message is told apart by its sender, and the sender
changes when an endpoint moves.  `RightsMoved` and the histories bound inputs
only: a history names the operations and faults offered in it, and between them
the histories of a run offer every one its properties are about.

Deadlock is checked in the kernel and block runs.  The volume runs set
`CHECK_DEADLOCK FALSE`: a bounded history ends when its last version is
published.  So does `file_server7`: the server exits when its owner is gone.

Fairness: `WF(KernelStep)` because the boot loop never stops by itself,
`WF(Clock)` because the timer keeps interrupting, `WF(Tick)` in `BlockService`
because every kernel step ticks the service.  Nothing is assumed of the device:
its silence is ended by the request budget.  In `file_server7` the server keeps
running until it exits (the scheduler is fair: `kernel_sched`), a disk command
settles (`block_service`), and the owner and the clients in `Prompt` read their
replies; the remaining client may never read.  `ServerRuns` says weak fairness
of the server's steps in terms of `turn`, which every one of them moves; a step
is possible in every state before the exit.

## Finding

`volume_restart_then_power`: `Volume::mount` adopts the newest header it can read
and issues no flush.  If a server is killed between the header write and its
final flush and restarted with power on, the new mount answers a retry token
with a receipt that is only in the write-back cache; a later power loss brings
the older version back.  (Format 7 flushes at mount; `volume7` shows that this is
enough.)  `docs/FILE-RECOVERY.md:14` says a receipt establishes
the earlier committed version.  With one power loss alone, or one kill alone, the
property holds: `volume_admission` checks both.  `volume_faults` does not combine
the two either: what it shows of the files holds for kills or for power losses.

## Proofs

`IpcBrokerProofs` proves, for every number of owners, channels, handles and
identities, the types and the four safety properties of the `ipc` run other than the
refinement: `IpcTypes`, `IpcHandlesOwnChannels`, `IpcRings`, `IpcStaleHandles`
and `IpcAuthority`.  They follow from one inductive invariant

    IpcInv == IpcTypeOK /\ IdsIssued /\ LiveHandleOwnsChannel /\ RingsAreWindows

`IdsIssued` (every entry's identity is below the next one and no two entries
share one) is the strengthening: without it a granted identity could coincide
with a live one, and the correspondence of handles and sides would break at the
next close.  `RingsAreWindows` is needed for the types of the rings: that a pop
leaves a length in 0..2 follows from peek having seen a message.  The proof has a
lemma per action.  It assumes only `IpcAssumption`: the capacities are natural
numbers, identity spaces have at least two members, and 0 is no process.

Only model-checked: liveness (fairness and `ENABLED` are outside the prover), the
refinements of `Ports` and `AtomicVolume`, the composition in `Kernel` and the
volume.

## Plan

1. The one-way conversions to volume 6 and from 5 to 7.
2. File service and file server of volume 5: delegation, the execution queue
   and its owner control.
3. Clients: SDK RPC (a timeout poisons the binding), ranged transfers, the
   intent journal of the tasks client; the heap allocator over kernel regions.
4. Supervisor: grant sequence with lost answers, jobs, takeover, work state.
5. Kernel memory: frames, regions and image staging.
6. Proofs: the block service's `DeviceServesTheActiveRequest` and
   `RecordsBelongToLiveHandles`, the process table's `TableIsCoherent`,
   the refinement of `Ports`, the writer's phases of `Publication`.
