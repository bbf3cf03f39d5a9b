------------------------------- MODULE Kernel -------------------------------
(***************************************************************************)
(* The kernel's process manager (kernel/src/process): the fixed process    *)
(* table with its round-robin cursor, blocked processes and what they wait *)
(* for, and the system calls that tie processes to the message broker and  *)
(* the block service.  Process 1 is the supervisor, the only caller of the *)
(* control operations.                                                     *)
(*                                                                         *)
(* The kernel is single-threaded.  Manager::step is three actions here:    *)
(* Tick (block tick, refresh_waiters), Pick (schedule) and the event of    *)
(* the running process with everything the kernel does about it up to the  *)
(* trailing refresh_waiters.  Only the clock, the device and the serial    *)
(* line move between them.                                                 *)
(***************************************************************************)
EXTENDS Naturals, FiniteSets

CONSTANTS CAPACITY,        \* process slots
          MAX_PID,         \* process identities, 2^64 in the code
          MAX_WAIT,        \* ticks a WAIT_SET may ask for
          DRAIN_TICKS,     \* ticks the shutdown loop grants the block service
          Payloads, CHANNELS, ENDPOINT_HANDLES, HANDLES_PER_OWNER,
          HandleIdSpace, ChannelIdSpace,
          GRANTS, GRANTS_PER_OWNER, RECORDS, BlockIdSpace, MAX_ID,
          RightsGranted, RequestPolls,
          RightsMoved      \* the sets of rights the launcher leaves on a moved endpoint

VARIABLES slots,    \* slot to [pid, state, pending]
          cursor,   \* slot that ran last
          nextPid,
          console,  \* process that owns the console, 0 when none
          input,    \* the serial line holds unread bytes
          pc,       \* where Manager::step, or the shutdown, stands
          drain,    \* remaining ticks of the shutdown loop
          handles, channels, nextChannel,
          grants, records, nextRequest, device, quarantined, applied, told

Slots == 0 .. CAPACITY - 1
Pids  == 1 .. MAX_PID

Ipc   == INSTANCE IpcBroker WITH Owners <- Pids
Block == INSTANCE BlockService WITH Owners <- Pids

procVars  == <<slots, cursor, nextPid, console, input, pc, drain>>
ipcVars   == <<handles, channels, nextChannel>>
blockVars == <<grants, records, nextRequest, device, quarantined, applied, told>>
vars      == <<procVars, ipcVars, blockVars>>

Supervisor == 1

-----------------------------------------------------------------------------
(* Process records and what a blocked process waits for *)

Waiting(kind, hs, id, left) == [kind |-> kind, handles |-> hs, id |-> id, left |-> left]
NoWait      == Waiting("none", {}, 0, 0)
Vacant      == [pid |-> 0, state |-> "Vacant", pending |-> NoWait]
Born(pid)   == [pid |-> pid, state |-> "Dormant", pending |-> NoWait]

Live(pid) == \E s \in Slots : slots[s].pid = pid /\ slots[s].state \notin {"Vacant", "Exited"}
Known(pid) == \E s \in Slots : slots[s].pid = pid /\ pid # 0

\* Mutant of Answered: an error of the handle is no answer.
AnsweredByMessagesOnly(hs, chs, gs, rs, owner, bytes, pid, wait) ==
    CASE wait.kind = "ipc"     -> \E h \in wait.handles : Ipc!Peek(hs, chs, pid, h) = "Ok"
      [] wait.kind = "any"     -> \/ wait.left = 0
                                  \/ \E h \in wait.handles : Ipc!Peek(hs, chs, pid, h) = "Ok"
      [] wait.kind = "console" -> owner # pid \/ bytes
      [] wait.kind = "block"   -> \E h \in wait.handles :
                                     Block!Wait(gs, rs, pid, h, wait.id) = "Ok"

\* Mutant of Answered: the deadline of a WAIT_SET is not looked at.
AnsweredWithoutDeadline(hs, chs, gs, rs, owner, bytes, pid, wait) ==
    CASE wait.kind \in {"ipc", "any"} ->
                                  \E h \in wait.handles : Ipc!Peek(hs, chs, pid, h) # "WouldBlock"
      [] wait.kind = "console" -> owner # pid \/ bytes
      [] wait.kind = "block"   -> \E h \in wait.handles :
                                     Block!Wait(gs, rs, pid, h, wait.id) # "WouldBlock"

\* refresh_waiters: the wait of a blocked process has an answer.  A handle that
\* was closed or moved away answers with an error instead of sleeping on.
Answered(hs, chs, gs, rs, owner, bytes, pid, wait) ==
    CASE wait.kind = "ipc"     -> \E h \in wait.handles : Ipc!Peek(hs, chs, pid, h) # "WouldBlock"
      [] wait.kind = "any"     -> \/ wait.left = 0
                                  \/ \E h \in wait.handles : Ipc!Peek(hs, chs, pid, h) # "WouldBlock"
      [] wait.kind = "console" -> owner # pid \/ bytes
      [] wait.kind = "block"   -> \E h \in wait.handles :
                                     Block!Wait(gs, rs, pid, h, wait.id) # "WouldBlock"

\* Mutant of RefreshWaiters: readiness is taken from before the step.
RefreshWaitersEarly(st) ==
    slots' = [s \in Slots |->
                 IF /\ st[s].state = "Blocked"
                    /\ Answered(handles, channels, grants, records, console, input,
                                st[s].pid, st[s].pending)
                 THEN [st[s] EXCEPT !.state = "Ready", !.pending = NoWait]
                 ELSE st[s]]

\* The table after the handler (st) with every answered process woken.
RefreshWaiters(st) ==
    slots' = [s \in Slots |->
                 IF /\ st[s].state = "Blocked"
                    /\ Answered(handles', channels', grants', records', console', input',
                                st[s].pid, st[s].pending)
                 THEN [st[s] EXCEPT !.state = "Ready", !.pending = NoWait]
                 ELSE st[s]]

\* Mutant of Finished: the wait of a killed process stays.
FinishedKeepsWait(st, pids) ==
    [s \in Slots |-> IF st[s].pid \in pids THEN [st[s] EXCEPT !.state = "Exited"] ELSE st[s]]

\* Manager::finish: the processes stop and give up all they hold.
Finished(st, pids) ==
    [s \in Slots |-> IF st[s].pid \in pids
                     THEN [st[s] EXCEPT !.state = "Exited", !.pending = NoWait] ELSE st[s]]

\* Mutant of Release: the block service does not hear of it.
ReleaseKeepsGrants(pids) ==
    /\ console' = IF console \in pids THEN 0 ELSE console
    /\ Ipc!CloseOwners(pids)
    /\ UNCHANGED blockVars

Release(pids) ==
    /\ console' = IF console \in pids THEN 0 ELSE console
    /\ Ipc!CloseOwners(pids)
    /\ Block!CloseOwners(pids)

-----------------------------------------------------------------------------
(* run() up to its loop: the supervisor is the only process *)
Init ==
    /\ slots = [s \in Slots |-> IF s = 0 THEN [Born(Supervisor) EXCEPT !.state = "Ready"] ELSE Vacant]
    /\ cursor = CAPACITY - 1
    /\ nextPid = Supervisor + 1
    /\ console = 0 /\ input = FALSE
    /\ pc = "tick" /\ drain = DRAIN_TICKS
    /\ Ipc!IpcInit
    /\ Block!BlockInit

\* Mutant of Tick: the block service is served only when no process is ready.
TickWhenIdle ==
    /\ pc = "tick"
    /\ pc' = "pick"
    /\ IF \E s \in Slots : slots[s].state = "Ready" THEN UNCHANGED blockVars ELSE Block!Tick
    /\ UNCHANGED <<cursor, nextPid, console, input, drain, ipcVars>>
    /\ RefreshWaiters(slots)

Tick ==
    /\ pc = "tick"
    /\ pc' = "pick"
    /\ Block!Tick
    /\ UNCHANGED <<cursor, nextPid, console, input, drain, ipcVars>>
    /\ RefreshWaiters(slots)

\* Mutant of Turn: the scan begins at the slot that ran last.
TurnFromCursor == {d \in 0 .. CAPACITY - 1 : slots[(cursor + d) % CAPACITY].state = "Ready"}

\* The first ready slot after the cursor.
Turn == {d \in 1 .. CAPACITY : slots[(cursor + d) % CAPACITY].state = "Ready"}

Pick ==
    /\ pc = "pick"
    /\ \A s \in Slots : slots[s].state # "Running"
    /\ LET next == (cursor + CHOOSE d \in Turn : \A e \in Turn : d <= e) % CAPACITY IN
       IF Turn = {} THEN pc' = "tick" /\ UNCHANGED <<slots, cursor>>
       ELSE /\ pc' = "run"
            /\ cursor' = next
            /\ slots' = [slots EXCEPT ![next].state = "Running"]
    /\ UNCHANGED <<nextPid, console, input, drain, ipcVars, blockVars>>

-----------------------------------------------------------------------------
(* Events of the running process *)

Runs(s) == pc = "run" /\ slots[s].state = "Running"
Suspended(s) == [slots EXCEPT ![s].state = "Ready"]
Blocked(s, wait) == [slots EXCEPT ![s].state = "Blocked", ![s].pending = wait]

\* The end of Manager::step after a handler that left the table as st.
Return(st) ==
    /\ pc' = "tick"
    /\ UNCHANGED <<cursor, drain>>
    /\ RefreshWaiters(st)

\* A timer interrupt, or a call that is refused or only reads.
Resume(s) ==
    /\ Runs(s)
    /\ UNCHANGED <<nextPid, console, input, ipcVars, blockVars>>
    /\ Return(Suspended(s))

IpcCall(s) ==
    /\ Runs(s)
    /\ \E h \in Ipc!Ids : \/ \E m \in Payloads : Ipc!Send(slots[s].pid, h, m)
                          \/ Ipc!Receive(slots[s].pid, h)
                          \/ Ipc!Close(slots[s].pid, h)
    /\ UNCHANGED <<nextPid, console, input, blockVars>>
    /\ Return(Suspended(s))

IpcWait(s) ==
    /\ Runs(s)
    /\ UNCHANGED <<nextPid, console, input, ipcVars, blockVars>>
    /\ \E h \in Ipc!Ids :
          /\ Ipc!Peek(handles, channels, slots[s].pid, h) = "WouldBlock"
          /\ Return(Blocked(s, Waiting("ipc", {h}, 0, 0)))

WaitSet(s) ==
    /\ Runs(s)
    /\ UNCHANGED <<nextPid, console, input, ipcVars, blockVars>>
    /\ \E hs \in SUBSET {e.id : e \in handles.entries} \ {{}}, timeout \in 1 .. MAX_WAIT :
          /\ \A h \in hs : Ipc!Peek(handles, channels, slots[s].pid, h) = "WouldBlock"
          /\ Return(Blocked(s, Waiting("any", hs, 0, timeout)))

ConsoleRead(s) ==
    /\ Runs(s) /\ console = slots[s].pid /\ input
    /\ input' \in BOOLEAN
    /\ UNCHANGED <<nextPid, console, ipcVars, blockVars>>
    /\ Return(Suspended(s))

ConsoleWait(s) ==
    /\ Runs(s) /\ console = slots[s].pid /\ ~input
    /\ UNCHANGED <<nextPid, console, input, ipcVars, blockVars>>
    /\ Return(Blocked(s, Waiting("console", {}, 0, 0)))

BlockCall(s) ==
    /\ Runs(s)
    /\ \E h \in Block!GrantIds :
          \/ \E op \in Block!Operations : Block!Submit(slots[s].pid, h, op)
          \/ Block!Result(slots[s].pid, h)
          \/ Block!Close(slots[s].pid, h)
          \/ \E id \in 1 .. MAX_ID : Block!Cancel(slots[s].pid, h, id)
    /\ UNCHANGED <<nextPid, console, input, ipcVars>>
    /\ Return(Suspended(s))

BlockWait(s) ==
    /\ Runs(s)
    /\ UNCHANGED <<nextPid, console, input, ipcVars, blockVars>>
    /\ \E h \in Block!GrantIds, id \in 1 .. MAX_ID :
          /\ Block!Wait(grants, records, slots[s].pid, h, id) = "WouldBlock"
          /\ Return(Blocked(s, Waiting("block", {h}, id, 0)))

\* EXIT or a fault.  run() panics once the supervisor is gone.
Exit(s) ==
    /\ Runs(s)
    /\ pc' = IF slots[s].pid = Supervisor THEN "panic" ELSE "tick"
    /\ Release({slots[s].pid})
    /\ UNCHANGED <<cursor, nextPid, input, drain>>
    /\ RefreshWaiters(Finished(slots, {slots[s].pid}))

-----------------------------------------------------------------------------
(* Control operations of the supervisor *)

\* Mutant of Controls: the caller is not compared with the supervisor.
ControlsAnyone(s) == Runs(s)

Controls(s) == Runs(s) /\ slots[s].pid = Supervisor

VacantSlots == {v \in Slots : slots[v] = Vacant}

\* SPAWN and STAGE_COMMIT: create, hold.  A load that fails spends the identity.
Spawn(s) ==
    /\ Controls(s)
    /\ UNCHANGED <<console, input, ipcVars, blockVars>>
    /\ VacantSlots # {} /\ nextPid < MAX_PID
    /\ LET free == CHOOSE v \in VacantSlots : \A w \in VacantSlots : v <= w IN
       \/ Return([Suspended(s) EXCEPT ![free] = Born(nextPid)])
       \/ Return(Suspended(s))
    /\ nextPid' = nextPid + 1

Start(s) ==
    /\ Controls(s)
    /\ UNCHANGED <<nextPid, console, input, ipcVars, blockVars>>
    /\ \E c \in Slots : /\ slots[c].state = "Dormant"
                        /\ Return([Suspended(s) EXCEPT ![c].state = "Ready"])

ControlIpc(s) ==
    /\ Controls(s)
    /\ \/ \E a, b \in Pids : /\ Live(a) /\ Live(b)
                             /\ Ipc!Connect(a, b) \/ Ipc!ConnectRefused(a, b)
       \/ \E a, b \in Pids, h \in Ipc!Ids, rights \in RightsMoved :
             Live(a) /\ Live(b) /\ Ipc!Transfer(a, h, b, rights)
       \/ \E a \in Pids, h \in Ipc!Ids : Known(a) /\ Ipc!Close(a, h)
    /\ UNCHANGED <<nextPid, console, input, blockVars>>
    /\ Return(Suspended(s))

BlockGrant(s) ==
    /\ Controls(s)
    /\ \E p \in Pids, rights \in RightsGranted : Live(p) /\ Block!Grant(p, rights)
    /\ UNCHANGED <<nextPid, console, input, ipcVars>>
    /\ Return(Suspended(s))

ConsoleGrant(s) ==
    /\ Controls(s)
    /\ \E p \in Pids \cup {0} : (p = 0 \/ Live(p)) /\ console' = p
    /\ UNCHANGED <<nextPid, input, ipcVars, blockVars>>
    /\ Return(Suspended(s))

Kill(s) ==
    /\ Controls(s)
    /\ UNCHANGED <<nextPid, input>>
    /\ \E p \in Pids \ {Supervisor} :
          /\ Live(p)
          /\ Release({p})
          /\ Return(Finished(Suspended(s), {p}))

Reap(s) ==
    /\ Controls(s)
    /\ UNCHANGED <<nextPid, console, input, ipcVars, blockVars>>
    /\ \E c \in Slots : /\ slots[c].state = "Exited"
                        /\ Return([Suspended(s) EXCEPT ![c] = Vacant])

\* SHUTDOWN answers the supervisor; the loop of run() then leaves for good.
Shutdown(s) ==
    /\ Controls(s)
    /\ pc' = "reclaim"
    /\ UNCHANGED <<cursor, drain, nextPid, console, input, ipcVars, blockVars>>
    /\ RefreshWaiters(Suspended(s))

-----------------------------------------------------------------------------
(* The rest of run(): kill and reap every process, drain the block service *)

\* Mutant of Reclaim: children that were never started are passed over.
ReclaimStarted ==
    /\ pc = "reclaim"
    /\ pc' = "drain"
    /\ Release({p \in Pids : \E s \in Slots : slots[s].pid = p /\ slots[s].state # "Dormant"})
    /\ slots' = [s \in Slots |-> Vacant]
    /\ UNCHANGED <<cursor, nextPid, input, drain>>

Reclaim ==
    /\ pc = "reclaim"
    /\ pc' = "drain"
    /\ Release({p \in Pids : Live(p)})
    /\ slots' = [s \in Slots |-> Vacant]
    /\ UNCHANGED <<cursor, nextPid, input, drain>>

\* Mutant of Drain: the loop only waits.
DrainWithoutTick ==
    /\ pc = "drain" /\ drain > 0
    /\ drain' = drain - 1
    /\ pc' = IF grants.entries = {} /\ records = {} THEN "drained"
             ELSE IF drain' = 0 THEN "panic" ELSE "drain"
    /\ UNCHANGED <<slots, cursor, nextPid, console, input, ipcVars, blockVars>>

Drain ==
    /\ pc = "drain" /\ drain > 0
    /\ Block!Tick
    /\ drain' = drain - 1
    /\ pc' = IF grants'.entries = {} /\ records' = {} THEN "drained"
             ELSE IF drain' = 0 THEN "panic" ELSE "drain"
    /\ UNCHANGED <<slots, cursor, nextPid, console, input, ipcVars>>

\* The device may refuse its reset, and a device lost before keeps its frames.
PowerOff ==
    /\ pc = "drained"
    /\ pc' \in {"stopped", "panic"}
    /\ UNCHANGED <<slots, cursor, nextPid, console, input, drain, ipcVars, blockVars>>

Halted == pc \in {"stopped", "panic"} /\ UNCHANGED vars

-----------------------------------------------------------------------------
(* External: the clock interrupt, the serial line, the device *)

Clock ==
    /\ \E s \in Slots : slots[s].pending.left > 0
    /\ slots' = [s \in Slots |-> [slots[s] EXCEPT !.pending.left = IF @ > 0 THEN @ - 1 ELSE 0]]
    /\ UNCHANGED <<cursor, nextPid, console, input, pc, drain, ipcVars, blockVars>>

InputArrives ==
    /\ ~input /\ input' = TRUE
    /\ UNCHANGED <<slots, cursor, nextPid, console, pc, drain, ipcVars, blockVars>>

DeviceApplies ==
    /\ \E id \in 1 .. MAX_ID : Block!Apply(id)
    /\ UNCHANGED <<procVars, ipcVars>>

Event(s) ==
    \/ Resume(s) \/ IpcCall(s) \/ IpcWait(s) \/ WaitSet(s) \/ ConsoleRead(s) \/ ConsoleWait(s)
    \/ BlockCall(s) \/ BlockWait(s) \/ Exit(s)
    \/ Spawn(s) \/ Start(s) \/ ControlIpc(s) \/ BlockGrant(s) \/ ConsoleGrant(s)
    \/ Kill(s) \/ Reap(s) \/ Shutdown(s)

KernelStep == Tick \/ Pick \/ (\E s \in Slots : Event(s)) \/ Reclaim \/ Drain \/ PowerOff

Next == KernelStep \/ Halted \/ Clock \/ InputArrives \/ DeviceApplies

\* The boot loop never stops by itself and the clock keeps interrupting it.
Spec == Init /\ [][Next]_vars /\ WF_vars(KernelStep) /\ WF_vars(Clock)

-----------------------------------------------------------------------------
ASSUME KernelAssumption ==
    /\ CAPACITY \in Nat \ {0} /\ MAX_PID \in Nat \ {0, 1} /\ MAX_WAIT \in Nat
    /\ RequestPolls \in Nat /\ DRAIN_TICKS \in Nat /\ DRAIN_TICKS > RequestPolls

States == {"Vacant", "Dormant", "Ready", "Running", "Blocked", "Exited"}

\* The types of the manager's own state.
KernelTypeOK ==
    /\ slots \in [Slots -> [pid : 0 .. MAX_PID, state : States,
                            pending : [kind : {"none", "ipc", "any", "console", "block"},
                                       handles : SUBSET (Ipc!Ids \cup Block!GrantIds),
                                       id : 0 .. MAX_ID, left : 0 .. MAX_WAIT]]]
    /\ cursor \in Slots /\ nextPid \in 2 .. MAX_PID /\ console \in 0 .. MAX_PID
    /\ input \in BOOLEAN /\ drain \in 0 .. DRAIN_TICKS
    /\ pc \in {"tick", "pick", "run", "reclaim", "drain", "drained", "stopped", "panic"}

\* What the manager's expect() calls rely on ("blocked process owns a wait",
\* "native scheduling", "live slot owns process"): identities are unique, a wait
\* belongs to exactly the blocked processes, and a process is running exactly
\* between the scheduler's choice and the end of its event.
TableIsCoherent ==
    /\ \A s, t \in Slots : slots[s].pid = slots[t].pid /\ slots[s].pid # 0 => s = t
    /\ \A s \in Slots : /\ slots[s].pid = 0 <=> slots[s].state = "Vacant"
                        /\ slots[s].pid < nextPid
                        /\ slots[s].state = "Blocked" <=> slots[s].pending.kind # "none"
    /\ {s \in Slots : slots[s].state = "Running"} = IF pc = "run" THEN {cursor} ELSE {}

\* refresh_waiters loses no wakeup: a process sleeps only on a live handle of its
\* own with nothing to deliver.  A message, a peer's exit, a completion, or the
\* supervisor closing or moving the handle has always woken it already.
NoLostWakeup ==
    \A s \in Slots :
       LET w == slots[s].pending IN
       /\ w.kind \in {"ipc", "any"} =>
             \A h \in w.handles : Ipc!Peek(handles, channels, slots[s].pid, h) = "WouldBlock"
       /\ w.kind = "console" => console = slots[s].pid
       /\ w.kind = "block" =>
             \A h \in w.handles : Block!Wait(grants, records, slots[s].pid, h, w.id) = "WouldBlock"

\* Manager::finish leaves nothing behind: endpoints, grants, the console and
\* requests that are not abandoned belong to live processes, in every state of
\* exits, faults, kills, reaps and slots used again by a later process.  Nor is
\* any of it handed to an identity that is gone: the launcher names processes by
\* identity, and the control calls look it up (Manager::live).
OnlyTheLiveOwn ==
    /\ \A e \in handles.entries : Live(e.owner)
    /\ \A e \in grants.entries : Live(e.owner)
    /\ \A r \in records : ~r.abandoned => Live(r.owner)
    /\ console # 0 => Live(console)

\* "No process gets authority by naming a PID" (ipc_control.rs): endpoints,
\* grants, the console and identities are handed out only while the supervisor
\* runs, whoever receives them.
AuthorityComesFromTheSupervisor ==
    [][\/ \E s \in Slots : slots[s].pid = Supervisor /\ slots[s].state = "Running"
       \/ /\ handles'.entries \subseteq handles.entries
          /\ grants'.entries \subseteq grants.entries
          /\ console' \in {console, 0}
          /\ nextPid' = nextPid]_vars

\* The assertions at the end of run(): once every process is reclaimed no
\* endpoint, channel, grant or console is left, and the block service only holds
\* abandoned requests.
ShutdownReclaims ==
    pc \in {"drain", "drained", "stopped"} =>
       /\ \A s \in Slots : slots[s] = Vacant
       /\ handles.entries = {} /\ DOMAIN channels = {}
       /\ grants.entries = {} /\ console = 0
       /\ \A r \in records : r.abandoned

Over == pc \in {"reclaim", "drain", "drained", "stopped", "panic"}

State(pid, states) == \E s \in Slots : slots[s].pid = pid /\ slots[s].state \in states

\* Round robin starves nobody: a ready process runs, unless it is killed or the
\* system goes down first, whatever the other processes do.
ReadyProcessesRun ==
    \A p \in Pids : State(p, {"Ready"}) ~> (State(p, {"Running", "Exited"}) \/ Over)

\* A WAIT_SET returns after its timeout even if nothing ever arrives.
TimedWaitsEnd ==
    \A s \in Slots : (slots[s].pending.kind = "any") ~> (slots[s].pending.kind # "any" \/ Over)

\* A wait for a block request ends, whatever the device does.
BlockWaitsEnd ==
    \A s \in Slots : (slots[s].pending.kind = "block") ~> (slots[s].pending.kind # "block" \/ Over)

\* SHUTDOWN always gets the block service empty, abandoned requests included,
\* before the ticks of its loop run out.
ShutdownEnds == (pc = "reclaim") ~> (pc = "drained")
=============================================================================
