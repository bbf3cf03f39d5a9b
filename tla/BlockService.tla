---------------------------- MODULE BlockService ----------------------------
(***************************************************************************)
(* Block access of the kernel: the request broker (kernel/src/block/access)*)
(* and the service that owns the one device (process/runtime/block).  An   *)
(* owner has at most one request; the service feeds them to the device one *)
(* at a time and classifies what each one did.  The device is external: it *)
(* applies a submitted write or flush at any moment until it is reset, and *)
(* also later when the reset could not be confirmed.                       *)
(***************************************************************************)
EXTENDS Naturals, FiniteSets

CONSTANTS Owners,          \* process identities
          GRANTS,          \* slots of the grant table
          GRANTS_PER_OWNER,
          RECORDS,         \* request slots
          BlockIdSpace,    \* 2^56: grant identities
          MAX_ID,          \* last request identity
          RightsGranted,   \* the sets of rights the launcher grants
          RequestPolls     \* polls a request may stay unanswered (RequestBudget)

VARIABLES grants,       \* handle table of block grants
          records,      \* admitted requests
          nextRequest,  \* identity of the next request
          device,       \* the device as the service sees it
          quarantined,  \* requests left in a device whose reset failed
          applied,      \* ghost: requests whose effect reached the medium
          told          \* ghost: completions handed to owners, by identity

blockVars == <<grants, records, nextRequest, device, quarantined, applied, told>>

Operations == {"read", "write", "flush"}
Statuses   == {"Success", "Timeout", "Protocol", "Io", "Unavailable", "Cancelled"}

Grants == INSTANCE HandleTable WITH
    Capacity <- GRANTS,       PerOwner <- GRANTS_PER_OWNER,
    IdSpace  <- BlockIdSpace, Domain   <- 1,
    Allowed  <- Operations,   TransferRight <- {}

Absent   == [state |-> "absent", request |-> 0, left |-> 0]
Idle     == [state |-> "idle",   request |-> 0, left |-> 0]
Busy(id) == [state |-> "busy",   request |-> id, left |-> RequestPolls]

-----------------------------------------------------------------------------
(* The broker: operators on a set of records *)

InPhase(rs, phase) == {r \in rs : r.phase = phase}

\* Mutant of Effect: a request that timed out is taken not to have happened.
EffectOfTimeout(operation, status) ==
    IF operation = "read" \/ status \in {"Unavailable", "Timeout"} THEN "None"
    ELSE IF status = "Success" THEN "Completed" ELSE "Unknown"

Effect(operation, status) ==
    IF operation = "read" \/ status = "Unavailable" THEN "None"
    ELSE IF status = "Success" THEN "Completed" ELSE "Unknown"

\* Broker::finish on the active request: an abandoned one just frees its slot.
Finish(rs, id, status) ==
    {r \in rs : r.id # id} \cup
    {[r EXCEPT !.phase = "Complete", !.status = status,
               !.effect = Effect(r.operation, status)] :
        r \in {a \in InPhase(rs, "Active") : a.id = id /\ ~a.abandoned}}

\* Broker::start: the oldest queued request, unless one is active.
Startable(rs) ==
    {r \in InPhase(rs, "Queued") :
        /\ InPhase(rs, "Active") = {}
        /\ \A q \in InPhase(rs, "Queued") : r.id <= q.id}

Activate(rs, r) == (rs \ {r}) \cup {[r EXCEPT !.phase = "Active"]}

\* Broker::slot and Broker::wait.
Requests(gs, rs, owner, handle) ==
    {r \in rs : Grants!Resolves(gs, owner, handle, {}) /\ r.owner = owner /\ r.handle = handle}

Wait(gs, rs, owner, handle, id) ==
    IF Grants!Held(gs, owner, handle) = {} THEN "Handle"
    ELSE IF {r \in Requests(gs, rs, owner, handle) : r.id = id} = {} THEN "NoRequest"
    ELSE IF \E r \in Requests(gs, rs, owner, handle) : r.phase = "Complete"
         THEN "Ok" ELSE "WouldBlock"

\* Mutant of Drop: a completion nobody read keeps its slot.
DropKeepsComplete(rs, closed) ==
    {r \in rs : r.handle \notin closed \/ r.phase = "Complete"} \cup
    {[r EXCEPT !.abandoned = TRUE] : r \in {a \in InPhase(rs, "Active") : a.handle \in closed}}

\* Broker::close: a request in the device outlives its handle as abandoned.
Drop(rs, closed) ==
    {r \in rs : r.handle \notin closed} \cup
    {[r EXCEPT !.abandoned = TRUE] : r \in {a \in InPhase(rs, "Active") : a.handle \in closed}}

-----------------------------------------------------------------------------
BlockInit ==
    /\ grants = Grants!New
    /\ records = {}
    /\ nextRequest = 1
    /\ device = Idle
    /\ quarantined = {} /\ applied = {}
    /\ told = [id \in {} |-> "None"]

Grant(owner, rights) ==
    /\ device.state # "absent"
    /\ Grants!CanGrant(grants, owner, rights)
    /\ grants' = Grants!Grant(grants, owner, "device", rights)
    /\ UNCHANGED <<records, nextRequest, device, quarantined, applied, told>>

Submit(owner, handle, operation) ==
    /\ device.state # "absent"
    /\ Grants!Resolves(grants, owner, handle, {operation})
    /\ \A r \in records : r.owner # owner
    /\ Cardinality(records) < RECORDS
    /\ nextRequest + 1 <= MAX_ID
    /\ records' = records \cup
          {[id |-> nextRequest, owner |-> owner, handle |-> handle, operation |-> operation,
            phase |-> "Queued", abandoned |-> FALSE, status |-> "Success", effect |-> "None"]}
    /\ nextRequest' = nextRequest + 1
    /\ UNCHANGED <<grants, device, quarantined, applied, told>>

\* RESULT: peek, copy out, consume.
Result(owner, handle) ==
    \E r \in Requests(grants, records, owner, handle) :
       /\ r.phase = "Complete"
       /\ records' = records \ {r}
       /\ told' = [id \in DOMAIN told \cup {r.id} |->
                      IF id # r.id THEN told[id]
                      ELSE IF r.operation = "read" THEN "Unknown" ELSE r.effect]
       /\ UNCHANGED <<grants, nextRequest, device, quarantined, applied>>

\* CANCEL takes effect only before submission; afterwards it answers "too late".
Cancel(owner, handle, id) ==
    \E r \in Requests(grants, records, owner, handle) :
       /\ r.id = id /\ r.phase = "Queued"
       /\ records' = (records \ {r}) \cup {[r EXCEPT !.phase = "Complete", !.status = "Cancelled"]}
       /\ UNCHANGED <<grants, nextRequest, device, quarantined, applied, told>>

Close(owner, handle) ==
    /\ Grants!Held(grants, owner, handle) # {}
    /\ grants' = Grants!Remove(grants, owner, handle)
    /\ records' = Drop(records, {handle})
    /\ UNCHANGED <<nextRequest, device, quarantined, applied, told>>

CloseOwners(owners) ==
    /\ grants' = Grants!RemoveOwners(grants, owners)
    /\ records' = Drop(records, {e.id : e \in {f \in grants.entries : f.owner \in owners}})
    /\ UNCHANGED <<nextRequest, device, quarantined, applied, told>>

CloseOwner(owner) == CloseOwners({owner})

-----------------------------------------------------------------------------
(* The service: one tick polls the active request, then starts the next *)

\* A view is the part of the state a tick works on.
View(rs, dev, lost) == [records |-> rs, device |-> dev, quarantined |-> lost]

\* Service::recover: reset and reopen; the reset may fail, and a reopened
\* device may be missing or have another geometry.
Recovered(v) ==
    {[v EXCEPT !.device = Idle], [v EXCEPT !.device = Absent],
     [v EXCEPT !.device = Absent, !.quarantined = @ \cup ({v.device.request} \ {0})]}

\* Mutant of Settled: a timed-out request is finished but stays in the device.
SettledWithoutRecovery(v, id, status) ==
    LET done == [v EXCEPT !.records = Finish(@, id, status)] IN
    IF status = "Timeout" THEN {done} ELSE {[done EXCEPT !.device = Idle]}

Settled(v, id, status) ==
    LET done == [v EXCEPT !.records = Finish(@, id, status)] IN
    IF status \in {"Timeout", "Protocol"} THEN Recovered(done)
    ELSE {[done EXCEPT !.device = Idle]}

\* What one poll of the device may observe.
PollStatuses(v, r) ==
    {"Io", "Protocol", "Timeout"} \cup
    (IF r.operation = "read" \/ r.id \in applied THEN {"Success"} ELSE {})

\* Mutant of Polled: an expired budget starts over.
PolledForever(v) ==
    IF InPhase(v.records, "Active") = {} THEN {v}
    ELSE LET r == CHOOSE a \in InPhase(v.records, "Active") : TRUE IN
         UNION {Settled(v, r.id, status) : status \in PollStatuses(v, r)} \cup
         {[v EXCEPT !.device.left = IF @ > 0 THEN @ - 1 ELSE RequestPolls]}

Polled(v) ==
    IF InPhase(v.records, "Active") = {} THEN {v}
    ELSE LET r == CHOOSE a \in InPhase(v.records, "Active") : TRUE IN
         UNION {Settled(v, r.id, status) : status \in PollStatuses(v, r)} \cup
         (IF v.device.left > 0 THEN {[v EXCEPT !.device.left = @ - 1]} ELSE {})

\* A start that the device refuses has submitted nothing: Unavailable.
Started(v) ==
    IF Startable(v.records) = {} THEN {v}
    ELSE LET r      == CHOOSE q \in Startable(v.records) : TRUE
             active == [v EXCEPT !.records = Activate(@, r)]
             failed == [active EXCEPT !.records = Finish(@, r.id, "Unavailable")]
         IN  IF v.device.state = "absent" THEN {failed}
             ELSE {[active EXCEPT !.device = Busy(r.id)]} \cup Recovered(failed)

Tick ==
    \E p \in Polled(View(records, device, quarantined)) : \E v \in Started(p) :
       /\ records' = v.records
       /\ device' = v.device
       /\ quarantined' = v.quarantined
       /\ UNCHANGED <<grants, nextRequest, applied, told>>

\* External: the device performs a request it still holds.
Apply(id) ==
    /\ id \in quarantined \/ (device.state = "busy" /\ device.request = id)
    /\ id \notin applied
    /\ applied' = applied \cup {id}
    /\ UNCHANGED <<grants, records, nextRequest, device, quarantined, told>>

GrantIds == BlockIdSpace .. 2 * BlockIdSpace - 1

BlockNext ==
    \/ \E o \in Owners :
          \/ \E rights \in RightsGranted : Grant(o, rights)
          \/ CloseOwner(o)
          \/ \E h \in GrantIds :
                \/ \E op \in Operations : Submit(o, h, op)
                \/ Result(o, h)
                \/ Close(o, h)
                \/ \E id \in 1 .. MAX_ID : Cancel(o, h, id)
    \/ Tick
    \/ \E id \in 1 .. MAX_ID : Apply(id)

BlockSpec == BlockInit /\ [][BlockNext]_blockVars /\ WF_blockVars(Tick)

-----------------------------------------------------------------------------
ASSUME BlockAssumption ==
    /\ {GRANTS, GRANTS_PER_OWNER, RECORDS, MAX_ID, RequestPolls} \subseteq Nat
    /\ BlockIdSpace \in Nat \ {0, 1} /\ MAX_ID > 0
    /\ RightsGranted \subseteq SUBSET Operations

Record == [id : 1 .. MAX_ID, owner : Owners, handle : GrantIds, operation : Operations,
           phase : {"Queued", "Active", "Complete"}, abandoned : BOOLEAN,
           status : Statuses, effect : {"None", "Completed", "Unknown"}]

\* The types of the block service's state.
BlockTypeOK ==
    /\ grants \in [entries : SUBSET [id : GrantIds, owner : Owners, object : {"device"},
                                    rights : SUBSET Operations],
                   next : 1 .. BlockIdSpace - 1]
    /\ records \subseteq Record
    /\ nextRequest \in 1 .. MAX_ID
    /\ device \in [state : {"absent", "idle", "busy"}, request : 0 .. MAX_ID,
                   left : 0 .. RequestPolls]
    /\ quarantined \subseteq 1 .. MAX_ID /\ applied \subseteq 1 .. MAX_ID
    /\ told \in [DOMAIN told -> {"None", "Completed", "Unknown"}]

\* "active request owns device", "sole active request" (Service::tick, Broker::finish):
\* the device is busy exactly when one record is active, and with that record,
\* through timeouts, recoveries, cancellations and closed handles.
DeviceServesTheActiveRequest ==
    /\ \A r, s \in InPhase(records, "Active") : r = s
    /\ \A r \in InPhase(records, "Active") : device.state = "busy" /\ device.request = r.id
    /\ device.state = "busy" => InPhase(records, "Active") # {}

\* A request outlives its handle only while the device holds it; every other
\* record belongs to a live handle of its owner, so closing leaks no slot.
RecordsBelongToLiveHandles ==
    \A r \in records :
       /\ r.abandoned => r.phase = "Active"
       /\ ~r.abandoned => \E e \in grants.entries : e.id = r.handle /\ e.owner = r.owner

\* Broker::finish and Broker::cancel never misreport a mutation: "None" (refused,
\* cancelled, unavailable) means it did not and will not reach the medium,
\* "Completed" means it did.  Holds for completions waiting and already handed out.
EffectsAreHonest ==
    LET honest(id, effect) == /\ effect = "None" => id \notin applied
                              /\ effect = "Completed" => id \in applied
    IN  /\ \A r \in InPhase(records, "Complete") :
             r.operation # "read" => honest(r.id, r.effect)
        /\ \A id \in DOMAIN told : honest(id, told[id])

\* Every admitted request leaves the queue and the device: its owner can read a
\* completion, or its slot is free, whatever the device does.
EveryRequestSettles ==
    \A id \in 1 .. MAX_ID :
       (\E r \in records : r.id = id /\ r.phase # "Complete") ~>
       (\A r \in records : r.id = id => r.phase = "Complete")
=============================================================================
