----------------------------- MODULE FileServer7 ----------------------------
(***************************************************************************)
(* The server of format 7 volumes (apps/file-server: serving/v7.rs,        *)
(* serving/v7/control.rs, publication.rs, poller.rs) around the service of *)
(* module Service7.  One loop sends queued replies, takes one request of   *)
(* the owner and one of each client.  A request that publishes is polled   *)
(* to its end inside the loop; between two polls the owner may revoke or   *)
(* detach clients and the other clients are told Busy.  Clients, the owner *)
(* and the device interleave freely; clients may stop reading their        *)
(* replies or go away, and so may the owner.                               *)
(***************************************************************************)
EXTENDS Service7

CONSTANTS Ends,       \* endpoints the owner can grant to clients
          CAP,        \* messages a channel holds in one direction
          LAST,       \* the last context number, 2^32 - 1 in the code
          Prompt,     \* endpoints whose clients keep reading their replies
          Histories   \* bounds of the histories explored

VARIABLES turn,         \* where the loop is: at the replies, the owner, a client, or while it polls
                        \* a publication at the owner's control, the other clients or the drive
          now,          \* the clock the loop last read
          nextContext,
          replies,      \* per slot: the reply waiting to be sent, or None
          adminReply,   \* the same for the owner
          deferred,     \* the revocation to acknowledge once the publication has settled
          leaving,      \* the owner was lost during a publication
          ends,         \* per endpoint: [state, inbox, outbox, asked, taken]
          admin,        \* the owner's channel, alike
          budget,       \* what is left of the history's bounds
          verdict,      \* ghost: the last answer of the service, until its next step
          acked         \* ghost: contexts whose revocation was acknowledged

vars == <<clock, grants, transfers, receipts, volume, job, command, turn, now, nextContext, replies,
          adminReply, deferred, leaving, ends, admin, budget, verdict, acked>>

serviceVars == <<grants, transfers, receipts, volume, job, command>>
loopVars    == <<turn, now, nextContext, replies, adminReply, deferred, leaving, verdict, acked>>

---------------------------------------------------------------------------
(* Channels *)

Channel == [state |-> "open", inbox |-> <<>>, outbox |-> <<>>, asked |-> 0, taken |-> 0]

Full(c)  == Len(c.outbox) = CAP
Sent(c, m) == [c EXCEPT !.outbox = Append(@, m)]
Read(c)  == [c EXCEPT !.inbox = Tail(@)]
\* The server's end is closed: what it sent stays readable.
Shut(c)  == [c EXCEPT !.state = "shut", !.inbox = <<>>]

Granted == {s \in Slots : grants[s] # None}
EndOf(s) == grants[s].endpoint

\* close_slot of each of `slots': endpoint closed, grant and queued reply forgotten.
Closed(channels, slots) ==
    [e \in Ends |-> IF \E s \in slots \cap Granted : EndOf(s) = e THEN Shut(channels[e]) ELSE channels[e]]

Without(table, slots) == [s \in Slots |-> IF s \in slots THEN None ELSE table[s]]

At(slot) == <<"client", slot>>
Following(slot) == IF slot = CLIENTS THEN <<"replies">> ELSE At(slot + 1)

\* The service takes over an outcome.
Adopt(out) ==
    /\ transfers' = out.transfers /\ receipts' = out.receipts /\ volume' = out.volume
    /\ out.failed => budget.errors > 0
    /\ budget' = IF out.failed THEN [budget EXCEPT !.errors = @ - 1] ELSE budget

\* The process ends, having sent what is in `channels': the kernel closes every endpoint it
\* holds.
Exit(channels) ==
    /\ turn' = <<"exited">>
    /\ ends' = [e \in Ends |-> Shut(channels[e])]
    /\ admin' = Shut(admin)
    /\ grants' = Without(grants, Slots)
    /\ replies' = Without(replies, Slots) /\ adminReply' = None
    /\ job' = None /\ command' = None /\ deferred' = None
    /\ UNCHANGED <<clock, now, nextContext, acked>>

---------------------------------------------------------------------------
(* The loop *)

\* Queued replies are sent; a client whose grant expired, or who is gone, is closed.
Replies ==
    LET dead == {s \in Slots : replies[s] # None /\ grants[s] # None
                               /\ (Expired(grants[s]) \/ ends[EndOf(s)].state # "open")}
        out  == {s \in Slots \ dead : replies[s] # None /\ grants[s] # None /\ ~Full(ends[EndOf(s)])}
        kept == {s \in Slots \ (dead \cup out) : replies[s] # None /\ grants[s] # None}
        after == [e \in Ends |-> IF \E s \in out : EndOf(s) = e
                                 THEN Sent(ends[e], replies[CHOOSE s \in out : EndOf(s) = e])
                                 ELSE Closed(ends, dead)[e]]
    IN  /\ turn = <<"replies">>
        /\ IF adminReply # None /\ admin.state # "open"
           THEN Exit(after) /\ UNCHANGED <<transfers, receipts, volume, budget>>
           ELSE /\ Adopt(reset(Outcome("Ok"), dead))
                /\ grants' = Without(grants, dead)
                /\ replies' = [s \in Slots |-> IF s \in kept THEN replies[s] ELSE None]
                /\ ends' = after
                /\ IF adminReply # None /\ ~Full(admin)
                   THEN admin' = Sent(admin, adminReply) /\ adminReply' = None
                   ELSE UNCHANGED <<admin, adminReply>>
                /\ turn' = <<"admin">>
                /\ UNCHANGED <<clock, now, job, command, nextContext, deferred, acked>>
        /\ verdict' = None /\ UNCHANGED leaving

\* The owner's request m, whose answer is queued.
Acknowledge(m, answer) == adminReply' = [serial |-> m.serial, status |-> answer] /\ admin' = Read(admin)

\* Why a profile is not granted: rights and subject do not fit, the directory it is for does
\* not exist or is not a workspace, or the contexts are used up.
Ungrantable(profile) ==
    Refusal(<< <<\/ profile.rights \notin {READ_ONLY7, TRACKED_WRITE7, ADMISSION7}
                 \/ (profile.rights = READ_ONLY7) # (profile.subject = 0), "Invalid">>,
               <<~volume.ready, "Uncertain">>,
               <<profile.root = "missing", "Invalid">>,
               <<profile.root = "elsewhere", "Denied">>,
               <<nextContext = LAST, "Exhausted">> >>)

Granting(profile, endpoint, context) ==
    [endpoint |-> endpoint, context |-> context, revoked |-> FALSE, rights |-> profile.rights,
     subject |-> profile.subject, scope |-> profile.scope, expires |-> profile.expires]

\* Mutant: the reply queued for the slot's previous client stays queued.
GRANTKeepsReply(m) ==
    LET slot == m.slot
        old  == grants[slot]
    IN  IF Ungrantable(m.profile) # "Ok"
        THEN /\ Acknowledge(m, Ungrantable(m.profile))
             /\ UNCHANGED <<grants, nextContext, replies, ends, transfers, receipts, volume, budget>>
        ELSE /\ Acknowledge(m, "Ok")
             /\ grants' = [grants EXCEPT ![slot] = Granting(m.profile, m.endpoint, nextContext)]
             /\ nextContext' = nextContext + 1
             /\ Adopt(reset(Outcome("Ok"), {slot}))
             /\ UNCHANGED replies
             /\ ends' = IF old # None /\ old.endpoint # m.endpoint THEN Closed(ends, {slot}) ELSE ends

\* A grant replaces whatever the slot held; the previous client's endpoint is closed and its
\* queued reply forgotten.
GRANT(m) ==
    LET slot == m.slot
        old  == grants[slot]
    IN  IF Ungrantable(m.profile) # "Ok"
        THEN /\ Acknowledge(m, Ungrantable(m.profile))
             /\ UNCHANGED <<grants, nextContext, replies, ends, transfers, receipts, volume, budget>>
        ELSE /\ Acknowledge(m, "Ok")
             /\ grants' = [grants EXCEPT ![slot] = Granting(m.profile, m.endpoint, nextContext)]
             /\ nextContext' = nextContext + 1
             /\ Adopt(reset(Outcome("Ok"), {slot}))
             /\ replies' = Without(replies, {slot})
             /\ ends' = IF old # None /\ old.endpoint # m.endpoint THEN Closed(ends, {slot}) ELSE ends

close_slot(slot) ==
    /\ Adopt(reset(Outcome("Ok"), {slot}))
    /\ grants' = Without(grants, {slot})
    /\ replies' = Without(replies, {slot})
    /\ ends' = Closed(ends, {slot})
    /\ UNCHANGED nextContext

REVOKE(m) ==
    IF grants[m.slot] = None
    THEN /\ Acknowledge(m, "NotFound") /\ UNCHANGED acked
         /\ UNCHANGED <<grants, nextContext, replies, ends, transfers, receipts, volume, budget>>
    ELSE Acknowledge(m, "Ok") /\ close_slot(m.slot) /\ acked' = acked \cup {grants[m.slot].context}

MAINTAIN(m) ==
    /\ \E out \in maintain_retention : Adopt(out) /\ Acknowledge(m, out.status)
    /\ UNCHANGED <<grants, nextContext, replies, ends>>

\* One request of the owner, unless the answer to the last one is still waiting.
Admin ==
    /\ turn = <<"admin">>
    /\ IF adminReply = None /\ admin.inbox = <<>> /\ admin.state # "open"
       THEN Exit(ends) /\ UNCHANGED <<transfers, receipts, volume, budget>>
       ELSE /\ IF adminReply # None \/ admin.inbox = <<>>
               THEN UNCHANGED <<adminReply, admin, grants, nextContext, replies, ends, transfers, receipts,
                                volume, budget, acked>>
               ELSE LET m == Head(admin.inbox)
                    IN  \/ m.op = "GRANT" /\ GRANT(m) /\ UNCHANGED acked
                        \/ m.op = "REVOKE" /\ REVOKE(m)
                        \/ m.op = "DETACH" /\ Acknowledge(m, "Ok") /\ close_slot(m.slot) /\ UNCHANGED acked
                        \/ m.op = "MAINTAIN" /\ MAINTAIN(m) /\ UNCHANGED acked
                        \/ /\ m.op = "PROBE" /\ Acknowledge(m, "Ok")
                           /\ UNCHANGED <<grants, nextContext, replies, ends, transfers, receipts, volume,
                                          budget, acked>>
            /\ turn' = At(1) /\ now' = clock
            /\ UNCHANGED <<clock, job, command, deferred>>
    /\ verdict' = None /\ UNCHANGED leaving

\* The service's last answer: what it shows, and the volume when its request came.
Verdict(op, answer, shown, polled, before) ==
    [op |-> op, status |-> answer, shown |-> shown, polled |-> polled, before |-> before]

Reply(serial, endpoint, answer) == [serial |-> serial, from |-> endpoint, status |-> answer]

\* One request of the client on the slot, unless its last reply is still waiting.  The loop
\* read the clock before its first client; the service reads it again.
Client(slot) ==
    LET g == grants[slot]
        c == ends[g.endpoint]
        q == Head(c.inbox)
        late == g # None /\ g.expires # 0 /\ now >= g.expires
        free == g # None /\ ~late /\ replies[slot] = None
    IN  /\ turn = At(slot)
        /\ \/ /\ late \/ (free /\ c.inbox = <<>> /\ c.state # "open")
              /\ close_slot(slot)
              /\ turn' = Following(slot) /\ verdict' = None
              /\ UNCHANGED <<job, command>>
           \/ /\ ~late /\ (~free \/ (free /\ c.inbox = <<>> /\ c.state = "open"))
              /\ turn' = Following(slot) /\ verdict' = None
              /\ UNCHANGED <<serviceVars, replies, ends, nextContext, budget>>
           \/ /\ free /\ c.inbox # <<>>
              /\ ends' = [ends EXCEPT ![g.endpoint] = Read(@)]
              /\ \E out \in dispatch(slot, q) :
                    /\ Adopt(out)
                    /\ IF out.job # None
                       THEN /\ job' = [out.job EXCEPT !.serial = q.serial]
                            /\ turn' = <<"control">> /\ verdict' = None /\ UNCHANGED replies
                       ELSE /\ replies' = [replies EXCEPT ![slot] = Reply(q.serial, g.endpoint, out.status)]
                            /\ verdict' = Verdict(q.op, out.status, out.shown, FALSE, volume)
                            /\ turn' = Following(slot) /\ UNCHANGED job
              /\ UNCHANGED <<grants, nextContext, command>>
        /\ UNCHANGED <<clock, now, adminReply, admin, deferred, leaving, acked>>

---------------------------------------------------------------------------
(* Polling a publication *)

\* Mutant: a revocation is acknowledged at once.
AdministerAtOnce(m, channel) ==
    LET slot == m.slot
        known == grants[slot] # None
        closing == m.op = "DETACH" \/ (m.op = "REVOKE" /\ known)
    IN  /\ admin' = Read(channel)
        /\ IF closing
           THEN /\ grants' = Without(grants, {slot}) /\ replies' = Without(replies, {slot})
                /\ ends' = Closed(ends, {slot})
                /\ job' = [job EXCEPT !.lost = @ \cup {slot}]
           ELSE UNCHANGED <<grants, replies, ends, job>>
        /\ adminReply' = [serial |-> m.serial, status |-> IF closing THEN "Ok" ELSE "Busy"]
        /\ acked' = IF m.op = "REVOKE" /\ known THEN acked \cup {grants[slot].context} ELSE acked
        /\ UNCHANGED deferred

\* The owner's request m during a publication, taken from `channel': a slot may be closed
\* and is reset later; a revocation is acknowledged only after the publication; what needs
\* the whole service is refused.
administer(m, channel) ==
    LET slot == m.slot
        known == grants[slot] # None
        closing == m.op = "DETACH" \/ (m.op = "REVOKE" /\ known)
    IN  /\ admin' = Read(channel)
        /\ IF closing
           THEN /\ grants' = Without(grants, {slot}) /\ replies' = Without(replies, {slot})
                /\ ends' = Closed(ends, {slot})
                /\ job' = [job EXCEPT !.lost = @ \cup {slot}]
           ELSE UNCHANGED <<grants, replies, ends, job>>
        /\ IF m.op = "REVOKE" /\ known
           THEN /\ deferred' = [serial |-> m.serial, context |-> grants[slot].context]
                /\ adminReply' = None
           ELSE /\ adminReply' = [serial |-> m.serial,
                                  status |-> CASE m.op = "REVOKE" -> "NotFound"
                                               [] m.op \in {"DETACH", "PROBE"} -> "Ok"
                                               [] OTHER -> "Busy"]
                /\ UNCHANGED deferred
        /\ UNCHANGED acked

\* The owner's turn between two polls: its queued reply is sent, then one request is
\* taken.  Nothing more is taken while a revocation waits for its acknowledgement.
Administer ==
    LET blocked == deferred # None \/ leaving \/ (adminReply # None /\ admin.state = "open" /\ Full(admin))
        broken == admin.state # "open" /\ (adminReply # None \/ admin.inbox = <<>>)
        channel == IF adminReply = None THEN admin ELSE Sent(admin, adminReply)
    IN  /\ turn = <<"control">>
        /\ \/ /\ ~blocked /\ ~broken /\ admin.inbox # <<>>
              /\ administer(Head(admin.inbox), channel)
              /\ UNCHANGED leaving
           \/ /\ ~blocked /\ ~broken /\ admin.inbox = <<>>
              /\ admin' = channel /\ adminReply' = None
              /\ UNCHANGED <<grants, replies, ends, job, deferred, acked, leaving>>
           \/ /\ blocked \/ broken
              /\ leaving' = (leaving \/ (~blocked /\ broken))
              /\ UNCHANGED <<admin, adminReply, grants, replies, ends, job, deferred, acked>>
        /\ turn' = <<"clients">> /\ verdict' = None
        /\ UNCHANGED <<clock, now, transfers, receipts, volume, command, nextContext, budget>>

\* The other clients' turn: a queued reply is sent, then one request is answered Busy.  The
\* clock is read once for all of them, and what is done for one slot touches nothing of
\* another, so that the slots are served in one step.
\* Without its owner the server closes them all, the publishing one included.
OtherClients ==
    LET others == {s \in Slots \ {job.slot} : grants[s] # None}
        channel(s) == ends[EndOf(s)]
        gone == IF leaving THEN Slots
                ELSE {s \in others : \/ Expired(grants[s])
                                     \/ channel(s).state # "open" /\ (replies[s] # None \/ channel(s).inbox = <<>>)}
        live == others \ gone
        flushed == {s \in live : replies[s] # None /\ ~Full(channel(s))}
        asking == {s \in live : (replies[s] = None \/ s \in flushed) /\ channel(s).inbox # <<>>}
        after(s) == LET c == IF s \in flushed THEN Sent(channel(s), replies[s]) ELSE channel(s)
                    IN  IF s \in asking THEN Read(c) ELSE c
    IN  /\ turn = <<"clients">>
        /\ grants' = Without(grants, gone)
        /\ job' = [job EXCEPT !.lost = @ \cup gone]
        /\ ends' = [e \in Ends |-> IF \E s \in live : EndOf(s) = e THEN after(CHOOSE s \in live : EndOf(s) = e)
                                   ELSE Closed(ends, gone)[e]]
        /\ replies' = [s \in Slots |->
                         IF s \in asking THEN LET q == Head(channel(s).inbox)
                              IN  Reply(q.serial, EndOf(s), IF q.op = "malformed" THEN "Protocol" ELSE "Busy")
                         ELSE IF s \in live \ flushed THEN replies[s] ELSE None]
        /\ turn' = <<"drive">>
        /\ UNCHANGED <<clock, now, transfers, receipts, volume, command, nextContext, adminReply, admin, deferred,
                       leaving, budget, verdict, acked>>

Settling(j) == j.step = "flush" \/ (j.step = "header" /\ command # None)

\* Mutant: an outstanding command is not waited for.
AbortWithoutDraining(j) ==
    IF Settling(j) \/ j.step \in {"done", "stopped"} THEN j ELSE [j EXCEPT !.step = "stopped"]

\* Stops a publication whose header was not submitted; an outstanding command drains first.
abort_before_header(j) ==
    IF Settling(j) \/ j.step \in {"done", "stopped"} THEN j
    ELSE IF command # None THEN [j EXCEPT !.stopping = TRUE]
    ELSE [j EXCEPT !.step = "stopped"]

caller_holds(j) ==
    LET allowed == check(j.slot, TRUE, j.context)
    IN  Refusal(<< <<allowed # "Ok", allowed>>,
                   <<allowed = "Ok" /\ ~Holds(grants[j.slot], {j.right}), "Denied">> >>)

\* Mutant: a loss stops the publication one poll later.
CheckedLate(j) ==
    LET allowed == IF j.right = None \/ j.denied # None THEN "Ok" ELSE caller_holds(j)
        seen == [j EXCEPT !.denied = IF allowed = "Ok" THEN @ ELSE allowed,
                          !.lost = @ \cup {s \in Slots : expire[s] # grants[s]}]
    IN  IF j.denied = None \/ j.right = None THEN seen ELSE abort_before_header(seen)

\* Before every poll the caller's authority is checked again; its loss stops the
\* publication.  The service's own publication (right None) goes on.
Checked(j) ==
    LET allowed == IF j.right = None \/ j.denied # None THEN "Ok" ELSE caller_holds(j)
        seen == [j EXCEPT !.denied = IF allowed = "Ok" THEN @ ELSE allowed,
                          !.lost = @ \cup {s \in Slots : expire[s] # grants[s]}]
    IN  IF seen.denied = None \/ j.right = None THEN seen ELSE abort_before_header(seen)

\* The request of job j ends with `answer', leaving these replies to the clients and to the
\* owner: slots that lost their grants are reset.
RequestEnds(j, answer, out, toClients, toOwner) ==
    /\ Adopt(reset(out, j.lost))
    /\ verdict' = Verdict(j.kind, answer, IF answer = "Uncertain" THEN None ELSE j.result, TRUE, j.before)
    /\ IF leaving THEN Exit(ends)
       ELSE /\ grants' = expire
            /\ replies' = toClients /\ adminReply' = toOwner
            /\ acked' = IF deferred = None THEN acked ELSE acked \cup {deferred.context}
            /\ turn' = Following(j.slot)
            /\ job' = None /\ deferred' = None
            /\ UNCHANGED <<clock, now, nextContext, ends, admin>>

Acknowledged == IF deferred = None THEN adminReply ELSE [serial |-> deferred.serial, status |-> "Ok"]

\* The client, if still there, gets its reply.
Told(j, answer) ==
    IF grants[j.slot] = None THEN replies
    ELSE [replies EXCEPT ![j.slot] = Reply(j.serial, j.endpoint, answer)]

\* Mutant: the deferred revocation is not acknowledged.
AnswerClientOnly(j, answer, out) == RequestEnds(j, answer, out, Told(j, answer), adminReply)

\* A deferred revocation is acknowledged with the client's reply.
Answer(j, answer, out) == RequestEnds(j, answer, out, Told(j, answer), Acknowledged)

\* The drive loop goes on with job j.
Continue(j) ==
    /\ job' = j /\ grants' = expire /\ turn' = <<"control">> /\ verdict' = None
    /\ UNCHANGED <<clock, now, transfers, receipts, nextContext, replies, adminReply, deferred, ends, admin, acked>>

\* The service's own cancellation of an admission that must never run.
authority_lost(j) ==
    LET r == Prevented(j.admitted, "AuthorityLost")
    IN  [j EXCEPT !.right = None, !.result = r, !.next = WithRecord(r), !.step = "work", !.stopping = FALSE]

\* Mutant: a settled effect is answered with the caller's authority error.
SettledAsDenied(j) ==
    LET done == j.step = "done"
        denied == j.denied # None
        cancels == j.right # None /\ denied /\ ((j.kind = "ACCEPT" /\ done) \/ (j.kind = "EXECUTE" /\ ~done))
    IN  IF cancels
        THEN Continue(authority_lost(j)) /\ UNCHANGED <<volume, command, budget>>
        ELSE Answer(j, IF ~denied THEN "Ok" ELSE j.denied, Outcome("Ok")) /\ UNCHANGED command

\* Mutant: nothing is cancelled for a lost authority.
SettledWithoutCancelling(j) ==
    LET done == j.step = "done"
        denied == j.denied # None
    IN  /\ Answer(j, IF ~denied THEN "Ok"
                     ELSE IF done /\ j.right # None /\ j.kind # "ACCEPT" THEN "Uncertain" ELSE j.denied,
                  Outcome("Ok"))
        /\ UNCHANGED command

\* The publication of j has settled or was stopped.  An admission that settles after its
\* client lost its authority is cancelled, and so is one whose execution was stopped.
Settled(j) ==
    LET done == j.step = "done"
        denied == j.denied # None
        cancels == j.right # None /\ denied /\ ((j.kind = "ACCEPT" /\ done) \/ (j.kind = "EXECUTE" /\ ~done))
    IN  IF cancels
        THEN Continue(authority_lost(j)) /\ UNCHANGED <<volume, command, budget>>
        ELSE /\ Answer(j, IF ~denied THEN "Ok"
                          ELSE IF done /\ j.right # None /\ j.kind # "ACCEPT" THEN "Uncertain" ELSE j.denied,
                       Outcome("Ok"))
             /\ UNCHANGED command

\* The publication of j fails: the volume is fenced and cached receipts are forgotten.
FailedPoll(j, failed) ==
    Answer(j, "Uncertain",
           [Outcome("Uncertain") EXCEPT
              !.failed = failed, !.receipts = NoReceipts,
              !.volume.ready = FALSE, !.volume.doubt = IF Settling(j) THEN j.next ELSE None])

NextStep(step) == CASE step = "work" -> "header" [] step = "header" -> "flush" [] step = "flush" -> "done"

\* One poll: the next command is submitted, or the outstanding one looked at.  A command
\* other than the outstanding one is never submitted: the poller fails.
poll_advance(j) ==
    \/ /\ command = None
       /\ command' = [of |-> j.step, result |-> "Pending"]
       /\ Continue([j EXCEPT !.authorised = @ \/ (j.step = "header" /\ j.right # None /\ caller_holds(j) = "Ok")])
       /\ UNCHANGED <<volume, budget>>
    \/ /\ command # None /\ command.of = j.step /\ command.result = "Pending"
       /\ Continue(j)
       /\ UNCHANGED <<volume, budget, command>>
    \/ /\ command # None /\ command.of = j.step /\ command.result = "Ok"
       /\ command' = None
       /\ Continue([j EXCEPT !.step = IF j.stopping THEN "stopped" ELSE NextStep(@)])
       /\ volume' = IF j.step = "flush" THEN [volume EXCEPT !.now = j.next] ELSE volume
       /\ UNCHANGED budget
    \/ /\ command # None /\ (command.of # j.step \/ command.result = "Error")
       /\ FailedPoll(j, FALSE)
       /\ command' = None
    \/ /\ command = None
       /\ FailedPoll(j, TRUE)
       /\ UNCHANGED command

Drive ==
    /\ turn = <<"drive">>
    /\ LET j == Checked(job)
       IN  IF j.step \in {"done", "stopped"} THEN Settled(j) ELSE poll_advance(j)
    /\ UNCHANGED leaving

---------------------------------------------------------------------------
(* Clients, owner, clock and device *)

Blank == [op |-> None, bound |-> TRUE, context |-> 0, serial |-> 0, object |-> None, key |-> 0, epoch |-> 0,
          previous |-> 0, size |-> 0, value |-> None, number |-> 0, subject |-> 0]

\* What the client of `slot' may ask.  A stranger holds an endpoint granted to another
\* process; a stale client names an earlier context.
Requests(slot) ==
    LET generation == volume.now
        from(caller) == [Blank EXCEPT !.serial = ends[EndOf(slot)].asked + 1, !.bound = caller # "stranger",
                                      !.context = IF caller = "stale" THEN 0 ELSE grants[slot].context]
        asks(op, b) ==
            CASE op \in {"OPEN", "REPLACE_OPEN"} ->
                   {[b EXCEPT !.object = o, !.key = k, !.epoch = generation.epoch, !.size = n,
                              !.previous = v] :
                       o \in DOMAIN generation.files, k \in budget.keys, n \in budget.sizes,
                       v \in {generation.files[x].version : x \in DOMAIN generation.files}
                             \cup {r.previous : r \in generation.records}}
              [] op \in {"CHUNK", "REPLACE_CHUNK"} -> {[b EXCEPT !.value = v] : v \in budget.payloads}
              [] op = "READ" -> {[b EXCEPT !.object = o, !.previous = generation.files[o].version] :
                                    o \in DOMAIN generation.files}
              [] op \in {"GET", "EXECUTE", "CANCEL"} ->
                   {[b EXCEPT !.number = r.number] : r \in {x \in generation.records : x.number # 0}}
              [] op \in {"OPERATION_ID", "OPERATION_PART"} ->
                   {[b EXCEPT !.number = r.committed] : r \in {x \in generation.records : x.committed # 0}}
              [] op \in {"RETRY", "OPERATION_RETRY"} ->
                   {[b EXCEPT !.key = k, !.epoch = generation.epoch] : k \in budget.keys}
              [] OTHER -> {b}
    IN  UNION {asks(op, [from(caller) EXCEPT !.op = op]) : op \in budget.offered[EndOf(slot)], caller \in budget.callers}

Ask(e) ==
    \E s \in Granted :
        /\ EndOf(s) = e /\ ends[e].state = "open" /\ Len(ends[e].inbox) < CAP
        /\ budget.requests[e] > 0
        /\ ends[e].asked - ends[e].taken < budget.window
        /\ \E q \in Requests(s) : ends' = [ends EXCEPT ![e].inbox = Append(@, q), ![e].asked = @ + 1]
        /\ budget' = [budget EXCEPT !.requests[e] = @ - 1]
        /\ UNCHANGED <<clock, serviceVars, loopVars, admin>>

Take(e) ==
    /\ ends[e].outbox # <<>>
    /\ ends' = [ends EXCEPT ![e].outbox = Tail(@), ![e].taken = @ + 1]
    /\ UNCHANGED <<clock, serviceVars, loopVars, admin, budget>>

Leave(e) ==
    /\ ends[e].state = "open" /\ e \in budget.leavers
    /\ ends' = [ends EXCEPT ![e].state = "left", ![e].outbox = <<>>]
    /\ UNCHANGED <<clock, serviceVars, loopVars, admin, budget>>

\* What the owner may ask; a grant is for a channel nobody used yet.
Orders ==
    LET b == [op |-> None, serial |-> admin.asked + 1, slot |-> 1, endpoint |-> 0, profile |-> None]
    IN  UNION {CASE op = "GRANT" ->
                      {[b EXCEPT !.op = op, !.slot = s, !.endpoint = e, !.profile = p] :
                          s \in Slots, e \in {x \in Ends : ends[x] = Channel /\ x \notin {EndOf(t) : t \in Granted}},
                          p \in budget.profiles}
                 [] op \in {"REVOKE", "DETACH"} -> {[b EXCEPT !.op = op, !.slot = s] : s \in Slots}
                 [] OTHER -> {[b EXCEPT !.op = op]} : op \in budget.owner}

OwnerAsks ==
    /\ admin.state = "open" /\ admin.asked = admin.taken /\ budget.orders > 0
    /\ \E m \in Orders : admin' = [admin EXCEPT !.inbox = Append(@, m), !.asked = @ + 1]
    /\ budget' = [budget EXCEPT !.orders = @ - 1]
    /\ UNCHANGED <<clock, serviceVars, loopVars, ends>>

OwnerTakes ==
    /\ admin.outbox # <<>>
    /\ admin' = [admin EXCEPT !.outbox = Tail(@), !.taken = @ + 1]
    /\ UNCHANGED <<clock, serviceVars, loopVars, ends, budget>>

OwnerLeaves ==
    /\ admin.state = "open" /\ budget.ownerLeaves
    /\ admin' = [admin EXCEPT !.state = "left", !.outbox = <<>>]
    /\ UNCHANGED <<clock, serviceVars, loopVars, ends, budget>>

Tick ==
    /\ clock < budget.ticks
    /\ clock' = clock + 1
    /\ UNCHANGED <<serviceVars, loopVars, ends, admin, budget>>

DeviceSettles ==
    /\ command # None /\ command.result = "Pending"
    /\ \/ command' = [command EXCEPT !.result = "Ok"] /\ UNCHANGED budget
       \/ /\ budget.errors > 0
          /\ command' = [command EXCEPT !.result = "Error"]
          /\ budget' = [budget EXCEPT !.errors = @ - 1]
    /\ UNCHANGED <<clock, grants, transfers, receipts, volume, job, loopVars, ends, admin>>

---------------------------------------------------------------------------

\* The owner has already granted each slot of a history that has a profile.
Init ==
    \E h \in Histories :
        /\ clock = 0 /\ now = 0
        /\ grants = [s \in Slots |-> IF h.clients[s] = None THEN None ELSE Granting(h.clients[s], s, s)]
        /\ nextContext \in h.bounds.contexts
        /\ transfers = [s \in Slots |-> None] /\ receipts = NoReceipts
        /\ volume = Opened(h.start)
        /\ job = None /\ command = None /\ turn = <<"replies">>
        /\ replies = [s \in Slots |-> None] /\ adminReply = None /\ deferred = None /\ leaving = FALSE
        /\ ends = [e \in Ends |-> Channel] /\ admin = Channel
        /\ budget = h.bounds
        /\ verdict = None /\ acked = {}

Step == Replies \/ Admin \/ (\E s \in Slots : Client(s)) \/ Administer \/ OtherClients \/ Drive

Next ==
    \/ Step
    \/ \E e \in Ends : Ask(e) \/ Take(e) \/ Leave(e)
    \/ OwnerAsks \/ OwnerTakes \/ OwnerLeaves
    \/ Tick \/ DeviceSettles

\* The server's process runs again and again until it exits.  Every step of the server, and
\* nothing else, moves `turn', and one is possible until it exits: this is WF_vars(Step).
ServerRuns == []<>(turn = <<"exited">>) \/ []<><<turn' # turn>>_vars

\* The kernel schedules the server and settles every disk request; the owner, and the
\* clients named prompt, read their replies.
Spec ==
    /\ Init /\ [][Next]_vars
    /\ ServerRuns /\ WF_vars(DeviceSettles) /\ WF_vars(OwnerTakes)
    /\ \A e \in Prompt : WF_vars(Take(e))

---------------------------------------------------------------------------
(* Properties *)

\* A revocation is acknowledged only when no publication of that client is in flight
\* (serving/v7/control.rs): the owner never grants a slot anew under an unsettled effect.
RevocationAfterSettlement == job # None => job.context \notin acked

\* Every open stage of the volume belongs to exactly one slot's transfer: whatever
\* revocation, detach, expiry, lost client or refused finish ended a transfer also ended its
\* stage, also when it happened while the volume was publishing for somebody else
\* (Writes::reset, Server7::dispatch).
TransfersOwnStages ==
    volume.ready /\ job = None =>
        LET busy == {s \in Slots : transfers[s] # None}
        IN  /\ {transfers[s].stage : s \in busy} = 1..STAGES \ Free
            /\ \A s, t \in busy : s # t => transfers[s].stage # transfers[t].stage

\* A refusal means that the files did not and will not change, and the only record it may
\* leave behind is a cancellation; a record shown with success is retained (handle_with).
\* An upload that repeats a retained record, answered with success, wrote nothing: neither a
\* second record nor the file (finish_tracked, finish_admission).
AnswersTellTheTruth ==
    verdict # None =>
        LET was == verdict.before
        IN  /\ verdict.status \notin {"Ok", "Uncertain"} =>
                  /\ volume.now.files = was.now.files /\ volume.now.epoch = was.now.epoch
                  /\ volume.doubt = was.doubt
                  /\ \A r \in volume.now.records \ was.now.records : r.state = "Cancelled"
            /\ verdict.status = "Ok" /\ verdict.shown # None =>
                  /\ verdict.shown \in volume.now.records
                  /\ verdict.op \in {"ACCEPT", "REPLACE_COMMIT"} =>
                        \A r \in was.now.records : Same(r, verdict.shown) => volume.now = was.now

\* An execution that was stopped because its client lost authority can never run later: its
\* admission is cancelled for that reason before the client's error is returned; and an
\* admission that settled after the loss is cancelled too (authority_lost).
LostAuthorityIsFinal ==
    verdict # None /\ verdict.polled /\ verdict.op \in {"ACCEPT", "EXECUTE"}
      /\ verdict.status \notin {"Ok", "Uncertain"} =>
        \A r \in find_retry(verdict.shown) : r.state = "Cancelled" /\ r.reason = "AuthorityLost"

\* A cached receipt names a record that is retained in the generation in force and in any
\* generation a remount may find (forget_receipts): parts of it are served from the cache
\* even when the volume is fenced.
ReceiptsNameRetained ==
    \A s \in Slots : receipts[s] # None =>
        /\ receipts[s] \in volume.now.records
        /\ volume.doubt # None => receipts[s] \in volume.doubt.records

\* The replies on a channel answer the requests of that channel, one each and in order,
\* across grants that replace each other, Busy answers and publications.
RepliesReachTheirAsker ==
    \A e \in Ends : \A i \in DOMAIN ends[e].outbox :
        ends[e].outbox[i].from = e /\ ends[e].outbox[i].serial = ends[e].taken + i

\* Between requests a healthy service has no disk command outstanding (Disk::ready): the
\* next blocking read or write would be refused and fence the volume.
PollerIdle == volume.ready /\ job = None => command = None

\* A publication changes files only if its client held its authority when the header was
\* submitted (drive).
EffectsNeedAuthority ==
    [][job # None /\ volume'.now.files # volume.now.files => job.authorised]_vars

\* Whoever reads its replies gets an answer to each request, or its channel is closed,
\* whatever the others do: the clients named prompt, also those told Busy during somebody
\* else's publication, and the owner, its deferred revocation included (Owner::finish).
EveryoneIsAnswered ==
    LET answered(c) == c.asked = c.taken \/ c.state # "open"
    IN  (~answered(admin) ~> answered(admin)) /\ (\A e \in Prompt : ~answered(ends[e]) ~> answered(ends[e]))
=============================================================================
