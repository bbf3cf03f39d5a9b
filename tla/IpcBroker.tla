------------------------------ MODULE IpcBroker ------------------------------
(***************************************************************************)
(* The kernel's message broker, kernel/src/ipc: a table of endpoint        *)
(* handles, a fixed set of two-sided channels and, for each side of a      *)
(* channel, a ring buffer of two messages.  Every operation runs to        *)
(* completion inside one system call, so it is one action here.            *)
(***************************************************************************)
EXTENDS Naturals, Sequences, FiniteSets

CONSTANTS Owners,            \* process identities that may own a handle
          Payloads,          \* message bodies (bytes and correlation)
          CHANNELS,          \* channel slots
          ENDPOINT_HANDLES,  \* slots of the handle table
          HANDLES_PER_OWNER, \* live handles of one owner
          HandleIdSpace,     \* 2^56: handle identities
          ChannelIdSpace     \* 2^64: channel identities

VARIABLES handles,     \* the handle table
          channels,    \* live channels, by identity
          nextChannel  \* identity of the next channel

ipcVars == <<handles, channels, nextChannel>>

READ     == "read"
WRITE    == "write"
TRANSFER == "transfer"
ALL      == {READ, WRITE, TRANSFER}

Handles == INSTANCE HandleTable WITH
    Capacity <- ENDPOINT_HANDLES, PerOwner <- HANDLES_PER_OWNER,
    IdSpace  <- HandleIdSpace,    Domain   <- 0,
    Allowed  <- ALL,              TransferRight <- {TRANSFER}

Sides      == {0, 1}
NoMessage  == [sender |-> 0, payload |-> "none"]
Endpoint(channel, side) == [channel |-> channel, side |-> side]

-----------------------------------------------------------------------------
(* Queue: a ring of two messages *)

EmptyQueue == [messages |-> [i \in Sides |-> NoMessage], head |-> 0, len |-> 0]

Full(q) == q.len = 2

Push(q, message) ==
    [q EXCEPT !.messages[(q.head + q.len) % 2] = message, !.len = @ + 1]

\* Mutant of Pop: the cell keeps its message.
PopKeepsCell(q) == [q EXCEPT !.head = (@ + 1) % 2, !.len = @ - 1]

\* Mutant of Pop: the newest message is dropped.
PopNewest(q) ==
    [q EXCEPT !.messages[(q.head + q.len - 1) % 2] = NoMessage, !.len = @ - 1]

Pop(q) ==
    [messages |-> [q.messages EXCEPT ![q.head] = NoMessage],
     head     |-> (q.head + 1) % 2,
     len      |-> q.len - 1]

NewChannel == [open |-> [s \in Sides |-> TRUE], queues |-> [s \in Sides |-> EmptyQueue]]

\* The sides of `endpoints` close: their queues are discarded, and a channel
\* with both sides closed is dropped.
CloseSides(chs, endpoints) ==
    LET closed(c, s) == Endpoint(c, s) \in endpoints
        after(c) == [open   |-> [s \in Sides |-> chs[c].open[s] /\ ~closed(c, s)],
                     queues |-> [s \in Sides |-> IF closed(c, s) THEN EmptyQueue
                                                 ELSE chs[c].queues[s]]]
        live == {c \in DOMAIN chs : \E s \in Sides : after(c).open[s]}
    IN  [c \in live |-> after(c)]

-----------------------------------------------------------------------------
(* Queries used by the operations and by the wait paths *)

CanRead(hs, owner, id) == Handles!Resolves(hs, owner, id, {READ})

Inbox(hs, chs, owner, id) ==
    LET e == Handles!Resolve(hs, owner, id) IN chs[e.channel].queues[e.side]

PeerOpen(hs, chs, owner, id) ==
    LET e == Handles!Resolve(hs, owner, id) IN chs[e.channel].open[1 - e.side]

\* The outcome of Broker::peek: a side that still holds messages is readable
\* even after its peer has closed.
Peek(hs, chs, owner, id) ==
    IF Handles!Held(hs, owner, id) = {} THEN "Handle"
    ELSE IF ~CanRead(hs, owner, id) THEN "Denied"
    ELSE LET q == Inbox(hs, chs, owner, id) IN
         IF q.messages[q.head] # NoMessage THEN "Ok"
         ELSE IF PeerOpen(hs, chs, owner, id) THEN "WouldBlock" ELSE "Closed"

Object(owner, id) == Handles!Resolve(handles, owner, id)

-----------------------------------------------------------------------------
IpcInit ==
    /\ handles = Handles!New
    /\ channels = [c \in {} |-> NewChannel]
    /\ nextChannel = 1

ChannelFree ==
    /\ Cardinality(DOMAIN channels) < CHANNELS
    /\ nextChannel + 1 < ChannelIdSpace

FirstGranted(a) == Handles!Grant(handles, a, Endpoint(nextChannel, 0), ALL)

Connect(a, b) ==
    /\ ChannelFree
    /\ Handles!CanGrant(handles, a, ALL)
    /\ Handles!CanGrant(FirstGranted(a), b, ALL)
    /\ handles' = Handles!Grant(FirstGranted(a), b, Endpoint(nextChannel, 1), ALL)
    /\ channels' = [c \in DOMAIN channels \cup {nextChannel} |->
                       IF c = nextChannel THEN NewChannel ELSE channels[c]]
    /\ nextChannel' = nextChannel + 1

\* Mutant of ConnectRefused: the first handle stays.
ConnectRefusedLeaks(a, b) ==
    /\ ChannelFree
    /\ Handles!CanGrant(handles, a, ALL)
    /\ ~Handles!CanGrant(FirstGranted(a), b, ALL)
    /\ handles' = FirstGranted(a)
    /\ UNCHANGED <<channels, nextChannel>>

\* The second grant is refused: the first is removed again, its identity is spent.
ConnectRefused(a, b) ==
    /\ ChannelFree
    /\ Handles!CanGrant(handles, a, ALL)
    /\ ~Handles!CanGrant(FirstGranted(a), b, ALL)
    /\ handles' = Handles!Remove(FirstGranted(a), a, Handles!NextId(handles))
    /\ UNCHANGED <<channels, nextChannel>>

CanSend(owner, id) ==
    /\ Handles!Resolves(handles, owner, id, {WRITE})
    /\ PeerOpen(handles, channels, owner, id)
    /\ LET e == Object(owner, id) IN ~Full(channels[e.channel].queues[1 - e.side])

\* The kernel stamps the sender; the payload is the caller's.
Send(owner, id, payload) ==
    LET e == Object(owner, id) IN
    /\ CanSend(owner, id)
    /\ channels' = [channels EXCEPT ![e.channel].queues[1 - e.side] =
                       Push(@, [sender |-> owner, payload |-> payload])]
    /\ UNCHANGED <<handles, nextChannel>>

\* RECEIVE: peek, copy out, consume.
Receive(owner, id) ==
    LET e == Object(owner, id) IN
    /\ Peek(handles, channels, owner, id) = "Ok"
    /\ channels' = [channels EXCEPT ![e.channel].queues[e.side] = Pop(@)]
    /\ UNCHANGED <<handles, nextChannel>>

Close(owner, id) ==
    /\ Handles!Held(handles, owner, id) # {}
    /\ handles' = Handles!Remove(handles, owner, id)
    /\ channels' = CloseSides(channels, {Object(owner, id)})
    /\ UNCHANGED nextChannel

\* The loop of close_owner: every handle of the finished processes.
CloseOwners(owners) ==
    /\ handles' = Handles!RemoveOwners(handles, owners)
    /\ channels' = CloseSides(channels,
          {e.object : e \in {f \in handles.entries : f.owner \in owners}})
    /\ UNCHANGED nextChannel

CloseOwner(owner) == CloseOwners({owner})

Transfer(owner, id, target, rights) ==
    /\ Handles!CanTransfer(handles, owner, id, target, rights)
    /\ handles' = Handles!Transfer(handles, owner, id, target, rights)
    /\ UNCHANGED <<channels, nextChannel>>

Ids == 0 .. HandleIdSpace - 1

IpcNext ==
    \/ \E a, b \in Owners : Connect(a, b) \/ ConnectRefused(a, b)
    \/ \E o \in Owners, h \in Ids :
          \/ \E p \in Payloads : Send(o, h, p)
          \/ Receive(o, h)
          \/ Close(o, h)
          \/ \E t \in Owners, r \in SUBSET ALL : Transfer(o, h, t, r)
    \/ \E o \in Owners : CloseOwner(o)

IpcSpec == IpcInit /\ [][IpcNext]_ipcVars

-----------------------------------------------------------------------------
ASSUME IpcAssumption ==
    /\ 0 \notin Owners
    /\ {CHANNELS, ENDPOINT_HANDLES, HANDLES_PER_OWNER} \subseteq Nat
    /\ HandleIdSpace \in Nat \ {0, 1} /\ ChannelIdSpace \in Nat \ {0, 1}

Message  == [sender : Owners, payload : Payloads]
Queue    == [messages : [Sides -> Message \cup {NoMessage}], head : Sides, len : 0 .. 2]
Channel  == [open : [Sides -> BOOLEAN], queues : [Sides -> Queue]]
Entry    == [id     : Ids,
             owner  : Owners,
             object : [channel : Nat, side : Sides],
             rights : SUBSET ALL]

\* The types of the broker's state.
IpcTypeOK ==
    /\ handles \in [entries : SUBSET Entry, next : 1 .. HandleIdSpace - 1]
    /\ nextChannel \in 1 .. ChannelIdSpace - 1
    /\ DOMAIN channels \subseteq 1 .. nextChannel - 1
    /\ channels \in [DOMAIN channels -> Channel]

\* "live handle owns channel" (Broker::slot): whatever connects, refused
\* connects, moves and closes came before, every handle names an open side of
\* a live channel and every open side has exactly one handle.
LiveHandleOwnsChannel ==
    /\ \A e \in handles.entries :
          /\ e.object.channel \in DOMAIN channels
          /\ channels[e.object.channel].open[e.object.side]
    /\ \A c \in DOMAIN channels : \E s \in Sides : channels[c].open[s]
    /\ \A c \in DOMAIN channels, s \in Sides :
          channels[c].open[s] =>
             \E e \in handles.entries : e.object = Endpoint(c, s)
    /\ \A e, f \in handles.entries : e.object = f.object => e = f

\* Queue: the occupied cells of a ring are the len cells from head, so peek
\* sees a message exactly when there is one; a closed side keeps nothing.
RingsAreWindows ==
    \A c \in DOMAIN channels, s \in Sides :
       LET q == channels[c].queues[s] IN
       /\ \A i \in Sides :
             q.messages[i] # NoMessage <=> \E k \in 0 .. q.len - 1 : i = (q.head + k) % 2
       /\ ~channels[c].open[s] => q = EmptyQueue

\* A retired handle identity (closed, moved away or spent by a refused connect)
\* never names anything again, so a stale token cannot reach another object.
StaleHandlesStayDead ==
    [][\A id \in 1 .. handles.next - 1 :
          (\A e \in handles.entries : e.id # id) =>
             (\A e \in handles'.entries : e.id # id)]_ipcVars

\* The authority over an endpoint only shrinks while the endpoint lives, through
\* any chain of transfers ("rights may only decrease", Broker::transfer).
AuthorityOnlyShrinks ==
    [][\A e \in handles.entries, f \in handles'.entries :
          e.object = f.object => f.rights \subseteq e.rights]_ipcVars

-----------------------------------------------------------------------------
(* Refinement: the broker implements Ports *)

Contents(q) == [i \in 1 .. q.len |-> q.messages[(q.head + i - 1) % 2]]

PortOf(e) == <<e.object.channel, e.object.side>>

AbstractPorts ==
    [p \in {PortOf(e) : e \in handles.entries} |->
        LET e == CHOOSE f \in handles.entries : PortOf(f) = p IN
        [holder |-> e.owner, rights |-> e.rights,
         inbox  |-> Contents(channels[p[1]].queues[p[2]])]]

P == INSTANCE Ports WITH ports <- AbstractPorts, links <- nextChannel - 1

\* Every behaviour of the broker is a behaviour of Ports: messages are neither
\* lost, duplicated, reordered nor misattributed by the rings and the tables.
RefinesPorts == P!Spec
=============================================================================
