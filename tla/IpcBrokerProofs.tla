--------------------------- MODULE IpcBrokerProofs ---------------------------
(***************************************************************************)
(* Proofs about the message broker, for any number of owners, channels and *)
(* handles and any identity space.  The inductive invariant is the type    *)
(* invariant, LiveHandleOwnsChannel and the fact that every issued handle  *)
(* identity is below the counter and unique.                               *)
(***************************************************************************)
EXTENDS IpcBroker, TLAPS

\* Table::grant and Table::transfer: identities in use were issued by the counter.
IdsIssued ==
    /\ \A e \in handles.entries : e.id < handles.next
    /\ \A e, f \in handles.entries : e.id = f.id => e = f

IpcInv == IpcTypeOK /\ IdsIssued /\ LiveHandleOwnsChannel /\ RingsAreWindows

\* Queue: the len cells from head are occupied, the others are not.
RingOK(q) ==
    \A i \in Sides :
       q.messages[i] # NoMessage <=> \E k \in 0 .. q.len - 1 : i = (q.head + k) % 2

\* What a handle resolves to: the object of the one entry with that identity.
LEMMA ResolveHeld ==
    ASSUME IpcTypeOK, IdsIssued, NEW owner, NEW id, Handles!Held(handles, owner, id) # {}
    PROVE  \E e \in handles.entries :
              /\ e.id = id /\ e.owner = owner
              /\ Handles!Held(handles, owner, id) = {e}
              /\ Object(owner, id) = e.object
              /\ e.object \in [channel : Nat, side : Sides]
<1>1. PICK e \in handles.entries : e.id = id /\ e.owner = owner
  BY DEF Handles!Held
<1>2. Handles!Held(handles, owner, id) = {e}
  BY <1>1 DEF Handles!Held, IdsIssued
<1>3. Object(owner, id) = e.object
  BY <1>2 DEF Object, Handles!Resolve
<1>4. e.object \in [channel : Nat, side : Sides]
  BY DEF IpcTypeOK, Entry
<1> QED
  BY <1>1, <1>2, <1>3, <1>4

\* The domain byte of an endpoint identity is zero.
LEMMA FreshId == ASSUME NEW t, t.next \in Nat PROVE Handles!NextId(t) = t.next
  BY IpcAssumption DEF Handles!NextId

\* Queue::push on a ring that is not full.
LEMMA PushType ==
    ASSUME NEW q \in Queue, NEW m \in Message, ~Full(q)
    PROVE  Push(q, m) \in Queue
<1>1. (q.head + q.len) % 2 \in Sides
  BY DEF Queue, Sides
<1>2. q.len + 1 \in 0 .. 2
  BY DEF Queue, Full
<1> QED
  BY <1>1, <1>2 DEF Queue, Push

\* Queue::pop on a ring that is not empty.
LEMMA PopType ==
    ASSUME NEW q \in Queue, q.len # 0
    PROVE  Pop(q) \in Queue
  BY DEF Queue, Pop, Sides

\* The three lengths of a ring of two cells.
LEMMA RingOfNone ==
    ASSUME NEW q \in Queue, q.len = 0
    PROVE  RingOK(q) <=> \A i \in Sides : q.messages[i] = NoMessage
  BY DEF RingOK

LEMMA RingOfOne ==
    ASSUME NEW q \in Queue, q.len = 1
    PROVE  RingOK(q) <=> q.messages[q.head] # NoMessage /\ q.messages[1 - q.head] = NoMessage
<1>1. q.head \in {0, 1}
  BY DEF Queue, Sides
<1>2. (q.head + 0) % 2 = q.head
  BY <1>1
<1>3. \A i \in Sides : (\E k \in 0 .. q.len - 1 : i = (q.head + k) % 2) <=> i = q.head
  BY <1>1, <1>2 DEF Sides
<1>4. \A i \in Sides : i = q.head \/ i = 1 - q.head
  BY <1>1 DEF Sides
<1>5. q.head \in Sides /\ 1 - q.head \in Sides /\ q.head # 1 - q.head
  BY <1>1 DEF Sides
<1> QED
  BY <1>3, <1>4, <1>5 DEF RingOK

LEMMA RingOfTwo ==
    ASSUME NEW q \in Queue, q.len = 2
    PROVE  RingOK(q) <=> \A i \in Sides : q.messages[i] # NoMessage
<1>1. q.head \in {0, 1}
  BY DEF Queue, Sides
<1>2. (q.head + 0) % 2 = q.head /\ (q.head + 1) % 2 = 1 - q.head
  BY <1>1
<1>3. \A i \in Sides : \E k \in 0 .. q.len - 1 : i = (q.head + k) % 2
  BY <1>1, <1>2 DEF Sides
<1> QED
  BY <1>3 DEF RingOK

\* A message is never the empty cell: process identities start at one.
LEMMA MessageIsSomething == \A m \in Message : m # NoMessage
  BY IpcAssumption DEF Message, NoMessage

LEMMA PushRing ==
    ASSUME NEW q \in Queue, NEW m \in Message, ~Full(q), RingOK(q)
    PROVE  RingOK(Push(q, m))
<1> DEFINE t == (q.head + q.len) % 2
           p == Push(q, m)
<1>1. q.len \in {0, 1} /\ q.head \in {0, 1}
  BY DEF Queue, Sides, Full
<1>2. p \in Queue
  BY PushType
<1>3. /\ p.head = q.head /\ p.len = q.len + 1
      /\ p.messages = [q.messages EXCEPT ![t] = m]
  BY DEF Push, Queue
<1>4. q.messages \in [Sides -> Message \cup {NoMessage}] /\ m # NoMessage
  BY MessageIsSomething DEF Queue
<1> HIDE DEF p
<1>5. CASE q.len = 0
  <2>1. t = q.head
    BY <1>1, <1>5
  <2>2. \A i \in Sides : q.messages[i] = NoMessage
    BY <1>5, RingOfNone, Zenon
  <2>3. p.messages[p.head] # NoMessage /\ p.messages[1 - p.head] = NoMessage
    BY <1>1, <1>3, <1>4, <2>1, <2>2 DEF Sides
  <2> QED
    <3>1. p.len = 1
      BY <1>3, <1>5
    <3> QED
      BY <1>2, <2>3, <3>1, RingOfOne, Zenon DEF p
<1>6. CASE q.len = 1
  <2>1. t = 1 - q.head
    BY <1>1, <1>6
  <2>2. q.messages[q.head] # NoMessage
    BY <1>6, RingOfOne, Zenon
  <2>3. \A i \in Sides : p.messages[i] # NoMessage
    BY <1>1, <1>3, <1>4, <2>1, <2>2 DEF Sides
  <2> QED
    <3>1. p.len = 2
      BY <1>3, <1>6
    <3> QED
      BY <1>2, <2>3, <3>1, RingOfTwo, Zenon DEF p
<1> QED
  BY <1>1, <1>5, <1>6 DEF p

LEMMA PopRing ==
    ASSUME NEW q \in Queue, q.len # 0, RingOK(q)
    PROVE  RingOK(Pop(q))
<1> DEFINE p == Pop(q)
<1>1. q.len \in {1, 2} /\ q.head \in {0, 1}
  BY DEF Queue, Sides
<1>2. p \in Queue
  BY PopType
<1>3. /\ p.head = 1 - q.head /\ p.len = q.len - 1
      /\ p.messages = [q.messages EXCEPT ![q.head] = NoMessage]
  BY <1>1 DEF Pop
<1>4. q.messages \in [Sides -> Message \cup {NoMessage}]
  BY DEF Queue
<1> HIDE DEF p
<1>5. CASE q.len = 1
  <2>1. q.messages[1 - q.head] = NoMessage
    BY <1>5, RingOfOne, Zenon
  <2>2. \A i \in Sides : p.messages[i] = NoMessage
    BY <1>1, <1>3, <1>4, <2>1 DEF Sides
  <2> QED
    <3>1. p.len = 0
      BY <1>3, <1>5
    <3> QED
      BY <1>2, <2>2, <3>1, RingOfNone, Zenon DEF p
<1>6. CASE q.len = 2
  <2>1. \A i \in Sides : q.messages[i] # NoMessage
    BY <1>6, RingOfTwo, Zenon
  <2>2. p.messages[p.head] # NoMessage /\ p.messages[1 - p.head] = NoMessage
    BY <1>1, <1>3, <1>4, <2>1 DEF Sides
  <2> QED
    <3>1. p.len = 1
      BY <1>3, <1>6
    <3> QED
      BY <1>2, <2>2, <3>1, RingOfOne, Zenon DEF p
<1> QED
  BY <1>1, <1>5, <1>6 DEF p

LEMMA EmptyRing == RingOK(EmptyQueue)
  BY DEF RingOK, EmptyQueue

LEMMA EmptyQueueType == EmptyQueue \in Queue
  BY DEF EmptyQueue, Queue, Sides

LEMMA NewChannelType == NewChannel \in Channel
  BY EmptyQueueType DEF NewChannel, Channel

\* Channel::close keeps the surviving channels and closes exactly the named sides.
LEMMA CloseSidesFacts ==
    ASSUME IpcTypeOK, NEW E
    PROVE  LET chs == CloseSides(channels, E) IN
           /\ DOMAIN chs \subseteq DOMAIN channels
           /\ chs \in [DOMAIN chs -> Channel]
           /\ \A c \in DOMAIN chs, s \in Sides :
                 chs[c].open[s] <=> (channels[c].open[s] /\ Endpoint(c, s) \notin E)
           /\ \A c \in DOMAIN channels :
                 c \in DOMAIN chs <=>
                    \E s \in Sides : channels[c].open[s] /\ Endpoint(c, s) \notin E
           /\ \A c \in DOMAIN chs, s \in Sides :
                 chs[c].queues[s] = IF Endpoint(c, s) \in E THEN EmptyQueue
                                    ELSE channels[c].queues[s]
<1> DEFINE closed(c, s) == Endpoint(c, s) \in E
           after(c) == [open   |-> [s \in Sides |-> channels[c].open[s] /\ ~closed(c, s)],
                        queues |-> [s \in Sides |-> IF closed(c, s) THEN EmptyQueue
                                                    ELSE channels[c].queues[s]]]
           live == {c \in DOMAIN channels : \E s \in Sides : after(c).open[s]}
<1>1. CloseSides(channels, E) = [c \in live |-> after(c)]
  BY DEF CloseSides
<1>2. ASSUME NEW c \in DOMAIN channels
      PROVE  after(c) \in Channel
  BY EmptyQueueType DEF IpcTypeOK, Channel
<1>3. \A c \in DOMAIN channels, s \in Sides :
         after(c).open[s] <=> (channels[c].open[s] /\ ~closed(c, s))
  OBVIOUS
<1> QED
  BY <1>1, <1>2, <1>3

-----------------------------------------------------------------------------
LEMMA InitInv == IpcInit => IpcInv
  BY IpcAssumption
     DEF IpcInit, IpcInv, IpcTypeOK, IdsIssued, LiveHandleOwnsChannel, RingsAreWindows, Handles!New

\* A refused connect leaves the entries as they were and spends one identity.
LEMMA ConnectRefusedInv ==
    ASSUME IpcInv, NEW a \in Owners, NEW b \in Owners, ConnectRefused(a, b)
    PROVE  IpcInv'
<1>1. handles.next + 1 < HandleIdSpace
  BY DEF ConnectRefused, Handles!CanGrant, Handles!CounterLeft
<1> DEFINE new == [id |-> Handles!NextId(handles), owner |-> a,
                   object |-> Endpoint(nextChannel, 0), rights |-> ALL]
<1>2. Handles!NextId(handles) = handles.next
  BY FreshId DEF IpcInv, IpcTypeOK
<1>3. Handles!Held(FirstGranted(a), a, Handles!NextId(handles)) = {new}
  BY <1>2 DEF Handles!Held, FirstGranted, Handles!Grant, IpcInv, IdsIssued, IpcTypeOK, Entry
<1>4. new \notin handles.entries
  BY <1>2 DEF IpcInv, IdsIssued, IpcTypeOK
<1>5. handles'.entries = handles.entries /\ handles'.next = handles.next + 1
  BY <1>3, <1>4 DEF ConnectRefused, Handles!Remove, FirstGranted, Handles!Grant
<1>6. handles' = [entries |-> handles'.entries, next |-> handles'.next]
  BY DEF ConnectRefused, Handles!Remove, FirstGranted, Handles!Grant
<1>7. handles' \in [entries : SUBSET Entry, next : 1 .. HandleIdSpace - 1]
  BY <1>1, <1>5, <1>6, IpcAssumption DEF IpcInv, IpcTypeOK
<1>8. UNCHANGED <<channels, nextChannel>>
  BY DEF ConnectRefused
<1>9. IpcTypeOK'
  BY <1>7, <1>8 DEF IpcInv, IpcTypeOK
<1>10. IdsIssued'
  BY <1>5 DEF IpcInv, IdsIssued, IpcTypeOK, Entry, Ids
<1>11. LiveHandleOwnsChannel'
  BY <1>5, <1>8 DEF IpcInv, LiveHandleOwnsChannel
<1>12. RingsAreWindows'
  BY <1>8 DEF IpcInv, RingsAreWindows
<1> QED
  BY <1>9, <1>10, <1>11, <1>12 DEF IpcInv

\* A connect adds two fresh handles, one for each side of a fresh channel.
LEMMA ConnectInv ==
    ASSUME IpcInv, NEW a \in Owners, NEW b \in Owners, Connect(a, b)
    PROVE  IpcInv'
<1> DEFINE n == handles.next
           x == [id |-> n, owner |-> a, object |-> Endpoint(nextChannel, 0), rights |-> ALL]
           y == [id |-> n + 1, owner |-> b, object |-> Endpoint(nextChannel, 1), rights |-> ALL]
<1>0. n \in 1 .. HandleIdSpace - 1 /\ nextChannel \in 1 .. ChannelIdSpace - 1
  BY DEF IpcInv, IpcTypeOK
<1>1. FirstGranted(a) = [entries |-> handles.entries \cup {x}, next |-> n + 1]
  <2>1. Handles!NextId(handles) = n
    BY <1>0, FreshId
  <2> QED
    BY <2>1 DEF FirstGranted, Handles!Grant
<1>2. n + 2 < HandleIdSpace
  BY <1>0, <1>1, IpcAssumption DEF Connect, Handles!CanGrant, Handles!CounterLeft
<1>3. handles' = [entries |-> handles.entries \cup {x, y}, next |-> n + 2]
  <2>1. Handles!NextId(FirstGranted(a)) = n + 1
    BY <1>0, <1>1, FreshId
  <2>2. FirstGranted(a).entries \cup {y} = handles.entries \cup {x, y}
    BY <1>1
  <2>3. FirstGranted(a).next + 1 = n + 2
    BY <1>0, <1>1
  <2> QED
    BY <2>1, <2>2, <2>3 DEF Connect, Handles!Grant
<1>4. x \in Entry /\ y \in Entry
  BY <1>0, <1>2, IpcAssumption DEF Entry, Ids, Endpoint, Sides
<1>5. nextChannel' = nextChannel + 1 /\ nextChannel + 1 < ChannelIdSpace
  BY DEF Connect, ChannelFree
<1>6. /\ DOMAIN channels' = DOMAIN channels \cup {nextChannel}
      /\ channels'[nextChannel] = NewChannel
      /\ \A c \in DOMAIN channels : channels'[c] = channels[c]
      /\ channels' \in [DOMAIN channels' -> Channel]
  BY <1>0, NewChannelType DEF Connect, IpcInv, IpcTypeOK
<1>7. handles' \in [entries : SUBSET Entry, next : 1 .. HandleIdSpace - 1]
  BY <1>0, <1>2, <1>3, <1>4, IpcAssumption DEF IpcInv, IpcTypeOK
<1>8. IpcTypeOK'
  BY <1>0, <1>5, <1>6, <1>7, IpcAssumption DEF IpcInv, IpcTypeOK
<1>9. IdsIssued'
  BY <1>0, <1>3 DEF IpcInv, IpcTypeOK, IdsIssued, Entry, Ids
<1>10. nextChannel \notin DOMAIN channels
  BY <1>0 DEF IpcInv, IpcTypeOK
<1>11. \A s \in Sides : NewChannel.open[s]
  BY DEF NewChannel
<1>12. \A e \in handles.entries : e.object.channel # nextChannel
  BY <1>10 DEF IpcInv, LiveHandleOwnsChannel
<1>13. x.object = Endpoint(nextChannel, 0) /\ y.object = Endpoint(nextChannel, 1)
       /\ x.object.channel = nextChannel /\ y.object.channel = nextChannel
       /\ x.object.side = 0 /\ y.object.side = 1
  BY DEF Endpoint
<1>14. LiveHandleOwnsChannel'
  <2>1. \A e \in handles'.entries :
           /\ e.object.channel \in DOMAIN channels'
           /\ channels'[e.object.channel].open[e.object.side]
    BY <1>3, <1>6, <1>11, <1>13 DEF IpcInv, LiveHandleOwnsChannel, Sides
  <2>2. \A c \in DOMAIN channels' : \E s \in Sides : channels'[c].open[s]
    BY <1>6, <1>11 DEF IpcInv, LiveHandleOwnsChannel, Sides
  <2>3. \A c \in DOMAIN channels', s \in Sides :
           channels'[c].open[s] => \E e \in handles'.entries : e.object = Endpoint(c, s)
    <3> SUFFICES ASSUME NEW c \in DOMAIN channels', NEW s \in Sides, channels'[c].open[s]
                 PROVE  \E e \in handles'.entries : e.object = Endpoint(c, s)
      OBVIOUS
    <3>1. CASE c = nextChannel
      <4>1. x \in handles'.entries /\ y \in handles'.entries
        BY <1>3
      <4>2. s = 0 \/ s = 1
        BY DEF Sides
      <4> QED
        BY <1>13, <3>1, <4>1, <4>2
    <3>2. CASE c # nextChannel
      <4>1. c \in DOMAIN channels /\ channels[c].open[s]
        BY <1>6, <3>2
      <4>2. PICK e \in handles.entries : e.object = Endpoint(c, s)
        BY <4>1 DEF IpcInv, LiveHandleOwnsChannel
      <4> QED
        BY <1>3, <4>2
    <3> QED
      BY <3>1, <3>2
  <2>4. \A e, f \in handles'.entries : e.object = f.object => e = f
    BY <1>3, <1>12, <1>13 DEF IpcInv, LiveHandleOwnsChannel
  <2> QED
    BY <2>1, <2>2, <2>3, <2>4 DEF LiveHandleOwnsChannel
<1>15. RingsAreWindows'
  <2>1. \A s \in Sides : NewChannel.queues[s] = EmptyQueue /\ NewChannel.open[s]
    BY DEF NewChannel
  <2> QED
    BY <1>6, <2>1, EmptyRing DEF IpcInv, RingsAreWindows, RingOK
<1> QED
  BY <1>8, <1>9, <1>14, <1>15 DEF IpcInv

\* Send and receive replace one queue of one channel.
LEMMA QueueStepInv ==
    ASSUME IpcInv, NEW c \in DOMAIN channels, NEW s \in Sides, NEW q \in Queue, RingOK(q),
           channels[c].open[s], channels' = [channels EXCEPT ![c].queues[s] = q], UNCHANGED <<handles, nextChannel>>
    PROVE  IpcInv'
<1>1. /\ DOMAIN channels' = DOMAIN channels
      /\ channels' \in [DOMAIN channels' -> Channel]
      /\ \A d \in DOMAIN channels : channels'[d].open = channels[d].open
      /\ \A d \in DOMAIN channels, t \in Sides :
            channels'[d].queues[t] = IF d = c /\ t = s THEN q ELSE channels[d].queues[t]
  BY DEF IpcInv, IpcTypeOK, Channel
<1>2. IpcTypeOK'
  BY <1>1 DEF IpcInv, IpcTypeOK
<1>3. IdsIssued'
  BY DEF IpcInv, IdsIssued
<1>4. LiveHandleOwnsChannel'
  BY <1>1 DEF IpcInv, LiveHandleOwnsChannel
<1>5. RingsAreWindows'
  BY <1>1 DEF IpcInv, RingsAreWindows, RingOK
<1> QED
  BY <1>2, <1>3, <1>4, <1>5 DEF IpcInv

LEMMA SendInv ==
    ASSUME IpcInv, NEW o \in Owners, NEW h \in Ids, NEW m \in Payloads, Send(o, h, m)
    PROVE  IpcInv'
<1>1. Handles!Held(handles, o, h) # {}
  BY DEF Send, CanSend, Handles!Resolves
<1>2. PICK e \in handles.entries : Object(o, h) = e.object /\ e.object \in [channel : Nat, side : Sides]
  BY <1>1, ResolveHeld DEF IpcInv
<1> DEFINE c == e.object.channel
           s == 1 - e.object.side
           q == channels[c].queues[s]
<1>3. c \in DOMAIN channels /\ s \in Sides
  BY <1>2 DEF IpcInv, LiveHandleOwnsChannel, Sides
<1>4. q \in Queue /\ ~Full(q) /\ channels[c].open[s] /\ RingOK(q)
  <2>1. q \in Queue
    BY <1>3 DEF IpcInv, IpcTypeOK, Channel
  <2>2. ~Full(q)
    BY <1>2 DEF Send, CanSend
  <2>3. channels[c].open[s]
    BY <1>2 DEF Send, CanSend, PeerOpen, Object
  <2>4. RingOK(q)
    BY <1>3 DEF IpcInv, RingsAreWindows, RingOK
  <2> QED
    BY <2>1, <2>2, <2>3, <2>4
<1>5. [sender |-> o, payload |-> m] \in Message
  BY DEF Message
<1> DEFINE p == Push(q, [sender |-> o, payload |-> m])
<1>6. p \in Queue /\ RingOK(p)
  BY <1>4, <1>5, PushType, PushRing
<1>7. /\ channels' = [channels EXCEPT ![c].queues[s] = p]
      /\ UNCHANGED <<handles, nextChannel>>
  BY <1>2 DEF Send
<1> QED
  BY <1>3, <1>4, <1>6, <1>7, QueueStepInv

\* RECEIVE: a message at the head means the ring is not empty.
LEMMA ReceiveInv ==
    ASSUME IpcInv, NEW o \in Owners, NEW h \in Ids, Receive(o, h)
    PROVE  IpcInv'
<1>1. Handles!Held(handles, o, h) # {} /\ CanRead(handles, o, h)
  BY DEF Receive, Peek
<1>2. PICK e \in handles.entries : Object(o, h) = e.object /\ e.object \in [channel : Nat, side : Sides]
  BY <1>1, ResolveHeld DEF IpcInv
<1> DEFINE c == e.object.channel
           s == e.object.side
           q == channels[c].queues[s]
<1>3. c \in DOMAIN channels /\ s \in Sides /\ channels[c].open[s]
  BY <1>2 DEF IpcInv, LiveHandleOwnsChannel
<1>4. q \in Queue /\ RingOK(q)
  <2>1. channels[c] \in Channel
    BY <1>3 DEF IpcInv, IpcTypeOK
  <2>2. q \in Queue
    BY <1>3, <2>1 DEF Channel
  <2>3. RingOK(q)
    BY <1>3 DEF IpcInv, RingsAreWindows, RingOK
  <2> QED
    BY <2>2, <2>3
<1>5. q.messages[q.head] # NoMessage
  BY <1>1, <1>2 DEF Receive, Peek, Inbox, Object
<1>6. q.len # 0
  <2>1. q.head \in Sides
    BY <1>4 DEF Queue
  <2> QED
    BY <1>4, <1>5, <2>1, RingOfNone, Zenon
<1> DEFINE p == Pop(q)
<1>7. p \in Queue /\ RingOK(p)
  BY <1>4, <1>6, PopType, PopRing
<1>8. /\ channels' = [channels EXCEPT ![c].queues[s] = p]
      /\ UNCHANGED <<handles, nextChannel>>
  BY <1>2 DEF Receive
<1> QED
  BY <1>3, <1>7, <1>8, QueueStepInv

LEMMA CloseInv ==
    ASSUME IpcInv, NEW E \in SUBSET handles.entries,
           handles' = [handles EXCEPT !.entries = @ \ E],
           channels' = CloseSides(channels, {e.object : e \in E}),
           UNCHANGED nextChannel
    PROVE  IpcInv'
<1> DEFINE O == {e.object : e \in E}
<1>1. /\ DOMAIN channels' \subseteq DOMAIN channels
      /\ channels' \in [DOMAIN channels' -> Channel]
      /\ \A c \in DOMAIN channels', s \in Sides :
            channels'[c].open[s] <=> (channels[c].open[s] /\ Endpoint(c, s) \notin O)
      /\ \A c \in DOMAIN channels :
            c \in DOMAIN channels' <=>
               \E s \in Sides : channels[c].open[s] /\ Endpoint(c, s) \notin O
      /\ \A c \in DOMAIN channels', s \in Sides :
            channels'[c].queues[s] = IF Endpoint(c, s) \in O THEN EmptyQueue
                                     ELSE channels[c].queues[s]
  BY CloseSidesFacts DEF IpcInv
<1>2. handles'.entries = handles.entries \ E /\ handles'.next = handles.next
  BY DEF IpcInv, IpcTypeOK
<1>3. IpcTypeOK'
  BY <1>1, <1>2 DEF IpcInv, IpcTypeOK
<1>4. IdsIssued'
  BY <1>2 DEF IpcInv, IdsIssued
<1>5. \A e \in handles.entries :
         /\ e.object = Endpoint(e.object.channel, e.object.side)
         /\ e.object.side \in Sides
  BY DEF IpcInv, IpcTypeOK, Entry, Endpoint
<1>6. \A e \in handles'.entries : e.object \notin O
  BY <1>2 DEF IpcInv, LiveHandleOwnsChannel
<1>7. LiveHandleOwnsChannel'
  <2>1. \A e \in handles'.entries :
           /\ e.object.channel \in DOMAIN channels'
           /\ channels'[e.object.channel].open[e.object.side]
    <3> SUFFICES ASSUME NEW e \in handles'.entries
                 PROVE  /\ e.object.channel \in DOMAIN channels'
                        /\ channels'[e.object.channel].open[e.object.side]
      OBVIOUS
    <3> DEFINE c == e.object.channel
               s == e.object.side
    <3>1. s \in Sides /\ Endpoint(c, s) \notin O
      BY <1>2, <1>5, <1>6
    <3>2. c \in DOMAIN channels /\ channels[c].open[s]
      BY <1>2 DEF IpcInv, LiveHandleOwnsChannel
    <3>3. c \in DOMAIN channels'
      BY <1>1, <3>1, <3>2
    <3> QED
      BY <1>1, <3>1, <3>2, <3>3
  <2>2. \A c \in DOMAIN channels' : \E s \in Sides : channels'[c].open[s]
    BY <1>1
  <2>3. \A c \in DOMAIN channels', s \in Sides :
           channels'[c].open[s] => \E e \in handles'.entries : e.object = Endpoint(c, s)
    <3> SUFFICES ASSUME NEW c \in DOMAIN channels', NEW s \in Sides, channels'[c].open[s]
                 PROVE  \E e \in handles'.entries : e.object = Endpoint(c, s)
      OBVIOUS
    <3>1. PICK e \in handles.entries : e.object = Endpoint(c, s)
      BY <1>1 DEF IpcInv, LiveHandleOwnsChannel
    <3>2. e \notin E
      BY <1>1, <3>1
    <3> QED
      BY <1>2, <3>1, <3>2
  <2>4. \A e, f \in handles'.entries : e.object = f.object => e = f
    BY <1>2 DEF IpcInv, LiveHandleOwnsChannel
  <2> QED
    BY <2>1, <2>2, <2>3, <2>4 DEF LiveHandleOwnsChannel
<1>8. RingsAreWindows'
  <2> SUFFICES ASSUME NEW c \in DOMAIN channels', NEW s \in Sides
               PROVE  /\ RingOK(channels'[c].queues[s])
                      /\ ~channels'[c].open[s] => channels'[c].queues[s] = EmptyQueue
    BY DEF RingsAreWindows, RingOK
  <2>1. c \in DOMAIN channels
    BY <1>1
  <2>2. /\ RingOK(channels[c].queues[s])
        /\ ~channels[c].open[s] => channels[c].queues[s] = EmptyQueue
    BY <2>1 DEF IpcInv, RingsAreWindows, RingOK
  <2>3. CASE Endpoint(c, s) \in O
    <3>1. channels'[c].queues[s] = EmptyQueue
      BY <1>1, <2>3
    <3> QED
      BY <3>1, EmptyRing
  <2>4. CASE Endpoint(c, s) \notin O
    <3>1. channels'[c].queues[s] = channels[c].queues[s]
      BY <1>1, <2>4
    <3>2. channels'[c].open[s] <=> channels[c].open[s]
      BY <1>1, <2>4
    <3> QED
      BY <2>2, <3>1, <3>2
  <2> QED
    BY <2>3, <2>4
<1> QED
  BY <1>3, <1>4, <1>7, <1>8 DEF IpcInv

LEMMA TransferInv ==
    ASSUME IpcInv, NEW o \in Owners, NEW h \in Ids, NEW t \in Owners, NEW r \in SUBSET ALL,
           Transfer(o, h, t, r)
    PROVE  IpcInv'
<1>1. Handles!Held(handles, o, h) # {}
  BY DEF Transfer, Handles!CanTransfer
<1>2. PICK e \in handles.entries :
         /\ Handles!Held(handles, o, h) = {e}
         /\ Object(o, h) = e.object
         /\ e.object \in [channel : Nat, side : Sides]
  BY <1>1, ResolveHeld DEF IpcInv
<1> DEFINE n == handles.next
           x == [id |-> n, owner |-> t, object |-> e.object, rights |-> r]
<1>3. n \in 1 .. HandleIdSpace - 1 /\ n + 1 < HandleIdSpace
  BY DEF IpcInv, IpcTypeOK, Transfer, Handles!CanTransfer, Handles!CounterLeft
<1>4. handles' = [entries |-> (handles.entries \ {e}) \cup {x}, next |-> n + 1]
  <2>1. Handles!NextId(handles) = n
    BY <1>3, FreshId
  <2>2. Handles!Resolve(handles, o, h) = e.object
    BY <1>2 DEF Object
  <2> QED
    BY <1>2, <2>1, <2>2 DEF Transfer, Handles!Transfer
<1>5. x \in Entry
  BY <1>2, <1>3, IpcAssumption DEF Entry, Ids
<1>6. UNCHANGED <<channels, nextChannel>>
  BY DEF Transfer
<1>7. IpcTypeOK'
  BY <1>3, <1>4, <1>5, <1>6, IpcAssumption DEF IpcInv, IpcTypeOK
<1>8. IdsIssued'
  BY <1>3, <1>4 DEF IpcInv, IpcTypeOK, IdsIssued, Entry, Ids
<1>9. LiveHandleOwnsChannel'
  <2>1. x.object = e.object /\ x \in handles'.entries
    BY <1>4
  <2>2. \A f \in handles'.entries : f = x \/ (f \in handles.entries /\ f # e)
    BY <1>4
  <2>3. \A f \in handles.entries : f = e \/ f \in handles'.entries
    BY <1>4
  <2>4. \A f \in handles'.entries :
           /\ f.object.channel \in DOMAIN channels'
           /\ channels'[f.object.channel].open[f.object.side]
    BY <1>6, <2>1, <2>2 DEF IpcInv, LiveHandleOwnsChannel
  <2>5. \A c \in DOMAIN channels', s \in Sides :
           channels'[c].open[s] => \E f \in handles'.entries : f.object = Endpoint(c, s)
    BY <1>6, <2>1, <2>3 DEF IpcInv, LiveHandleOwnsChannel
  <2>6. \A f, g \in handles'.entries : f.object = g.object => f = g
    BY <2>1, <2>2 DEF IpcInv, LiveHandleOwnsChannel
  <2> QED
    BY <1>6, <2>4, <2>5, <2>6 DEF IpcInv, LiveHandleOwnsChannel
<1>10. RingsAreWindows'
  BY <1>6 DEF IpcInv, RingsAreWindows
<1> QED
  BY <1>7, <1>8, <1>9, <1>10 DEF IpcInv

-----------------------------------------------------------------------------
\* CLOSE, MOVE and the rest: one case for each operation of the broker.
LEMMA NextInv == IpcInv /\ [IpcNext]_ipcVars => IpcInv'
<1> SUFFICES ASSUME IpcInv, [IpcNext]_ipcVars PROVE IpcInv'
  OBVIOUS
<1>1. ASSUME NEW a \in Owners, NEW b \in Owners, Connect(a, b) PROVE IpcInv'
  BY <1>1, ConnectInv
<1>2. ASSUME NEW a \in Owners, NEW b \in Owners, ConnectRefused(a, b) PROVE IpcInv'
  BY <1>2, ConnectRefusedInv
<1>3. ASSUME NEW o \in Owners, NEW h \in Ids, NEW m \in Payloads, Send(o, h, m) PROVE IpcInv'
  BY <1>3, SendInv
<1>4. ASSUME NEW o \in Owners, NEW h \in Ids, Receive(o, h) PROVE IpcInv'
  BY <1>4, ReceiveInv
<1>5. ASSUME NEW o \in Owners, NEW h \in Ids, Close(o, h) PROVE IpcInv'
  <2>1. PICK e \in handles.entries :
           Handles!Held(handles, o, h) = {e} /\ Object(o, h) = e.object
    BY <1>5, ResolveHeld DEF IpcInv, Close
  <2>2. {Object(o, h)} = {f.object : f \in {e}}
    BY <2>1
  <2>3. /\ handles' = [handles EXCEPT !.entries = @ \ {e}]
        /\ channels' = CloseSides(channels, {f.object : f \in {e}})
        /\ UNCHANGED nextChannel
    BY <1>5, <2>1, <2>2 DEF Close, Handles!Remove
  <2> QED
    BY <2>3, CloseInv
<1>6. ASSUME NEW o \in Owners, CloseOwner(o) PROVE IpcInv'
  <2> DEFINE E == {f \in handles.entries : f.owner \in {o}}
  <2>1. {f \in handles.entries : f.owner \notin {o}} = handles.entries \ E
    OBVIOUS
  <2>2. /\ handles' = [handles EXCEPT !.entries = @ \ E]
        /\ channels' = CloseSides(channels, {f.object : f \in E})
        /\ UNCHANGED nextChannel
    BY <1>6, <2>1 DEF CloseOwner, CloseOwners, Handles!RemoveOwners
  <2> QED
    BY <2>2, CloseInv
<1>7. ASSUME NEW o \in Owners, NEW h \in Ids, NEW t \in Owners, NEW r \in SUBSET ALL,
             Transfer(o, h, t, r)
      PROVE  IpcInv'
  BY <1>7, TransferInv
<1>8. CASE UNCHANGED ipcVars
  BY <1>8 DEF ipcVars, IpcInv, IpcTypeOK, IdsIssued, LiveHandleOwnsChannel, RingsAreWindows
<1> QED
  BY <1>1, <1>2, <1>3, <1>4, <1>5, <1>6, <1>7, <1>8 DEF IpcNext

\* Broker: the inductive invariant holds in every reachable state.
THEOREM IpcSafety == IpcSpec => []IpcInv
  BY InitInv, NextInv, PTL DEF IpcSpec

\* The broker's state keeps its types and bounds for any limits.
THEOREM IpcTypes == IpcSpec => []IpcTypeOK
  BY IpcSafety, PTL DEF IpcInv

\* Broker::slot's "live handle owns channel" holds for any limits.
THEOREM IpcHandlesOwnChannels == IpcSpec => []LiveHandleOwnsChannel
  BY IpcSafety, PTL DEF IpcInv

\* Queue::peek sees a message exactly when the ring holds one.
THEOREM IpcRings == IpcSpec => []RingsAreWindows
  BY IpcSafety, PTL DEF IpcInv

-----------------------------------------------------------------------------
\* An entry a step did not find was issued by it: its identity is fresh, and if
\* its endpoint existed before, its rights are among those held before.
NewEntry(f) ==
    /\ f.id >= handles.next
    /\ \A e \in handles.entries : e.object = f.object => f.rights \subseteq e.rights

LEMMA EntryOrigin ==
    ASSUME IpcInv, IpcNext
    PROVE  \A f \in handles'.entries : f \in handles.entries \/ NewEntry(f)
<1>0. handles.next \in Nat
  BY DEF IpcInv, IpcTypeOK
<1>1. ASSUME NEW a \in Owners, NEW b \in Owners, Connect(a, b)
      PROVE  \A f \in handles'.entries : f \in handles.entries \/ NewEntry(f)
  <2> DEFINE n == handles.next
             x == [id |-> n, owner |-> a, object |-> Endpoint(nextChannel, 0), rights |-> ALL]
             y == [id |-> n + 1, owner |-> b, object |-> Endpoint(nextChannel, 1), rights |-> ALL]
  <2>1. FirstGranted(a) = [entries |-> handles.entries \cup {x}, next |-> n + 1]
    <3>1. Handles!NextId(handles) = n
      BY <1>0, FreshId
    <3> QED
      BY <3>1 DEF FirstGranted, Handles!Grant
  <2>2. handles'.entries = handles.entries \cup {x, y}
    <3>1. Handles!NextId(FirstGranted(a)) = n + 1
      BY <1>0, <2>1, FreshId
    <3>2. FirstGranted(a).entries \cup {y} = handles.entries \cup {x, y}
      BY <2>1
    <3> QED
      BY <1>1, <3>1, <3>2 DEF Connect, Handles!Grant
  <2>3. \A e \in handles.entries : e.object.channel # nextChannel
    BY DEF IpcInv, LiveHandleOwnsChannel, IpcTypeOK
  <2>4. x.object.channel = nextChannel /\ y.object.channel = nextChannel
    BY DEF Endpoint
  <2>5. NewEntry(x) /\ NewEntry(y)
    BY <1>0, <2>3, <2>4 DEF NewEntry
  <2> QED
    BY <2>2, <2>5
<1>2. ASSUME NEW a \in Owners, NEW b \in Owners, ConnectRefused(a, b)
      PROVE  \A f \in handles'.entries : f \in handles.entries \/ NewEntry(f)
  <2> DEFINE new == [id |-> Handles!NextId(handles), owner |-> a,
                     object |-> Endpoint(nextChannel, 0), rights |-> ALL]
  <2>1. new \in Handles!Held(FirstGranted(a), a, Handles!NextId(handles))
    BY DEF Handles!Held, FirstGranted, Handles!Grant
  <2>2. handles'.entries \subseteq (handles.entries \cup {new}) \ {new}
    BY <1>2, <2>1 DEF ConnectRefused, Handles!Remove, FirstGranted, Handles!Grant
  <2> QED
    BY <2>2
<1>3. ASSUME NEW o \in Owners, NEW h \in Ids, NEW t \in Owners, NEW r \in SUBSET ALL,
             Transfer(o, h, t, r)
      PROVE  \A f \in handles'.entries : f \in handles.entries \/ NewEntry(f)
  <2>1. PICK e \in handles.entries :
           Handles!Held(handles, o, h) = {e} /\ Object(o, h) = e.object
    BY <1>3, ResolveHeld DEF IpcInv, Transfer, Handles!CanTransfer
  <2> DEFINE x == [id |-> handles.next, owner |-> t, object |-> e.object, rights |-> r]
  <2>2. handles'.entries = (handles.entries \ {e}) \cup {x}
    <3>1. Handles!NextId(handles) = handles.next
      BY <1>0, FreshId
    <3>2. Handles!Resolve(handles, o, h) = e.object
      BY <2>1 DEF Object
    <3> QED
      BY <1>3, <2>1, <3>1, <3>2 DEF Transfer, Handles!Transfer
  <2>3. r \subseteq e.rights
    BY <1>3, <2>1 DEF Transfer, Handles!CanTransfer
  <2>4. NewEntry(x)
    <3>1. \A f \in handles.entries : f.object = e.object => f = e
      BY DEF IpcInv, LiveHandleOwnsChannel
    <3> QED
      BY <1>0, <2>3, <3>1 DEF NewEntry
  <2> QED
    BY <2>2, <2>4
<1>4. ASSUME NEW o \in Owners, NEW h \in Ids, NEW m \in Payloads, Send(o, h, m)
      PROVE  \A f \in handles'.entries : f \in handles.entries \/ NewEntry(f)
  BY <1>4 DEF Send
<1>5. ASSUME NEW o \in Owners, NEW h \in Ids, Receive(o, h)
      PROVE  \A f \in handles'.entries : f \in handles.entries \/ NewEntry(f)
  BY <1>5 DEF Receive
<1>6. ASSUME NEW o \in Owners, NEW h \in Ids, Close(o, h)
      PROVE  \A f \in handles'.entries : f \in handles.entries \/ NewEntry(f)
  BY <1>6 DEF Close, Handles!Remove, IpcInv, IpcTypeOK
<1>7. ASSUME NEW o \in Owners, CloseOwner(o)
      PROVE  \A f \in handles'.entries : f \in handles.entries \/ NewEntry(f)
  BY <1>7 DEF CloseOwner, CloseOwners, Handles!RemoveOwners, IpcInv, IpcTypeOK
<1> QED
  BY <1>1, <1>2, <1>3, <1>4, <1>5, <1>6, <1>7 DEF IpcNext

\* Table: an identity that was issued and retired never names an entry again,
\* through any sequence of grants, moves and closes.
THEOREM IpcStaleHandles == IpcSpec => StaleHandlesStayDead
<1>1. IpcInv /\ [IpcNext]_ipcVars =>
        [\A id \in 1 .. handles.next - 1 :
            (\A e \in handles.entries : e.id # id) =>
               (\A e \in handles'.entries : e.id # id)]_ipcVars
  <2> SUFFICES ASSUME IpcInv, IpcNext, NEW id \in 1 .. handles.next - 1,
                      \A e \in handles.entries : e.id # id,
                      NEW f \in handles'.entries
               PROVE  f.id # id
    OBVIOUS
  <2>1. f \in handles.entries \/ NewEntry(f)
    BY EntryOrigin
  <2> QED
    BY <2>1 DEF NewEntry, IpcInv, IpcTypeOK
<1> QED
  BY <1>1, IpcSafety, PTL DEF IpcSpec, StaleHandlesStayDead

\* Broker::transfer: "rights may only decrease", for every chain of transfers.
THEOREM IpcAuthority == IpcSpec => AuthorityOnlyShrinks
<1>1. IpcInv /\ [IpcNext]_ipcVars =>
        [\A e \in handles.entries, f \in handles'.entries :
            e.object = f.object => f.rights \subseteq e.rights]_ipcVars
  <2> SUFFICES ASSUME IpcInv, IpcNext, NEW e \in handles.entries, NEW f \in handles'.entries,
                      e.object = f.object
               PROVE  f.rights \subseteq e.rights
    OBVIOUS
  <2>1. f \in handles.entries \/ NewEntry(f)
    BY EntryOrigin
  <2>2. CASE f \in handles.entries
    BY <2>2 DEF IpcInv, LiveHandleOwnsChannel
  <2> QED
    BY <2>1, <2>2 DEF NewEntry
<1> QED
  BY <1>1, IpcSafety, PTL DEF IpcSpec, AuthorityOnlyShrinks
=============================================================================
