------------------------------- MODULE Threads --------------------------------
(***************************************************************************)
(* The threads of a peer and their three mutexes, src/threads.c.           *)
(*                                                                         *)
(* A thread's work is the sequence of operations it still has to do: lock  *)
(* or unlock a mutex, read or write shared data, receive a message, write  *)
(* a chunk into the plugin's ring (module PluginRing), test stopThreads.   *)
(* Each operation is one step, so the threads interleave between any two.  *)
(* What the handlers compute is left out; where a decision depends on data *)
(* both outcomes are possible.                                             *)
(*                                                                         *)
(* The login thread is left out: the output has no secured data, so it     *)
(* ends without touching anything, as do messages with secured data.       *)
(***************************************************************************)
EXTENDS Integers, Sequences

CONSTANTS
    RingRoom,       \* the chunks the plugin's ring has room for
    MaxFlush,       \* bound: chunks one message writes into the ring
    MaxMessages     \* bound: messages received

ASSUME RoomAssumption == RingRoom \in Nat \ {0}
ASSUME BoundsAssumption == MaxFlush \in Nat /\ MaxMessages \in Nat

Thread == {"recv", "topo", "offer", "send"}
Mutex == {"topology", "chunkBuffer", "peerChunk"}
Data == {"sampler", "chunks", "idSet", "peerChunks", "firstChunk", "transId", "stop"}
Free == "free"

VARIABLES
    owner,      \* the thread that holds each mutex
    todo,       \* the operations each thread still has to do; <<>>: it ended
    stop,       \* stopThreads
    ring,       \* chunks in the plugin's ring
    messages    \* history: messages received

vars == <<owner, todo, stop, ring, messages>>

-----------------------------------------------------------------------------
(* Operations. *)

Lock(m) == <<"lock", m>>
Unlock(m) == <<"unlock", m>>
Reads(d) == <<"read", d>>
Writes(d) == <<"write", d>>
Check == <<"check", "stop">>
Receive == <<"receive", "socket">>
Put == <<"put", "ring">>

Op == {Lock(m) : m \in Mutex} \cup {Unlock(m) : m \in Mutex}
      \cup {Reads(d) : d \in Data} \cup {Writes(d) : d \in Data}
      \cup {Check, Receive, Put}

(* What the receive thread does with a message.  The transId that its      *)
(* handlers count up is a local variable; only the offer thread counts the *)
(* global one.                                                             *)

TopologyMessage ==
    <<Lock("topology"), Writes("sampler"), Unlock("topology")>>

(* network_handle_chunk_message: the chunk goes to the output, which may   *)
(* write n chunks into the ring, and then into the chunk buffer.           *)
ChunkKeepsLock(n) ==
    <<Lock("chunkBuffer"), Reads("firstChunk")>> \o [k \in 1 .. n |-> Put]
        \o <<Writes("chunks")>>
ChunkMessage(n) ==
    <<Lock("chunkBuffer"), Reads("firstChunk")>> \o [k \in 1 .. n |-> Put]
        \o <<Writes("chunks"), Unlock("chunkBuffer")>>

(* accept and deliver: network_add_to_peerChunk looks into the chunk       *)
(* buffer.                                                                 *)
AcceptUnlocked == <<Reads("chunks"), Writes("peerChunks")>>
AcceptMessage ==
    <<Lock("peerChunk"), Reads("chunks"), Writes("peerChunks"), Unlock("peerChunk")>>

OfferMessage ==
    <<Lock("chunkBuffer"), Reads("chunks"), Writes("firstChunk"),
      Unlock("chunkBuffer")>>

(* The chunk id set is read before the locks are taken. *)
RequestSwapped ==
    <<Reads("idSet"), Lock("peerChunk"), Lock("chunkBuffer"), Reads("chunks"),
      Writes("peerChunks"), Unlock("chunkBuffer"), Unlock("peerChunk")>>
RequestKeepsLock ==
    <<Reads("idSet"), Lock("chunkBuffer"), Lock("peerChunk"), Reads("chunks"),
      Writes("peerChunks"), Unlock("chunkBuffer")>>
RequestMessage ==
    <<Reads("idSet"), Lock("chunkBuffer"), Lock("peerChunk"), Reads("chunks"),
      Writes("peerChunks"), Unlock("peerChunk"), Unlock("chunkBuffer")>>

BufferMapMessage ==
    <<Lock("chunkBuffer"), Reads("firstChunk"), Unlock("chunkBuffer")>>

BufferMapRequest ==
    <<Lock("chunkBuffer"), Reads("idSet"), Unlock("chunkBuffer")>>

MessageWork ==
    {TopologyMessage, AcceptMessage, OfferMessage, RequestMessage,
     BufferMapMessage, BufferMapRequest, <<>>}
    \cup {ChunkMessage(n) : n \in 0 .. MaxFlush}

(* One round of the loop of each thread. *)

(* Without neighbours the topology thread stops the others. *)
SendTopology(lost) ==
    <<Lock("topology"), Writes("sampler")>>
        \o (IF lost THEN <<Writes("stop")>> ELSE <<>>) \o <<Unlock("topology")>>

OfferChunk ==
    <<Lock("topology"), Lock("chunkBuffer"), Reads("sampler"), Reads("chunks"),
      Writes("transId"), Unlock("chunkBuffer"), Unlock("topology")>>

SendChunk ==
    <<Lock("topology"), Lock("chunkBuffer"), Lock("peerChunk"), Reads("chunks"),
      Writes("peerChunks"),
      Unlock("peerChunk"), Unlock("chunkBuffer"), Unlock("topology")>>

Round(t) ==
    CASE t = "recv" -> {<<Receive>>}
      [] t = "topo" -> {SendTopology(lost) : lost \in BOOLEAN}
      [] t = "offer" -> {OfferChunk}
      [] t = "send" -> {SendChunk}

-----------------------------------------------------------------------------
(* threads_start *)
Init ==
    /\ owner = [m \in Mutex |-> Free]
    /\ todo = [t \in Thread |-> <<Check>>]
    /\ stop = FALSE
    /\ ring = 0
    /\ messages = 0

Now(t, op) == todo[t] # <<>> /\ Head(todo[t]) = op

Continue(t, work) == todo' = [todo EXCEPT ![t] = work \o Tail(@)]

(* while (stopThreads != 1): a thread that goes on does its round and      *)
(* comes back to the test.                                                 *)
TestStop(t) ==
    /\ Now(t, Check)
    /\ IF stop THEN Continue(t, <<>>)
               ELSE \E round \in Round(t) : Continue(t, round \o <<Check>>)
    /\ UNCHANGED <<owner, stop, ring, messages>>

ReceiveMessage(t) ==
    /\ Now(t, Receive)
    /\ messages < MaxMessages
    /\ messages' = messages + 1
    /\ \E work \in MessageWork : Continue(t, work)
    /\ UNCHANGED <<owner, stop, ring>>

Acquire(t, m) ==
    /\ Now(t, Lock(m))
    /\ owner[m] = Free
    /\ owner' = [owner EXCEPT ![m] = t]
    /\ Continue(t, <<>>)
    /\ UNCHANGED <<stop, ring, messages>>

Release(t, m) ==
    /\ Now(t, Unlock(m))
    /\ owner' = [owner EXCEPT ![m] = Free]
    /\ Continue(t, <<>>)
    /\ UNCHANGED <<stop, ring, messages>>

ReadData(t, d) ==
    /\ Now(t, Reads(d))
    /\ Continue(t, <<>>)
    /\ UNCHANGED <<owner, stop, ring, messages>>

WriteData(t, d) ==
    /\ Now(t, Writes(d))
    /\ stop' = (stop \/ d = "stop")
    /\ Continue(t, <<>>)
    /\ UNCHANGED <<owner, ring, messages>>

(* The receive thread keeps its mutexes while it waits for room. *)
RoomForOneMore == ring <= RingRoom
RoomInRing == ring < RingRoom

WriteChunk(t) ==
    /\ Now(t, Put)
    /\ RoomInRing
    /\ ring' = ring + 1
    /\ Continue(t, <<>>)
    /\ UNCHANGED <<owner, stop, messages>>

Step(t) ==
    \/ TestStop(t) \/ ReceiveMessage(t) \/ WriteChunk(t)
    \/ \E m \in Mutex : Acquire(t, m) \/ Release(t, m)
    \/ \E d \in Data : ReadData(t, d) \/ WriteData(t, d)

(* The xine engine reads the ring empty, with none of the three mutexes. *)
Play ==
    /\ ring > 0
    /\ ring' = ring - 1
    /\ UNCHANGED <<owner, todo, stop, messages>>

Next == Play \/ \E t \in Thread : Step(t)

Spec == Init /\ [][Next]_vars

(* A thread that can run runs, and a mutex that stays free is got by a     *)
(* thread that waits for it.  A mutex that others keep taking need not be  *)
(* got by anyone in particular, and the player may pause for good.         *)
FairSpec == Spec /\ \A t \in Thread : WF_vars(Step(t))

-----------------------------------------------------------------------------
(* A mutex is held by a thread or free, and work consists of operations.   *)
TypeOK ==
    /\ owner \in [Mutex -> Thread \cup {Free}]
    /\ todo \in [Thread -> Seq(Op)]
    /\ stop \in BOOLEAN
    /\ ring \in 0 .. RingRoom
    /\ messages \in 0 .. MaxMessages

(* The nested locks of the message handlers, the offer thread and the send *)
(* thread never close a circle: no group of threads has all its members    *)
(* waiting for mutexes that members hold.                                  *)
WaitsFor(t, m) == Now(t, Lock(m)) /\ owner[m] # Free
NoCircularWait ==
    \A S \in SUBSET Thread :
        S # {} => \E t \in S : \A m \in Mutex : WaitsFor(t, m) => owner[m] \notin S

(* Two threads never access shared data other than stopThreads (the peer   *)
(* sampler, the chunk buffer, the chunk id set, the first chunk, the list  *)
(* of chunks to send, transId) at the same time with one of them writing.  This needs more than the mutexes: the accept *)
(* handler reads the chunk buffer, and the request handler the chunk id    *)
(* set, without chunkBufferMutex, which is "for chunkbuffer and            *)
(* chunkIDSet" (threads.c:31).                                             *)
NoRace ==
    \A d \in Data \ {"stop"} : \A t, u \in Thread :
        t # u /\ Now(t, Writes(d)) => ~Now(u, Writes(d)) /\ ~Now(u, Reads(d))

(* On every path through the handlers and loops a thread unlocks what it   *)
(* locked, and only that, before it receives, tests stopThreads or ends.   *)
Holds(t) == {m \in Mutex : owner[m] = t}
ReleasesAll ==
    \A t \in Thread :
        /\ todo[t] = <<>> \/ Now(t, Check) \/ Now(t, Receive) => Holds(t) = {}
        /\ \A m \in Mutex : Now(t, Unlock(m)) => owner[m] = t

(* The receive thread waits for room in the ring with chunkBufferMutex in  *)
(* hand, the offer thread then for that mutex with topologyMutex in hand,  *)
(* and so on: a player that pauses for good holds up the whole peer.  The  *)
(* two properties say that nothing else does.                              *)
HeldUp == Now("recv", Put) /\ ring = RingRoom
PlayerGoesOn == []<>~HeldUp

(* A lost network stops the sending threads: once stopThreads is set they  *)
(* all end, unless the player holds them up, when messages cease.          *)
StopIsFollowed ==
    PlayerGoesOn => (stop ~> \A t \in Thread \ {"recv"} : todo[t] = <<>>)

(* No mutex is kept for good, not even by the offer thread, which waits    *)
(* for chunkBufferMutex with topologyMutex in hand, unless the player      *)
(* holds up the thread that keeps it.                                      *)
CriticalSectionsEnd ==
    PlayerGoesOn => \A m \in Mutex, t \in Thread : owner[m] = t ~> owner[m] # t

===============================================================================
