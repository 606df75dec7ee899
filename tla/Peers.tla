--------------------------------- MODULE Peers ---------------------------------
(***************************************************************************)
(* Peers that run this program, the server and the network between them:   *)
(* the message handlers of src/threads.c and the functions of              *)
(* src/network.c they call.                                                *)
(*                                                                         *)
(* A handler, or the critical section of a thread, is one action: module   *)
(* Threads shows that they exclude each other where they share data.  The  *)
(* network is UDP: a message is lost, overtaken, and, with Duplicates,     *)
(* delivered more than once.  Offers, accepts and promises to deliver with *)
(* no chunk in them do nothing at their receiver and are left out.         *)
(***************************************************************************)
EXTENDS Integers, FiniteSetsExt

CONSTANTS
    Peer,           \* the peers, which run this program
    Server,         \* the streaming server, another program
    Chunks,         \* the chunk ids of the stream
    Room,           \* chunks that fit the chunk buffer (100)
    MaxDeliver,     \* chunks an offer lets its receiver accept (50)
    Foreign,        \* types of messages that only the server starts
    Duplicates,     \* whether the network duplicates messages
    Garbles,        \* peers that may receive messages they cannot parse
    MaxInFlight     \* bound: messages in the network

Node == Peer \cup {Server}
None == -1                      \* firstChunk before the first offer

ASSUME NodesAssumption == Server \notin Peer
ASSUME ChunksAssumption == Chunks \subseteq Nat
ASSUME LimitsAssumption == Room \in Nat \ {0} /\ MaxDeliver \in Nat \ {0}
ASSUME NetworkAssumption ==
    /\ Foreign \subseteq {"deliver", "request", "bufmap", "bufmapRequest"}
    /\ Duplicates \in BOOLEAN /\ Garbles \subseteq Peer /\ MaxInFlight \in Nat

VARIABLES
    held,           \* chunkBuffer: the chunks in it
    first,          \* firstChunk
    peerChunks,     \* the list of chunks to send, with their receivers
    last,           \* the signalling message parsed last, still on the stack
    alive,          \* the peers that have not died of undefined behaviour
    streamed,       \* the chunks the server has made so far
    net             \* messages on their way

peerVars == <<held, first, peerChunks, alive>>
vars == <<peerVars, last, streamed, net>>

Message == [type : {"offer", "accept", "chunk"} \cup
                   {"deliver", "request", "bufmap", "bufmapRequest"},
            from : Node, to : Node, chunks : SUBSET Chunks]

Msg(type, from, to, chunks) ==
    [type |-> type, from |-> from, to |-> to, chunks |-> chunks]

Entry == [to : Node, chunk : Chunks]

Init ==
    /\ held = [p \in Peer |-> {}]
    /\ first = [p \in Peer |-> None]
    /\ peerChunks = [p \in Peer |-> {}]
    /\ last = [p \in Garbles |-> {}]
    /\ alive = Peer
    /\ streamed = {}
    /\ net = {}

-----------------------------------------------------------------------------
(* The network. *)

Fits(messages) == Cardinality(messages) <= MaxInFlight

(* Messages join the others on their way.  A message that is lost is one   *)
(* that stays there, until it is pushed out of a full network.             *)
Push(rest, messages) ==
    IF Fits(rest \cup messages)
    THEN net' = rest \cup messages
    ELSE \E kept \in SUBSET rest :
            /\ net' = kept \cup messages
            /\ Cardinality(net') = MaxInFlight

Send(messages) == Push(net, messages)

(* What is left of the network when a node receives m. *)
Without(m) == {net \ {m}} \cup (IF Duplicates THEN {net} ELSE {})

-----------------------------------------------------------------------------
(* The chunk buffer (GRAPES) keeps the newest chunks. *)

Newest(S) == {c \in S : Cardinality({d \in S : d > c}) < Room}

(* cb_add_chunk; a chunk older than a full buffer is turned down. *)
AddIfRoom(S, c) == IF Cardinality(S) < Room THEN S \cup {c} ELSE S
AddChunk(S, c) == Newest(S \cup {c})

(* Chunk ids that are looked up and never added to (streamer.c:149, 159).  *)
chunkIDSet == {}
peerSet == {}

-----------------------------------------------------------------------------
(* The receive thread's handlers.  m is the message, rest the network      *)
(* without it.                                                             *)

(* network_handle_chunk_message: the output gets the chunk (Pipeline), and *)
(* the process may die of its undefined behaviour; then the chunk buffer   *)
(* gets it.                                                                *)
HandleChunk(p, m, rest) ==
    /\ m.type = "chunk"
    /\ \E c \in m.chunks : held' = [held EXCEPT ![p] = AddChunk(@, c)]
    /\ alive' \in {alive, alive \ {p}}
    /\ Push(rest, {})
    /\ UNCHANGED <<first, peerChunks>>

(* sig_offer: of the chunks that are not in the chunk buffer the first one *)
(* becomes firstChunk, once, and maxDeliver from there on are accepted.    *)
(* The order in which the offer lists its chunks is not fixed.             *)
FirstOfEach(p, missing) == missing
FirstBefore(p, missing) == {c - 1 : c \in missing}
FirstOf(p, missing) ==
    IF first[p] = None /\ missing # {} THEN missing ELSE {first[p]}

WantedBehind(missing, f) == {c \in missing : c > f}
Wanted(missing, f) == {c \in missing : c >= f}

HandleOffer(p, m, rest) ==
    /\ m.type = "offer"
    /\ LET missing == m.chunks \ held[p] IN
       \E f \in FirstOf(p, missing) :
         LET wanted == Wanted(missing, f) IN
         \E accepted \in kSubset(Min({MaxDeliver, Cardinality(wanted)}), wanted) :
            /\ f \in wanted \ {first[p]} => f \in accepted
            /\ first' = [first EXCEPT ![p] = f]
            /\ Push(rest, IF accepted = {} THEN {}
                           ELSE {Msg("accept", p, m.from, accepted)})
    /\ UNCHANGED <<held, peerChunks, alive>>

(* sig_accept and sig_deliver: network_add_to_peerChunk for each chunk     *)
(* that is in the chunk buffer.  The list is reallocated to one element    *)
(* and two are counted for each entry: a second entry is written behind    *)
(* the list, and the process may die of it.                                *)
Listed(p, chunks) == chunks
InBuffer(p, chunks) == chunks \cap held[p]

HandleAccept(p, m, rest) ==
    /\ m.type \in {"accept", "deliver"}
    /\ LET entries == {[to |-> m.from, chunk |-> c] : c \in InBuffer(p, m.chunks)}
       IN  /\ peerChunks' = [peerChunks EXCEPT ![p] = @ \cup entries]
           /\ alive' \in IF peerChunks[p] # {} \/ Cardinality(entries) > 1
                         THEN {alive, alive \ {p}} ELSE {alive}
    /\ Push(rest, {})
    /\ UNCHANGED <<held, first>>

(* sig_request: the earliest chunk of chunkIDSet, which is empty, is not   *)
(* in the buffer, so the answer is always the map of the chunk buffer.     *)
HandleRequest(p, m, rest) ==
    /\ m.type = "request"
    /\ Push(rest, {Msg("bufmap", p, m.from, held[p])})
    /\ UNCHANGED peerVars

(* sig_send_buffermap: network_get_needed_chunks looks at firstChunk, not  *)
(* at the chunk buffer.                                                    *)
Needed(p, S) == {c \in S : c > first[p]}

HandleBufferMap(p, m, rest) ==
    /\ m.type = "bufmap"
    /\ Push(rest, {Msg("request", p, m.from, Needed(p, m.chunks))})
    /\ UNCHANGED peerVars

(* sig_request_buffermap *)
HandleBufferMapRequest(p, m, rest) ==
    /\ m.type = "bufmapRequest"
    /\ Push(rest, {Msg("bufmap", p, m.from, chunkIDSet)})
    /\ UNCHANGED peerVars

HandleSignal(p, m, rest) ==
    \/ HandleOffer(p, m, rest) \/ HandleAccept(p, m, rest)
    \/ HandleRequest(p, m, rest) \/ HandleBufferMap(p, m, rest)
    \/ HandleBufferMapRequest(p, m, rest)

Remember(p, m) ==
    last' = IF p \in Garbles THEN [last EXCEPT ![p] = {m}] ELSE last

Receive(p, m, rest) ==
    /\ p \in alive
    /\ m.to = p
    /\ \/ HandleChunk(p, m, rest) /\ UNCHANGED last
       \/ HandleSignal(p, m, rest) /\ Remember(p, m)
    /\ UNCHANGED streamed

(* A message that cannot be parsed, or a receive that failed: the results  *)
(* are not tested, and type and chunks are what the stack holds, those of  *)
(* the message before.  Freeing its owner once more, or garbage if there   *)
(* was none, may kill the process.                                         *)
ReceiveGarbled(p, from) ==
    /\ p \in alive
    /\ \/ \E m \in last[p] : HandleSignal(p, [m EXCEPT !.from = from], net)
       \/ /\ alive' = alive \ {p}
          /\ UNCHANGED <<held, first, peerChunks, net>>
    /\ UNCHANGED <<last, streamed>>

-----------------------------------------------------------------------------
(* The other threads of a peer. *)

(* threads_offer_chunk: the whole chunk buffer goes to neighbours that are *)
(* not the server.                                                         *)
OfferChunk(p) ==
    /\ p \in alive
    /\ held[p] # {}
    /\ \E neighbours \in SUBSET (Peer \ {p}) :
           /\ neighbours # {}
           /\ Send({Msg("offer", p, n, held[p]) : n \in neighbours})
    /\ UNCHANGED <<peerVars, last, streamed>>

(* network_send_chunks_to_peers: a chunk is sent if it is still in the     *)
(* buffer and the receiver was found in the peer set; the list is emptied. *)
(* Every other element was never set, and its pointer is freed.            *)
SendChunk(p) ==
    /\ p \in alive
    /\ peerChunks[p] # {}
    /\ Send({Msg("chunk", p, e.to, {e.chunk}) :
                e \in {e \in peerChunks[p] : e.chunk \in held[p] /\ e.to \in peerSet}})
    /\ peerChunks' = [peerChunks EXCEPT ![p] = {}]
    /\ alive' \in {alive, alive \ {p}}
    /\ UNCHANGED <<held, first, last, streamed>>

-----------------------------------------------------------------------------
(* The server: it makes the chunks in order, offers the newest, sends one  *)
(* that is accepted or requested, and may start any other exchange.        *)

Window == Newest(streamed)

Stream ==
    /\ streamed # Chunks
    /\ streamed' = streamed \cup {Min(Chunks \ streamed)}
    /\ UNCHANGED <<peerVars, last, net>>

ServerOffer(p) ==
    /\ Window # {}
    /\ Send({Msg("offer", Server, p, Window)})
    /\ UNCHANGED <<peerVars, last, streamed>>

ServerStarts(p, type) ==
    /\ Send({Msg(type, Server, p, Window)})
    /\ UNCHANGED <<peerVars, last, streamed>>

ServerReceive(m, rest) ==
    /\ m.to = Server
    /\ IF m.type \in {"accept", "request"} /\ m.chunks \cap Window # {}
       THEN \E c \in m.chunks \cap Window :
                Push(rest, {Msg("chunk", Server, m.from, {c})})
       ELSE Push(rest, {})
    /\ UNCHANGED <<peerVars, last, streamed>>

-----------------------------------------------------------------------------
Arrives(m) ==
    \E rest \in Without(m) : (\E p \in Peer : Receive(p, m, rest)) \/ ServerReceive(m, rest)

Next ==
    \/ \E m \in net : Arrives(m)
    \/ \E p \in Peer : OfferChunk(p) \/ SendChunk(p) \/ ServerOffer(p)
    \/ \E p \in Garbles, n \in Node : ReceiveGarbled(p, n)
    \/ \E p \in Peer, type \in Foreign : ServerStarts(p, type)
    \/ Stream

Spec == Init /\ [][Next]_vars

(* The server goes on offering its newest chunks and answers; what is sent *)
(* again and again gets through at some time.                              *)
GetsOffer(p) ==
    \E m \in net : m.type = "offer" /\ m.from = Server /\ Receive(p, m, net \ {m})
Serves(p, c) ==
    \E m \in net : /\ m.from = p /\ ServerReceive(m, net \ {m})
                   /\ Msg("chunk", Server, p, {c}) \in net'
GetsChunk(p, c) ==
    \E m \in net : m.type = "chunk" /\ c \in m.chunks /\ Receive(p, m, net \ {m})

FairNetwork ==
    /\ \A p \in Peer : WF_vars(ServerOffer(p)) /\ SF_vars(GetsOffer(p))
    /\ \A p \in Peer, c \in Chunks : SF_vars(Serves(p, c)) /\ SF_vars(GetsChunk(p, c))

FairSpec == Spec /\ WF_vars(Stream) /\ FairNetwork

(* The send thread of a peer runs. *)
FairSend == Spec /\ \A p \in Peer : WF_vars(SendChunk(p))

-----------------------------------------------------------------------------
(* Handlers and threads keep their state within the peers, the chunk ids   *)
(* and the messages of the protocol.                                       *)
TypeOK ==
    /\ held \in [Peer -> SUBSET Chunks]
    /\ first \in [Peer -> Chunks \cup {None}]
    /\ peerChunks \in [Peer -> SUBSET Entry]
    /\ last \in [Garbles -> SUBSET Message]
    /\ alive \in SUBSET Peer
    /\ streamed \in SUBSET Chunks
    /\ net \in SUBSET Message

(* A chunk the chunk buffer would turn down or has dropped. *)
Old(p, c) == Cardinality({d \in held[p] : d > c}) >= Room

(* network_add_to_peerChunk lists what the buffer holds, and the buffer    *)
(* moves on under the list: what is listed is still held or is too old by  *)
(* now, which network_send_chunks_to_peers finds out again.                *)
ListedIsHeldOrOld ==
    \A p \in Peer : \A e \in peerChunks[p] : e.chunk \in held[p] \/ Old(p, e.chunk)

(* No accept on the network, however late, duplicated or answered twice,   *)
(* asks for a chunk before the sender's firstChunk: the offer handler      *)
(* chooses it once, whoever offers first.                                  *)
AcceptsFromFirst ==
    \A m \in net : m.type = "accept" =>
        first[m.from] # None /\ \A c \in m.chunks : c >= first[m.from]

(* Through lost, late and doubled messages, and whatever a garbled one is  *)
(* taken for, the handlers and the chunk buffer do what module Broadcast   *)
(* promises: a peer has only chunks the server made, the newest it got,    *)
(* and sig_offer chooses firstChunk once, among the chunks that were made  *)
(* and that the peer does not have.                                        *)
Swarm == INSTANCE Broadcast WITH
    Limit <- Room, made <- streamed, kept <- held, start <- first
ImplementsBroadcast == Swarm!Spec

(* Nothing is asked for again (no timer, no retry), so a lost accept or    *)
(* chunk is made good by the next offer of sig_offer alone: a peer gets    *)
(* all chunks of the server's last window that are not before its first.   *)
Reaches ==
    \A p \in Peer :
        streamed = Chunks ~>
            \/ \A c \in Window : c \in held[p] \/ (first[p] # None /\ c < first[p])
            \/ p \notin alive

(* "add peer/chunk to a list, for sending in sendChunk thread" (threads.c: *)
(* 208), of network_add_to_peerChunk: what is listed for a peer is sent.   *)
(* The send thread drops it, because the peer set it looks in is empty.    *)
AcceptedIsSent ==
    \A p \in Peer : \A q \in Peer : \A c \in Chunks :
       [to |-> q, chunk |-> c] \in peerChunks[p] ~>
          Msg("chunk", p, q, {c}) \in net \/ p \notin alive \/ Old(p, c)
===============================================================================
