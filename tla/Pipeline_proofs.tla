---------------------------- MODULE Pipeline_proofs ----------------------------
(***************************************************************************)
(* The composition of peer and output, for every stream, both buffers of   *)
(* any size and any network: the output sees calls of deliver and the      *)
(* choice of firstChunk and nothing else, so what OutputBuffer_proofs says *)
(* of the output holds in the pipeline.                                    *)
(***************************************************************************)
EXTENDS Pipeline, OutputBuffer_proofs, ChunkIds_proofs

(* Every step that does not deliver changes firstChunk from None at most:  *)
(* only the offer handler sets it.                                         *)
FirstSetOnce == firstChunk' # firstChunk => firstChunk = None

(* A handler of a signalling message sets firstChunk once. *)
LEMMA SignalSetsOnce ==
    ASSUME NEW p \in {Me}, NEW m, NEW rest, Network!HandleSignal(p, m, rest)
    PROVE  FirstSetOnce
<1>1. CASE Network!HandleOffer(p, m, rest)
  <2>1. PICK f \in Network!FirstOf(Me, m.chunks \ held[Me]) :
           [q \in {Me} |-> firstChunk'] = [[q \in {Me} |-> firstChunk] EXCEPT ![Me] = f]
    BY <1>1 DEF Network!HandleOffer
  <2>2. firstChunk' = f
    BY <2>1
  <2>3. firstChunk # None => f = firstChunk
    BY <2>1 DEF Network!FirstOf, Network!None, None
  <2> QED BY <2>2, <2>3 DEF FirstSetOnce
<1>2. CASE [q \in {Me} |-> firstChunk'] = [q \in {Me} |-> firstChunk]
  <2>1. [q \in {Me} |-> firstChunk'][Me] = [q \in {Me} |-> firstChunk][Me]
    BY <1>2
  <2> QED BY <2>1 DEF FirstSetOnce
<1> QED BY <1>1, <1>2 DEF Network!HandleSignal, Network!HandleAccept,
        Network!HandleRequest, Network!HandleBufferMap,
        Network!HandleBufferMapRequest, Network!peerVars

(* The server gets messages from the peer, and the peer one chunk of the   *)
(* stream at a time.                                                       *)
WellSent(m) ==
    /\ m.to = Server => m.from = Me
    /\ m.type = "chunk" => m.to = Me /\ \E c \in streamed : m.chunks = {c}
ChunksAreIds ==
    /\ streamed \in SUBSET Ids
    /\ \A m \in net : WellSent(m)

-----------------------------------------------------------------------------
(* What is sent. *)

(* A push brings nothing into the network but the messages that are sent. *)
LEMMA PushKeeps ==
    ASSUME NEW rest \in SUBSET net, NEW messages, Network!Push(rest, messages)
    PROVE  net' \subseteq net \cup messages
BY DEF Network!Push

(* The parts of a message. *)
LEMMA TypeOf ==
    ASSUME NEW type, NEW from, NEW to, NEW chunks
    PROVE  /\ Network!Msg(type, from, to, chunks).type = type
           /\ Network!Msg(type, from, to, chunks).from = from
           /\ Network!Msg(type, from, to, chunks).to = to
           /\ Network!Msg(type, from, to, chunks).chunks = chunks
BY DEF Network!Msg

(* No handler of a signalling message sends a chunk. *)
LEMMA SignalSends ==
    ASSUME NEW p, NEW m, NEW rest \in SUBSET net, Network!HandleSignal(p, m, rest)
    PROVE  \A a \in net' : a \in net \/ (a.type # "chunk" /\ a.from = p)
<1>1. CASE Network!HandleOffer(p, m, rest)
  <2>1. PICK accepted : Network!Push(rest, IF accepted = {} THEN {}
                            ELSE {Network!Msg("accept", p, m.from, accepted)})
    BY <1>1 DEF Network!HandleOffer
  <2>2. net' \subseteq net \cup {Network!Msg("accept", p, m.from, accepted)}
    BY <2>1, PushKeeps
  <2> QED BY <2>2, TypeOf
<1>2. CASE Network!HandleAccept(p, m, rest)
  <2>1. Network!Push(rest, {})
    BY <1>2 DEF Network!HandleAccept
  <2> QED BY <2>1, PushKeeps
<1>3. ASSUME NEW type \in {"bufmap", "request"}, NEW chunks,
             Network!Push(rest, {Network!Msg(type, p, m.from, chunks)})
      PROVE  \A a \in net' : a \in net \/ (a.type # "chunk" /\ a.from = p)
  <2>1. net' \subseteq net \cup {Network!Msg(type, p, m.from, chunks)}
    BY <1>3, PushKeeps
  <2> QED BY <2>1, TypeOf
<1> QED BY <1>1, <1>2, <1>3 DEF Network!HandleSignal, Network!HandleRequest,
        Network!HandleBufferMap, Network!HandleBufferMapRequest

(* What every step does to firstChunk, to the stream and to the network.   *)
Quiet == FirstSetOnce /\ ChunksAreIds'

(* A step that leaves the stream alone. *)
LEMMA StreamKept ==
    ASSUME ChunksAreIds, streamed' = streamed, FirstSetOnce,
           \A a \in net' : a \in net \/ WellSent(a)
    PROVE  Quiet
BY DEF Quiet, ChunksAreIds, WellSent

(* The server sends what it has made. *)
LEMMA ServerKeeps ==
    ASSUME ChunksAreIds, NEW m \in net, NEW rest \in SUBSET net,
           Network!ServerReceive(m, rest)
    PROVE  Quiet
<1>1. FirstSetOnce /\ streamed' = streamed
  <2>1. [q \in {Me} |-> firstChunk'] = [q \in {Me} |-> firstChunk] /\ streamed' = streamed
    BY DEF Network!ServerReceive, Network!peerVars
  <2>2. [q \in {Me} |-> firstChunk'][Me] = [q \in {Me} |-> firstChunk][Me]
    BY <2>1
  <2> QED BY <2>1, <2>2 DEF FirstSetOnce
<1>2. CASE Network!Push(rest, {})
  <2>1. net' \subseteq net \cup {}
    BY <1>2, PushKeeps
  <2> QED BY <1>1, <2>1, StreamKept
<1>3. ASSUME NEW c \in Network!Window,
             Network!Push(rest, {Network!Msg("chunk", Server, m.from, {c})})
      PROVE  Quiet
  <2>1. net' \subseteq net \cup {Network!Msg("chunk", Server, m.from, {c})}
    BY <1>3, PushKeeps
  <2>2. c \in streamed /\ m.from = Me
    BY DEF Network!Window, Network!Newest, Network!ServerReceive, ChunksAreIds, WellSent
  <2>3. \A a \in net' : a \in net \/ WellSent(a)
    BY <2>1, <2>2, TypeOf, PeerAssumption DEF WellSent
  <2> QED BY <1>1, <2>2, <2>3, StreamKept
<1> QED BY <1>2, <1>3 DEF Network!ServerReceive

(* A signalling message. *)
LEMMA SignalKeeps ==
    ASSUME ChunksAreIds, NEW p \in {Me}, NEW m, NEW rest \in SUBSET net,
           Network!HandleSignal(p, m, rest), streamed' = streamed
    PROVE  Quiet
<1>1. \A a \in net' : a \in net \/ WellSent(a)
  BY SignalSends DEF WellSent
<1> QED BY <1>1, SignalSetsOnce, StreamKept

(* Any other step of the server, and the send thread. *)
LEMMA SentKeeps ==
    ASSUME ChunksAreIds, firstChunk' = firstChunk, streamed' = streamed,
           NEW messages, Network!Send(messages), \A a \in messages : WellSent(a)
    PROVE  Quiet
<1>1. net' \subseteq net \cup messages
  BY PushKeeps DEF Network!Send
<1> QED BY <1>1, StreamKept DEF FirstSetOnce

(* A message that arrives, at the peer or at the server. *)
LEMMA ArrivesKeeps ==
    ASSUME ChunksAreIds, NEW m \in net, Network!Arrives(m)
    PROVE  Quiet
<1>1. PICK rest \in Network!Without(m) :
         (\E p \in {Me} : Network!Receive(p, m, rest)) \/ Network!ServerReceive(m, rest)
  BY DEF Network!Arrives
<1>2. rest \in SUBSET net
  BY DEF Network!Without
<1>3. CASE Network!ServerReceive(m, rest)
  BY <1>2, <1>3, ServerKeeps
<1>4. ASSUME NEW p \in {Me}, Network!Receive(p, m, rest) PROVE Quiet
  <2>1. streamed' = streamed
    BY <1>4 DEF Network!Receive
  <2>2. CASE Network!HandleSignal(p, m, rest)
    BY <1>2, <2>1, <2>2, SignalKeeps
  <2>3. CASE Network!HandleChunk(p, m, rest)
    <3>1. Network!Push(rest, {}) /\ [q \in {Me} |-> firstChunk'] = [q \in {Me} |-> firstChunk]
      BY <2>3 DEF Network!HandleChunk
    <3>2. [q \in {Me} |-> firstChunk'][Me] = [q \in {Me} |-> firstChunk][Me]
      BY <3>1
    <3>3. net' \subseteq net \cup {}
      BY <1>2, <3>1, PushKeeps
    <3> QED BY <2>1, <3>2, <3>3, StreamKept DEF FirstSetOnce
  <2> QED BY <1>4, <2>2, <2>3 DEF Network!Receive
<1> QED BY <1>1, <1>3, <1>4

(* The server makes the next chunk. *)
LEMMA StreamKeeps ==
    ASSUME ChunksAreIds, Network!Stream
    PROVE  Quiet
<1>1. /\ [q \in {Me} |-> firstChunk'] = [q \in {Me} |-> firstChunk] /\ net' = net
      /\ streamed # Ids /\ streamed' = streamed \cup {Network!Min(Ids \ streamed)}
  BY DEF Network!Stream, Network!peerVars
<1>2. [q \in {Me} |-> firstChunk'][Me] = [q \in {Me} |-> firstChunk][Me]
  BY <1>1
<1>3. streamed \subseteq streamed' /\ streamed' \in SUBSET Ids
  <2>0. streamed \in SUBSET Ids
    BY DEF ChunksAreIds
  <2>1. Ids \ streamed \in SUBSET Nat /\ Ids \ streamed # {}
    BY <1>1, <2>0, IdsAssumption
  <2>2. \E x \in Ids \ streamed : \A y \in Ids \ streamed : x <= y
    BY <2>1, LeastOf
  <2>3. Network!Min(Ids \ streamed) \in Ids \ streamed
    BY <2>2 DEF Network!Min
  <2> QED BY <1>1, <2>0, <2>3
<1>4. ASSUME NEW m \in net PROVE WellSent(m)'
  <2>1. WellSent(m)
    BY DEF ChunksAreIds
  <2> QED BY <1>3, <2>1 DEF WellSent
<1> QED BY <1>1, <1>2, <1>3, <1>4 DEF Quiet, FirstSetOnce, ChunksAreIds

(* What no handler does leaves firstChunk alone. *)
LEMMA FirstLeft ==
    ASSUME [q \in {Me} |-> firstChunk'] = [q \in {Me} |-> firstChunk]
    PROVE  firstChunk' = firstChunk
<1>1. [q \in {Me} |-> firstChunk'][Me] = [q \in {Me} |-> firstChunk][Me]
  OBVIOUS
<1> QED BY <1>1

(* Every step. *)
LEMMA StepQuiet ==
    ASSUME ChunksAreIds, PipelineNext
    PROVE  Quiet
<1>1. ASSUME NEW m \in net, ReceiveChunk(m) \/ ReceiveSignal(m) PROVE Quiet
  BY <1>1, ArrivesKeeps DEF ReceiveChunk, ReceiveSignal
<1>2. ASSUME NEW p \in Garbles, Network!ReceiveGarbled(p, Server) PROVE Quiet
  <2>1. p \in {Me} /\ streamed' = streamed
    BY <1>2 DEF Network!ReceiveGarbled
  <2>2. CASE \E m \in last[p] : Network!HandleSignal(p, [m EXCEPT !.from = Server], net)
    BY <2>1, <2>2, SignalKeeps
  <2>3. CASE [q \in {Me} |-> firstChunk'] = [q \in {Me} |-> firstChunk] /\ net' = net
    <3>1. firstChunk' = firstChunk
      BY <2>3, FirstLeft
    <3> QED BY <2>1, <2>3, <3>1, StreamKept DEF FirstSetOnce
  <2> QED BY <1>2, <2>2, <2>3 DEF Network!ReceiveGarbled
<1>3. CASE Network!SendChunk(Me)
  <2> DEFINE sent == {e \in peerChunks[Me] : e.chunk \in held[Me] /\ e.to \in Network!peerSet}
             messages == {Network!Msg("chunk", Me, e.to, {e.chunk}) : e \in sent}
  <2>1. messages = {}
    BY DEF Network!peerSet
  <2> HIDE DEF messages
  <2>2. Network!Send(messages)
    BY <1>3 DEF Network!SendChunk, messages
  <2>3. [q \in {Me} |-> firstChunk'] = [q \in {Me} |-> firstChunk] /\ streamed' = streamed
    BY <1>3 DEF Network!SendChunk
  <2>4. firstChunk' = firstChunk
    BY <2>3, FirstLeft
  <2> QED BY <2>1, <2>2, <2>3, <2>4, SentKeeps
<1>4. ASSUME NEW type, type # "chunk",
             Network!Send({Network!Msg(type, Server, Me, Network!Window)}),
             UNCHANGED <<Network!peerVars, last, streamed>>
      PROVE  Quiet
  <2> DEFINE messages == {Network!Msg(type, Server, Me, Network!Window)}
  <2>1. \A a \in messages : WellSent(a)
    BY <1>4, TypeOf, PeerAssumption DEF WellSent
  <2> HIDE DEF messages
  <2>2. [q \in {Me} |-> firstChunk'] = [q \in {Me} |-> firstChunk] /\ streamed' = streamed
    BY <1>4 DEF Network!peerVars
  <2>3. firstChunk' = firstChunk
    BY <2>2, FirstLeft
  <2> QED BY <1>4, <2>1, <2>2, <2>3, SentKeeps DEF messages
<1>5. CASE ServerStep
  <2>1. CASE Network!Stream
    BY <2>1, StreamKeeps
  <2>2. CASE Network!ServerOffer(Me)
    BY <1>4, <2>2 DEF Network!ServerOffer
  <2>3. CASE \E type \in Foreign : Network!ServerStarts(Me, type)
    BY <1>4, <2>3, PeerAssumption DEF Network!ServerStarts
  <2> QED BY <1>5, <2>1, <2>2, <2>3 DEF ServerStep
<1> QED BY <1>1, <1>2, <1>3, <1>5 DEF PipelineNext, ReceiveGarbled, SendChunk

-----------------------------------------------------------------------------
(* A step of the pipeline is a step of the output, or leaves it alone.     *)
LEMMA StepImplements ==
    ASSUME PipelineNext, Quiet, ChunksAreIds
    PROVE  [Next]_vars
<1>1. ASSUME NEW m \in net, ReceiveChunk(m) PROVE Next
  <2>1. PICK id \in m.chunks : Deliver(id) /\ m.type = "chunk"
    BY <1>1 DEF ReceiveChunk
  <2>2. id \in Ids
    BY <2>1 DEF ChunksAreIds, WellSent
  <2> QED BY <2>1, <2>2 DEF Next
<1>2. ASSUME OutputIdle PROVE [Next]_vars
  <2>1. CASE firstChunk' = firstChunk
    BY <1>2, <2>1 DEF OutputIdle, output, vars
  <2>2. CASE firstChunk' # firstChunk
    <3>1. firstChunk = None /\ firstChunk' \in Ids
      BY <1>2, <2>2 DEF Quiet, FirstSetOnce, OutputIdle
    <3>2. SetFirstChunk(firstChunk')
      BY <1>2, <3>1 DEF OutputIdle, output, SetFirstChunk
    <3> QED BY <3>1, <3>2 DEF Next
  <2> QED BY <2>1, <2>2
<1> QED BY <1>1, <1>2, Zenon DEF PipelineNext, ReceiveSignal, ReceiveGarbled, SendChunk, ServerStep

(* The messages stay as they should be. *)
LEMMA AlwaysSent == PipelineSpec => []ChunksAreIds
<1>1. PipelineInit => ChunksAreIds
  BY DEF PipelineInit, ChunksAreIds
<1>2. ChunksAreIds /\ [PipelineNext]_pipelineVars => ChunksAreIds'
  <2>1. ASSUME ChunksAreIds, PipelineNext PROVE ChunksAreIds'
    BY <2>1, StepQuiet DEF Quiet
  <2>2. ASSUME ChunksAreIds, UNCHANGED pipelineVars PROVE ChunksAreIds'
    BY <2>2 DEF pipelineVars, ChunksAreIds, WellSent
  <2> QED BY <2>1, <2>2
<1> QED BY <1>1, <1>2, PTL DEF PipelineSpec

(* Whatever the network does, the output sees calls of deliver and one     *)
(* choice of the first chunk (network.c:198, threads.c): the theorems of   *)
(* OutputBuffer_proofs hold in the pipeline.                               *)
THEOREM PipelineImplementsBuffer == PipelineSpec => ImplementsBuffer
<1>1. PipelineInit => Init
  BY DEF PipelineInit
<1>2. ChunksAreIds /\ [PipelineNext]_pipelineVars => [Next]_vars
  <2>1. ASSUME ChunksAreIds, PipelineNext PROVE [Next]_vars
    BY <2>1, StepQuiet, StepImplements
  <2>2. ASSUME UNCHANGED pipelineVars PROVE [Next]_vars
    BY <2>2 DEF pipelineVars
  <2> QED BY <2>1, <2>2
<1> QED BY <1>1, <1>2, AlwaysSent, PTL DEF PipelineSpec, ImplementsBuffer, Spec

(* So no network makes the output play back to an earlier chunk, within    *)
(* one lap of its buffer.                                                  *)
THEOREM PipelineNeverRewinds ==
    ASSUME OneWindow
    PROVE  PipelineSpec => NeverRewinds
BY PipelineImplementsBuffer, PlayedNeverRewinds, PTL DEF ImplementsBuffer

(* Composed with the peer the output still gives the plugin the chunks of  *)
(* one lap in order, as module Playout promises, if no chunk comes twice,  *)
(* whatever messages are lost, late, garbled or sent by other peers.       *)
THEOREM PipelineImplementsPlayout ==
    ASSUME OneLap, MaxCopies = 1
    PROVE  PipelineSpec => ImplementsPlayout
BY PipelineImplementsBuffer, BufferImplementsPlayout, PTL DEF ImplementsBuffer

(* And of one window it loses none: a chunk the receive thread delivered   *)
(* was written, waits in its slot or is older than the first one.          *)
THEOREM PipelineAccounts ==
    ASSUME OneWindow, MaxCopies = 1
    PROVE  PipelineSpec => []Accounted
BY PipelineImplementsBuffer, ChunksAccounted, PTL DEF ImplementsBuffer

-----------------------------------------------------------------------------
(* The two buffers. *)

(* The invariant: the chunk buffer is a finite set of chunks, given to the *)
(* output; what the output was given it has, or is too old for it.         *)
InBoth(id) == id \in held[Me] \/ Cardinality(Above(held[Me], id)) >= Room
Agree ==
    /\ held \in [{Me} -> SUBSET Ids] /\ IsFiniteSet(held[Me])
    /\ \A id \in held[Me] : delivered[id] > 0
    /\ \A id \in Ids : delivered[id] > 0 => InBoth(id)

(* Both modules count in the same way. *)
LEMMA SameCount ==
    ASSUME NEW S
    PROVE  Network!Cardinality(S) = Cardinality(S)
BY DEF Network!Cardinality, Cardinality

(* A call of deliver counts the chunk and no other. *)
LEMMA DeliverCounts ==
    ASSUME NEW id, Deliver(id)
    PROVE  delivered' = [delivered EXCEPT ![id] = @ + 1]
BY DEF Deliver, TooOld, PlayNow, Store, Collide, Arrives

(* Either both buffers get a chunk or neither does. *)
LEMMA BothOrNeither ==
    ASSUME ChunksAreIds, PipelineNext
    PROVE  \/ held' = held /\ delivered' = delivered
           \/ \E c \in Ids :
                /\ held' = [held EXCEPT ![Me] = Network!AddChunk(@, c)]
                /\ delivered' = [delivered EXCEPT ![c] = @ + 1]
<1>1. ASSUME NEW m \in net, ReceiveChunk(m)
      PROVE  \E c \in Ids :
                /\ held' = [held EXCEPT ![Me] = Network!AddChunk(@, c)]
                /\ delivered' = [delivered EXCEPT ![c] = @ + 1]
  <2>1. PICK c \in Ids : m.chunks = {c} /\ m.to = Me /\ m.type = "chunk"
    BY <1>1 DEF ReceiveChunk, ChunksAreIds, WellSent
  <2>2. delivered' = [delivered EXCEPT ![c] = @ + 1]
    BY <1>1, <2>1, DeliverCounts DEF ReceiveChunk
  <2>3. PICK rest : (\E p \in {Me} : Network!Receive(p, m, rest)) \/ Network!ServerReceive(m, rest)
    BY <1>1 DEF ReceiveChunk, Network!Arrives
  <2>4. ~Network!ServerReceive(m, rest)
    BY <2>1, PeerAssumption DEF Network!ServerReceive
  <2>5. Network!HandleChunk(Me, m, rest) \/ Network!HandleSignal(Me, m, rest)
    BY <2>3, <2>4 DEF Network!Receive
  <2>6. ~Network!HandleSignal(Me, m, rest)
    BY <2>1 DEF Network!HandleSignal, Network!HandleOffer, Network!HandleAccept,
        Network!HandleRequest, Network!HandleBufferMap, Network!HandleBufferMapRequest
  <2>7. held' = [held EXCEPT ![Me] = Network!AddChunk(@, c)]
    BY <2>1, <2>5, <2>6 DEF Network!HandleChunk
  <2> QED BY <2>2, <2>7
<1>2. OutputIdle => delivered' = delivered
  BY DEF OutputIdle, output
<1>3. ASSUME NEW p, NEW m, NEW rest, Network!HandleSignal(p, m, rest) PROVE held' = held
  BY <1>3 DEF Network!HandleSignal, Network!HandleOffer, Network!HandleAccept,
     Network!HandleRequest, Network!HandleBufferMap, Network!HandleBufferMapRequest,
     Network!peerVars
<1>4. ASSUME NEW m \in net, ReceiveSignal(m) PROVE held' = held /\ delivered' = delivered
  <2>1. PICK rest : (\E p \in {Me} : Network!Receive(p, m, rest)) \/ Network!ServerReceive(m, rest)
    BY <1>4 DEF ReceiveSignal, Network!Arrives
  <2>2. Network!HandleSignal(Me, m, rest) \/ Network!ServerReceive(m, rest)
    BY <1>4, <2>1 DEF ReceiveSignal, Network!Receive, Network!HandleChunk
  <2>3. held' = held
    BY <1>3, <2>2 DEF Network!ServerReceive, Network!peerVars
  <2> QED BY <1>2, <1>4, <2>3 DEF ReceiveSignal
<1>5. ReceiveGarbled => held' = held /\ delivered' = delivered
  BY <1>2, <1>3 DEF ReceiveGarbled, Network!ReceiveGarbled
<1>6. SendChunk => held' = held /\ delivered' = delivered
  BY <1>2 DEF SendChunk, Network!SendChunk
<1>7. ServerStep => held' = held /\ delivered' = delivered
  BY <1>2 DEF ServerStep, Network!Stream, Network!ServerOffer, Network!ServerStarts, Network!peerVars
<1> QED BY <1>1, <1>4, <1>5, <1>6, <1>7 DEF PipelineNext

(* Another chunk in both keeps them in agreement. *)
LEMMA AgreeStep ==
    ASSUME Agree, TypeOK, ChunksAreIds, [PipelineNext]_pipelineVars
    PROVE  Agree'
<1>1. CASE held' = held /\ delivered' = delivered
  BY <1>1 DEF Agree, InBoth
<1>2. ASSUME NEW c \in Ids, held' = [held EXCEPT ![Me] = Network!AddChunk(@, c)],
             delivered' = [delivered EXCEPT ![c] = @ + 1]
      PROVE  Agree'
  <2> DEFINE S == held[Me]
             N == NewestOf(S \cup {c}, Room)
  <2>1. S \in SUBSET Ids /\ S \in SUBSET Nat /\ IsFiniteSet(S) /\ c \in Nat
    BY IdsAssumption DEF Agree
  <2>2. Network!AddChunk(S, c) = N
    BY SameCount DEF Network!AddChunk, Network!Newest, NewestOf, Above
  <2>3. N \subseteq S \cup {c} /\ IsFiniteSet(N)
    BY <2>1, AddFinite
  <2>4. held' = [held EXCEPT ![Me] = N] /\ held'[Me] = N
    BY <1>2, <2>2 DEF Agree
  <2>5. held' \in [{Me} -> SUBSET Ids] /\ IsFiniteSet(held'[Me])
    BY <2>1, <2>3, <2>4 DEF Agree
  <2>6. /\ \A id \in Ids : delivered[id] \in Nat
        /\ \A id \in Ids : delivered'[id] = IF id = c THEN delivered[id] + 1 ELSE delivered[id]
    BY <1>2 DEF TypeOK
  <2>7. \A id \in held'[Me] : delivered'[id] > 0
    BY <2>1, <2>3, <2>4, <2>6 DEF Agree
  <2>8. ASSUME NEW id \in Ids, delivered'[id] > 0
        PROVE  id \in N \/ Cardinality(Above(N, id)) >= Room
    <3>1. id \in Nat
      BY IdsAssumption
    <3>2. id \in S \cup {c} \/ Cardinality(Above(S, id)) >= Room
      BY <2>6, <2>8 DEF Agree, InBoth
    <3> QED BY <2>1, <3>1, <3>2, AddKeeps, PeerAssumption
  <2>9. \A id \in Ids : delivered'[id] > 0 => InBoth(id)'
    BY <2>4, <2>8 DEF InBoth
  <2> QED BY <2>5, <2>7, <2>9 DEF Agree
<1>3. CASE UNCHANGED pipelineVars
  BY <1>1, <1>3 DEF pipelineVars, vars
<1> QED BY <1>1, <1>2, <1>3, BothOrNeither

(* The chunk buffer and the output agree on what has arrived, however the  *)
(* network delivers it (network.c:198 and 200).                            *)
THEOREM BuffersStayInStep == PipelineSpec => []BuffersAgree
<1>1. PipelineInit => Agree
  BY FS_EmptySet DEF PipelineInit, Init, Agree
<1>2. Agree => BuffersAgree
  BY SameCount DEF Agree, InBoth, BuffersAgree, Network!Old, Above
<1>3. PipelineSpec => []TypeOK
  BY PipelineImplementsBuffer, TypeCorrect, PTL DEF ImplementsBuffer
<1>4. Agree /\ TypeOK /\ ChunksAreIds /\ [PipelineNext]_pipelineVars => Agree'
  BY AgreeStep
<1> QED BY <1>1, <1>2, <1>3, <1>4, AlwaysSent, PTL DEF PipelineSpec

(* What is in the list of chunks to send has been given to the output.     *)
ListDelivered ==
    /\ DOMAIN peerChunks = {Me}
    /\ \A e \in peerChunks[Me] : e.chunk \in Ids /\ delivered[e.chunk] > 0

(* A handler of a signalling message lists what the chunk buffer holds. *)
LEMMA SignalLists ==
    ASSUME NEW p \in {Me}, NEW m, NEW rest, Network!HandleSignal(p, m, rest),
           DOMAIN peerChunks = {Me}
    PROVE  /\ DOMAIN peerChunks' = {Me}
           /\ \A e \in peerChunks'[Me] : e \in peerChunks[Me] \/ e.chunk \in held[Me]
<1>1. CASE Network!HandleAccept(p, m, rest)
  <2> DEFINE entries == {[to |-> m.from, chunk |-> c] : c \in m.chunks \cap held[Me]}
  <2>1. peerChunks' = [peerChunks EXCEPT ![Me] = @ \cup entries]
    BY <1>1 DEF Network!HandleAccept, Network!InBuffer
  <2>2. \A e \in entries : e.chunk \in held[Me]
    OBVIOUS
  <2> HIDE DEF entries
  <2> QED BY <2>1, <2>2
<1>2. CASE peerChunks' = peerChunks
  BY <1>2
<1> QED BY <1>1, <1>2 DEF Network!HandleSignal, Network!HandleOffer,
        Network!HandleRequest, Network!HandleBufferMap,
        Network!HandleBufferMapRequest, Network!peerVars

(* So does every step. *)
LEMMA StepLists ==
    ASSUME PipelineNext, DOMAIN peerChunks = {Me}
    PROVE  /\ DOMAIN peerChunks' = {Me}
           /\ \A e \in peerChunks'[Me] : e \in peerChunks[Me] \/ e.chunk \in held[Me]
<1> DEFINE Lists == /\ DOMAIN peerChunks' = {Me}
                    /\ \A e \in peerChunks'[Me] : e \in peerChunks[Me] \/ e.chunk \in held[Me]
<1>1. peerChunks' = peerChunks => Lists
  OBVIOUS
<1>2. ASSUME NEW p \in {Me}, NEW m, NEW rest, Network!HandleSignal(p, m, rest) PROVE Lists
  BY <1>2, SignalLists
<1> HIDE DEF Lists
<1>3. ASSUME NEW m, Network!Arrives(m) PROVE Lists
  BY <1>1, <1>2, <1>3 DEF Network!Arrives, Network!Receive, Network!HandleChunk,
     Network!ServerReceive, Network!peerVars
<1>4. ReceiveGarbled => Lists
  <2>1. ASSUME NEW p \in Garbles, Network!ReceiveGarbled(p, Server) PROVE Lists
    BY <1>1, <1>2, <2>1, PeerAssumption DEF Network!ReceiveGarbled
  <2> QED BY <2>1 DEF ReceiveGarbled
<1>5. SendChunk => Lists
  <2>1. SendChunk => peerChunks' = [peerChunks EXCEPT ![Me] = {}]
    BY DEF SendChunk, Network!SendChunk
  <2> QED BY <2>1 DEF Lists
<1>6. ServerStep => Lists
  BY <1>1 DEF ServerStep, Network!Stream, Network!ServerOffer, Network!ServerStarts,
     Network!peerVars
<1>7. Lists
  BY <1>3, <1>4, <1>5, <1>6 DEF PipelineNext, ReceiveChunk, ReceiveSignal
<1> QED BY <1>7 DEF Lists

(* A listed chunk was in the chunk buffer, so the output was given it, and *)
(* it is in the buffer still or too old by now (network.c:77 and 106).     *)
THEOREM ListMatchesBuffer == PipelineSpec => []ListedIsHeldOrOld
<1>1. PipelineInit => ListDelivered /\ Agree
  BY FS_EmptySet DEF PipelineInit, Init, Agree, ListDelivered
<1>2. ListDelivered /\ Agree => ListedIsHeldOrOld
  BY SameCount DEF ListDelivered, Agree, InBoth, ListedIsHeldOrOld,
     Network!ListedIsHeldOrOld, Network!Old, Above
<1>3. PipelineSpec => []TypeOK
  BY PipelineImplementsBuffer, TypeCorrect, PTL DEF ImplementsBuffer
<1>4. ListDelivered /\ Agree /\ TypeOK /\ ChunksAreIds /\ [PipelineNext]_pipelineVars
      => ListDelivered'
  <2>1. ASSUME ListDelivered, Agree, TypeOK, ChunksAreIds, PipelineNext
        PROVE  ListDelivered'
    <3>1. \A id \in Ids : delivered[id] > 0 => delivered'[id] > 0
      <4>1. delivered \in [Ids -> 0..MaxCopies]
        BY <2>1 DEF TypeOK
      <4>2. CASE delivered' = delivered
        BY <4>2
      <4>3. ASSUME NEW c \in Ids, delivered' = [delivered EXCEPT ![c] = @ + 1]
            PROVE  \A id \in Ids : delivered[id] > 0 => delivered'[id] > 0
        BY <4>1, <4>3
      <4> QED BY <2>1, <4>2, <4>3, BothOrNeither
    <3>2. \A id \in held[Me] : id \in Ids /\ delivered[id] > 0
      BY <2>1 DEF Agree
    <3>3. /\ DOMAIN peerChunks' = {Me}
          /\ \A e \in peerChunks'[Me] : e \in peerChunks[Me] \/ e.chunk \in held[Me]
      BY <2>1, StepLists DEF ListDelivered
    <3> QED BY <2>1, <3>1, <3>2, <3>3 DEF ListDelivered
  <2>2. ASSUME ListDelivered, UNCHANGED pipelineVars PROVE ListDelivered'
    BY <2>2 DEF ListDelivered, pipelineVars, vars
  <2> QED BY <2>1, <2>2
<1>5. Agree /\ TypeOK /\ ChunksAreIds /\ [PipelineNext]_pipelineVars => Agree'
  BY AgreeStep
<1> QED BY <1>1, <1>2, <1>3, <1>4, <1>5, AlwaysSent, PTL DEF PipelineSpec
===============================================================================
