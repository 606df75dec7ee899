----------------------------- MODULE Peers_proofs -----------------------------
(***************************************************************************)
(* Theorems about module Peers for any peers and chunks, any size of the   *)
(* chunk buffer and any network: loss, overtaking, duplicates, garbled     *)
(* messages and exchanges that only the server starts.                     *)
(***************************************************************************)
EXTENDS Peers, ChunkIds_proofs

-----------------------------------------------------------------------------
(* Chunk ids and the chunk buffer. *)

(* Min finds the least member of a nonempty set of ids. *)
LEMMA MinIn ==
    ASSUME NEW S \in SUBSET Nat, S # {}
    PROVE  Min(S) \in S
BY LeastOf DEF Min

(* The chunk buffer keeps the newest of what it had and the new chunk. *)
LEMMA AddIsNewest ==
    ASSUME NEW S, NEW c
    PROVE  AddChunk(S, c) = NewestOf(S \cup {c}, Room)
BY DEF AddChunk, Newest, NewestOf, Above

(* What was in the buffer, or too old for it, is so after another chunk.   *)
LEMMA BufferKeeps ==
    ASSUME NEW S \in SUBSET Nat, IsFiniteSet(S), NEW c \in Nat, NEW e \in Nat,
           e \in S \/ Cardinality(Above(S, e)) >= Room
    PROVE  e \in AddChunk(S, c) \/ Cardinality(Above(AddChunk(S, c), e)) >= Room
BY AddIsNewest, AddKeeps, LimitsAssumption

(* Adding a chunk leaves a finite set of chunks. *)
LEMMA AddTypes ==
    ASSUME NEW S \in SUBSET Chunks, IsFiniteSet(S), NEW c \in Chunks
    PROVE  AddChunk(S, c) \in SUBSET Chunks /\ IsFiniteSet(AddChunk(S, c))
<1>1. /\ NewestOf(S \cup {c}, Room) \subseteq S \cup {c}
      /\ IsFiniteSet(NewestOf(S \cup {c}, Room))
  BY AddFinite
<1> QED BY <1>1, AddIsNewest

-----------------------------------------------------------------------------
(* The invariant.  Core is what the handlers keep by themselves.           *)
BuffersFinite == \A p \in Peer : IsFiniteSet(held[p])
AcceptsFromPeers == \A m \in net : m.type = "accept" => m.from \in Peer
CoreTypes ==
    /\ held \in [Peer -> SUBSET Chunks]
    /\ first \in [Peer -> Chunks \cup {None}]
    /\ peerChunks \in [Peer -> SUBSET Entry]
    /\ alive \in SUBSET Peer
    /\ net \in SUBSET Message
Core ==
    /\ CoreTypes
    /\ BuffersFinite /\ ListedIsHeldOrOld
    /\ AcceptsFromPeers /\ AcceptsFromFirst
Inv == TypeOK /\ Core

(* The messages of the protocol. *)
LEMMA MsgTypes ==
    ASSUME NEW type \in {"offer", "accept", "chunk", "deliver", "request",
                         "bufmap", "bufmapRequest"},
           NEW from \in Node, NEW to \in Node, NEW chunks \in SUBSET Chunks
    PROVE  /\ Msg(type, from, to, chunks) \in Message
           /\ Msg(type, from, to, chunks).type = type
           /\ Msg(type, from, to, chunks).from = from
           /\ Msg(type, from, to, chunks).chunks = chunks
BY DEF Msg, Message

(* A push brings nothing into the network but the messages that are sent. *)
LEMMA PushKeeps ==
    ASSUME NEW rest \in SUBSET net, NEW messages, Push(rest, messages)
    PROVE  net' \subseteq net \cup messages
BY DEF Push

(* The accepts stay right if firstChunk is not changed once it is set and  *)
(* the new ones are right.                                                 *)
LEMMA AcceptsKept ==
    ASSUME Core, NEW messages \in SUBSET Message, net' \subseteq net \cup messages,
           \A p \in Peer : first[p] # None => first'[p] = first[p],
           \A m \in messages : m.type = "accept" =>
              /\ m.from \in Peer /\ first'[m.from] # None
              /\ \A c \in m.chunks : c >= first'[m.from]
    PROVE  net' \in SUBSET Message /\ AcceptsFromPeers' /\ AcceptsFromFirst'
BY DEF Core, CoreTypes, AcceptsFromPeers, AcceptsFromFirst

(* So they do if nothing is sent. *)
LEMMA NothingSent ==
    ASSUME Core, net' \subseteq net, UNCHANGED first
    PROVE  net' \in SUBSET Message /\ AcceptsFromPeers' /\ AcceptsFromFirst'
BY DEF Core, CoreTypes, AcceptsFromPeers, AcceptsFromFirst

(* Handlers and threads that change neither the buffer, nor firstChunk,    *)
(* nor what is listed, and send no accept.                                 *)
LEMMA CoreSent ==
    ASSUME Core, UNCHANGED <<held, first>>, alive' \in SUBSET Peer,
           peerChunks' \in [Peer -> SUBSET Entry],
           \A p \in Peer : peerChunks'[p] \subseteq peerChunks[p],
           NEW messages \in SUBSET Message, net' \subseteq net \cup messages,
           \A m \in messages : m.type # "accept"
    PROVE  Core'
<1>1. net' \in SUBSET Message /\ AcceptsFromPeers' /\ AcceptsFromFirst'
  BY AcceptsKept
<1>2. ListedIsHeldOrOld'
  BY DEF Core, ListedIsHeldOrOld, Old
<1> QED BY <1>1, <1>2 DEF Core, CoreTypes, BuffersFinite

-----------------------------------------------------------------------------
(* The handlers. *)

(* A chunk: the buffer changes under the list. *)
LEMMA ChunkKeeps ==
    ASSUME Core, NEW p \in Peer, NEW m \in Message, NEW rest \in SUBSET net,
           HandleChunk(p, m, rest)
    PROVE  Core'
<1>1. PICK c \in m.chunks : held' = [held EXCEPT ![p] = AddChunk(@, c)]
  BY DEF HandleChunk
<1>2. c \in Chunks /\ c \in Nat /\ held[p] \in SUBSET Chunks /\ held[p] \in SUBSET Nat
      /\ IsFiniteSet(held[p])
  BY ChunksAssumption DEF Core, CoreTypes, BuffersFinite, Message
<1>3. AddChunk(held[p], c) \in SUBSET Chunks /\ IsFiniteSet(AddChunk(held[p], c))
  BY <1>2, AddTypes
<1>4. held' \in [Peer -> SUBSET Chunks] /\ BuffersFinite'
  BY <1>1, <1>3 DEF Core, CoreTypes, BuffersFinite
<1>5. UNCHANGED <<first, peerChunks>> /\ alive' \in SUBSET Peer
  BY DEF HandleChunk, Core, CoreTypes
<1>6. Push(rest, {})
  BY DEF HandleChunk
<1>7. net' \in SUBSET Message /\ AcceptsFromPeers' /\ AcceptsFromFirst'
  <2>1. net' \subseteq net \cup {}
    BY <1>6, PushKeeps
  <2> QED BY <1>5, <2>1, NothingSent
<1>8. ASSUME NEW q \in Peer, NEW e \in peerChunks'[q]
      PROVE  e.chunk \in held'[q] \/ Cardinality(Above(held'[q], e.chunk)) >= Room
  <2>1. e \in peerChunks[q] /\ e.chunk \in Nat
    <3>1. peerChunks' = peerChunks /\ peerChunks[q] \in SUBSET Entry
      BY <1>5 DEF Core, CoreTypes
    <3>2. e \in Entry
      BY <3>1
    <3> QED BY <3>1, <3>2, ChunksAssumption DEF Entry
  <2>2. e.chunk \in held[q] \/ Cardinality(Above(held[q], e.chunk)) >= Room
    BY <2>1 DEF Core, ListedIsHeldOrOld, Old, Above
  <2>3. CASE q = p
    <3>1. held'[q] = AddChunk(held[p], c)
      BY <1>1, <2>3 DEF Core, CoreTypes
    <3> QED BY <1>2, <2>1, <2>2, <2>3, <3>1, BufferKeeps
  <2>4. CASE q # p
    <3>1. held'[q] = held[q]
      BY <1>1, <2>4 DEF Core, CoreTypes
    <3> QED BY <2>2, <3>1
  <2> QED BY <2>3, <2>4
<1>9. ListedIsHeldOrOld'
  BY <1>8 DEF ListedIsHeldOrOld, Old, Above
<1> QED BY <1>4, <1>5, <1>7, <1>9 DEF Core, CoreTypes

(* An offer: what is accepted is not before firstChunk, which is set once. *)
LEMMA OfferKeeps ==
    ASSUME Core, NEW p \in Peer, NEW m \in Message, NEW rest \in SUBSET net,
           HandleOffer(p, m, rest)
    PROVE  Core'
<1> DEFINE missing == m.chunks \ held[p]
<1>1. PICK f \in FirstOf(p, missing) :
         \E accepted \in kSubset(Min({MaxDeliver, Cardinality(Wanted(missing, f))}),
                                 Wanted(missing, f)) :
            /\ first' = [first EXCEPT ![p] = f]
            /\ Push(rest, IF accepted = {} THEN {}
                           ELSE {Msg("accept", p, m.from, accepted)})
  BY DEF HandleOffer
<1>2. PICK accepted \in SUBSET Wanted(missing, f) :
            /\ first' = [first EXCEPT ![p] = f]
            /\ Push(rest, IF accepted = {} THEN {}
                           ELSE {Msg("accept", p, m.from, accepted)})
  BY <1>1 DEF kSubset
<1> DEFINE answer == IF accepted = {} THEN {} ELSE {Msg("accept", p, m.from, accepted)}
<1>3. missing \in SUBSET Chunks /\ m.from \in Node /\ p \in Node
  BY DEF Message, Node
<1>4. accepted \in SUBSET Chunks /\ accepted \subseteq missing /\ \A c \in accepted : c >= f
  BY <1>3 DEF Wanted
<1>5. first[p] \in Chunks \cup {None} /\ None \notin Chunks
  BY ChunksAssumption DEF Core, CoreTypes, None
<1>6. /\ f \in Chunks \cup {None}
      /\ first[p] # None => f = first[p]
      /\ accepted # {} => f # None
  BY <1>1, <1>3, <1>4, <1>5 DEF FirstOf
<1>7. /\ first' \in [Peer -> Chunks \cup {None}] /\ first'[p] = f
      /\ \A q \in Peer : first[q] # None => first'[q] = first[q]
  <2>1. first \in [Peer -> Chunks \cup {None}] /\ first' = [first EXCEPT ![p] = f]
    BY <1>2 DEF Core, CoreTypes
  <2>2. f \in Chunks \cup {None} /\ (first[p] # None => f = first[p])
    BY <1>6
  <2> HIDE DEF missing, answer
  <2> QED BY <2>1, <2>2
<1>8. Msg("accept", p, m.from, accepted) \in Message
      /\ Msg("accept", p, m.from, accepted).from = p
      /\ Msg("accept", p, m.from, accepted).chunks = accepted
  BY <1>3, <1>4, MsgTypes
<1>9. net' \subseteq net \cup answer
  BY <1>2, PushKeeps
<1>10. /\ answer \in SUBSET Message
       /\ \A a \in answer : /\ a.from \in Peer /\ first'[a.from] # None
                            /\ \A c \in a.chunks : c >= first'[a.from]
  BY <1>4, <1>6, <1>7, <1>8
<1> HIDE DEF answer
<1>11. net' \in SUBSET Message /\ AcceptsFromPeers' /\ AcceptsFromFirst'
  BY <1>7, <1>9, <1>10, AcceptsKept
<1>12. UNCHANGED <<held, peerChunks, alive>>
  BY DEF HandleOffer
<1> QED BY <1>7, <1>11, <1>12 DEF Core, CoreTypes, BuffersFinite, ListedIsHeldOrOld, Old

(* An accept: what is listed is in the buffer. *)
LEMMA AcceptKeeps ==
    ASSUME Core, NEW p \in Peer, NEW m \in Message, NEW rest \in SUBSET net,
           HandleAccept(p, m, rest)
    PROVE  Core'
<1> DEFINE entries == {[to |-> m.from, chunk |-> c] : c \in m.chunks \cap held[p]}
<1>1. /\ peerChunks' = [peerChunks EXCEPT ![p] = @ \cup entries]
      /\ UNCHANGED <<held, first>> /\ alive' \in SUBSET Peer
  BY DEF HandleAccept, InBuffer, Core, CoreTypes
<1>2. Push(rest, {})
  BY DEF HandleAccept
<1>3. net' \in SUBSET Message /\ AcceptsFromPeers' /\ AcceptsFromFirst'
  <2>1. net' \subseteq net \cup {}
    BY <1>2, PushKeeps
  <2> QED BY <1>1, <2>1, NothingSent
<1>4. entries \in SUBSET Entry /\ \A e \in entries : e.chunk \in held[p]
  BY DEF Entry, Message
<1> HIDE DEF entries
<1>5. peerChunks' \in [Peer -> SUBSET Entry]
  BY <1>1, <1>4 DEF Core, CoreTypes
<1>6. ASSUME NEW q \in Peer, NEW e \in peerChunks'[q]
      PROVE  e.chunk \in held[q] \/ Old(q, e.chunk)
  <2>1. e \in peerChunks[q] \/ (q = p /\ e \in entries)
    BY <1>1 DEF Core, CoreTypes
  <2> QED BY <1>4, <2>1 DEF Core, ListedIsHeldOrOld
<1>7. ListedIsHeldOrOld'
  BY <1>1, <1>6 DEF ListedIsHeldOrOld, Old
<1> QED BY <1>1, <1>3, <1>5, <1>7 DEF Core, CoreTypes, BuffersFinite

(* The other signalling messages are answered with a message that is no    *)
(* accept.                                                                 *)
LEMMA AnswersKeep ==
    ASSUME Core, NEW p \in Peer, NEW m \in Message, NEW rest \in SUBSET net,
           \/ HandleRequest(p, m, rest) \/ HandleBufferMap(p, m, rest)
           \/ HandleBufferMapRequest(p, m, rest)
    PROVE  Core'
<1>1. /\ p \in Node /\ m.from \in Node /\ held[p] \in SUBSET Chunks
      /\ Needed(p, m.chunks) \in SUBSET Chunks /\ chunkIDSet \in SUBSET Chunks
  BY DEF Core, CoreTypes, Message, Node, Needed, chunkIDSet
<1>2. PICK type \in {"bufmap", "request"}, chunks \in SUBSET Chunks :
         Push(rest, {Msg(type, p, m.from, chunks)})
  BY <1>1 DEF HandleRequest, HandleBufferMap, HandleBufferMapRequest
<1> DEFINE messages == {Msg(type, p, m.from, chunks)}
<1>3. messages \in SUBSET Message /\ \A a \in messages : a.type # "accept"
  BY <1>1, MsgTypes
<1> HIDE DEF messages
<1>4. net' \subseteq net \cup messages
  BY <1>2, PushKeeps DEF messages
<1>5. UNCHANGED peerVars
  BY DEF HandleRequest, HandleBufferMap, HandleBufferMapRequest
<1> HIDE DEF Core
<1>6. UNCHANGED <<held, first>> /\ alive' \in SUBSET Peer
      /\ peerChunks' \in [Peer -> SUBSET Entry]
      /\ \A q \in Peer : peerChunks'[q] \subseteq peerChunks[q]
  BY <1>5 DEF peerVars, Core, CoreTypes
<1> QED BY <1>3, <1>4, <1>6, CoreSent

(* Every signalling message. *)
LEMMA SignalKeeps ==
    ASSUME Core, NEW p \in Peer, NEW m \in Message, NEW rest \in SUBSET net,
           HandleSignal(p, m, rest)
    PROVE  Core'
BY OfferKeeps, AcceptKeeps, AnswersKeep DEF HandleSignal

-----------------------------------------------------------------------------
(* The start and the steps. *)

(* Every buffer and list is empty, and no message is on its way. *)
LEMMA InitInv == Init => Inv
<1> SUFFICES ASSUME Init PROVE Inv
  OBVIOUS
<1>1. TypeOK /\ CoreTypes
  BY DEF Init, TypeOK, CoreTypes
<1>2. BuffersFinite
  BY FS_EmptySet DEF Init, BuffersFinite
<1>3. ListedIsHeldOrOld /\ AcceptsFromPeers /\ AcceptsFromFirst
  BY DEF Init, ListedIsHeldOrOld, AcceptsFromPeers, AcceptsFromFirst
<1> QED BY <1>1, <1>2, <1>3 DEF Inv, Core

(* Core and the other two variables make the types. *)
LEMMA Together ==
    ASSUME Core', (last \in [Garbles -> SUBSET Message])', (streamed \in SUBSET Chunks)'
    PROVE  Inv'
BY DEF Inv, Core, CoreTypes, TypeOK

(* A step of a thread or of the server that only sends. *)
LEMMA SentKeeps ==
    ASSUME Inv, UNCHANGED <<held, first, last>>, alive' \in SUBSET Peer,
           streamed' \in SUBSET Chunks, peerChunks' \in [Peer -> SUBSET Entry],
           \A p \in Peer : peerChunks'[p] \subseteq peerChunks[p],
           NEW messages \in SUBSET Message, net' \subseteq net \cup messages,
           \A m \in messages : m.type # "accept"
    PROVE  Inv'
<1>1. Core'
  BY CoreSent DEF Inv
<1> QED BY <1>1, Together DEF Inv, TypeOK

(* Every step keeps the invariant. *)
LEMMA NextInv == Inv /\ [Next]_vars => Inv'
<1> SUFFICES ASSUME Inv, [Next]_vars PROVE Inv'
  OBVIOUS
<1>c. Core /\ TypeOK /\ net \in SUBSET Message /\ net \in SUBSET net
  BY DEF Inv, Core, CoreTypes
<1>w. streamed \in SUBSET Chunks /\ Window \in SUBSET Chunks
      /\ Server \in Node /\ Peer \subseteq Node
  BY <1>c DEF TypeOK, Window, Newest, Node
<1>1. ASSUME NEW m \in net, NEW rest \in Without(m), NEW p \in Peer, Receive(p, m, rest)
      PROVE  Inv'
  <2>1. m \in Message /\ rest \in SUBSET net
    BY <1>c, <1>1 DEF Without
  <2>2. streamed' = streamed
    BY <1>1 DEF Receive
  <2>3. CASE HandleChunk(p, m, rest) /\ UNCHANGED last
    <3>1. Core'
      BY <1>c, <2>1, <2>3, ChunkKeeps
    <3> QED BY <1>c, <2>2, <2>3, <3>1, Together DEF TypeOK
  <2>4. CASE HandleSignal(p, m, rest) /\ Remember(p, m)
    <3>1. Core'
      BY <1>c, <2>1, <2>4, SignalKeeps
    <3>2. last' \in [Garbles -> SUBSET Message]
      BY <1>c, <2>1, <2>4 DEF Remember, TypeOK
    <3> QED BY <1>c, <2>2, <3>1, <3>2, Together DEF TypeOK
  <2> QED BY <1>1, <2>3, <2>4 DEF Receive
<1>2. ASSUME NEW m \in net, NEW rest \in Without(m), ServerReceive(m, rest)
      PROVE  Inv'
  <2>1. m \in Message /\ rest \in SUBSET net
    BY <1>c, <1>2 DEF Without
  <2>2. PICK messages \in SUBSET Message :
           Push(rest, messages) /\ \A a \in messages : a.type # "accept"
    <3>1. CASE m.type \in {"accept", "request"} /\ m.chunks \cap Window # {}
      <4>1. PICK c \in m.chunks \cap Window : Push(rest, {Msg("chunk", Server, m.from, {c})})
        BY <1>2, <3>1 DEF ServerReceive
      <4>2. m.from \in Node /\ {c} \in SUBSET Chunks
        BY <1>w, <2>1, <4>1 DEF Message
      <4>3. Msg("chunk", Server, m.from, {c}) \in Message
            /\ Msg("chunk", Server, m.from, {c}).type = "chunk"
        BY <1>w, <4>2, MsgTypes
      <4> QED BY <4>1, <4>3
    <3>2. CASE ~(m.type \in {"accept", "request"} /\ m.chunks \cap Window # {})
      BY <1>2, <3>2 DEF ServerReceive
    <3> QED BY <3>1, <3>2
  <2>3. net' \subseteq net \cup messages
    BY <2>1, <2>2, PushKeeps
  <2>4. UNCHANGED <<held, first, peerChunks, alive, last, streamed>>
    BY <1>2 DEF ServerReceive, peerVars
  <2> QED BY <1>c, <2>2, <2>3, <2>4, SentKeeps DEF TypeOK
<1>3. ASSUME NEW p \in Peer, OfferChunk(p) PROVE Inv'
  <2>1. PICK neighbours \in SUBSET (Peer \ {p}) :
           Send({Msg("offer", p, n, held[p]) : n \in neighbours})
    BY <1>3 DEF OfferChunk
  <2> DEFINE messages == {Msg("offer", p, n, held[p]) : n \in neighbours}
  <2>2. held[p] \in SUBSET Chunks
    BY <1>c DEF TypeOK
  <2>3. \A n \in neighbours : Msg("offer", p, n, held[p]) \in Message
                              /\ Msg("offer", p, n, held[p]).type # "accept"
    BY <1>w, <2>2, MsgTypes
  <2>4. messages \in SUBSET Message /\ \A a \in messages : a.type # "accept"
    BY <2>3
  <2> HIDE DEF messages
  <2>5. net' \subseteq net \cup messages
    BY <1>c, <2>1, PushKeeps DEF Send, messages
  <2>6. UNCHANGED <<held, first, peerChunks, alive, last, streamed>>
    BY <1>3 DEF OfferChunk, peerVars
  <2> QED BY <1>c, <2>4, <2>5, <2>6, SentKeeps DEF TypeOK
<1>4. ASSUME NEW p \in Peer, SendChunk(p) PROVE Inv'
  <2> DEFINE sent == {e \in peerChunks[p] : e.chunk \in held[p] /\ e.to \in peerSet}
             messages == {Msg("chunk", p, e.to, {e.chunk}) : e \in sent}
  <2>1. messages = {}
    BY DEF peerSet
  <2> HIDE DEF messages
  <2>2. net' \subseteq net \cup messages
    BY <1>4, <1>c, PushKeeps DEF SendChunk, Send, messages
  <2>3. /\ peerChunks' = [peerChunks EXCEPT ![p] = {}] /\ alive' \in {alive, alive \ {p}}
        /\ UNCHANGED <<held, first, last, streamed>>
    BY <1>4 DEF SendChunk
  <2>4. peerChunks' \in [Peer -> SUBSET Entry]
        /\ \A q \in Peer : peerChunks'[q] \subseteq peerChunks[q]
    BY <1>c, <2>3 DEF TypeOK
  <2> QED BY <1>c, <2>1, <2>2, <2>3, <2>4, SentKeeps DEF TypeOK
<1>5. ASSUME NEW p \in Peer,
             NEW type \in {"offer", "deliver", "request", "bufmap", "bufmapRequest"},
             Send({Msg(type, Server, p, Window)}), UNCHANGED <<peerVars, last, streamed>>
      PROVE  Inv'
  <2> DEFINE messages == {Msg(type, Server, p, Window)}
  <2>1. messages \in SUBSET Message /\ \A a \in messages : a.type # "accept"
    BY <1>w, MsgTypes
  <2> HIDE DEF messages
  <2>2. net' \subseteq net \cup messages
    BY <1>c, <1>5, PushKeeps DEF Send, messages
  <2>3. UNCHANGED <<held, first, peerChunks, alive, last, streamed>>
    BY <1>5 DEF peerVars
  <2> QED BY <1>c, <2>1, <2>2, <2>3, SentKeeps DEF TypeOK
<1>7. ASSUME UNCHANGED <<held, first, peerChunks, last, net>>,
             alive' \in SUBSET Peer, streamed' \in SUBSET Chunks
      PROVE  Inv'
  <2>1. net' \in SUBSET Message /\ AcceptsFromPeers' /\ AcceptsFromFirst'
    BY <1>c, <1>7, NothingSent
  <2>2. BuffersFinite' /\ ListedIsHeldOrOld'
    BY <1>c, <1>7 DEF Core, BuffersFinite, ListedIsHeldOrOld, Old
  <2>3. Core'
    BY <1>c, <1>7, <2>1, <2>2 DEF Core, CoreTypes
  <2> QED BY <1>c, <1>7, <2>3, Together DEF TypeOK
<1>6. ASSUME NEW p \in Garbles, NEW n \in Node, ReceiveGarbled(p, n) PROVE Inv'
  <2>1. p \in Peer /\ last[p] \in SUBSET Message /\ UNCHANGED <<last, streamed>>
    BY <1>c, <1>6, NetworkAssumption DEF TypeOK, ReceiveGarbled
  <2>2. CASE \E m \in last[p] : HandleSignal(p, [m EXCEPT !.from = n], net)
    <3>1. PICK m \in last[p] : HandleSignal(p, [m EXCEPT !.from = n], net)
      BY <2>2
    <3>2. [m EXCEPT !.from = n] \in Message
      BY <2>1, <3>1 DEF Message
    <3>3. Core'
      BY <1>c, <2>1, <3>1, <3>2, SignalKeeps
    <3> QED BY <1>c, <2>1, <3>3, Together DEF TypeOK
  <2>3. CASE alive' = alive \ {p} /\ UNCHANGED <<held, first, peerChunks, net>>
    BY <1>c, <1>7, <2>1, <2>3 DEF TypeOK
  <2> QED BY <1>6, <2>2, <2>3, Zenon DEF ReceiveGarbled
<1>8. CASE Stream
  <2>1. Chunks \ streamed \in SUBSET Nat /\ Chunks \ streamed # {}
    BY <1>8, <1>w, ChunksAssumption DEF Stream
  <2>2. Min(Chunks \ streamed) \in Chunks
    BY <2>1, MinIn
  <2> QED BY <1>7, <1>8, <1>c, <1>w, <2>2 DEF Stream, peerVars, TypeOK
<1>9. CASE UNCHANGED vars
  BY <1>7, <1>9, <1>c, <1>w DEF vars, peerVars, TypeOK
<1>10. CASE \E m \in net : Arrives(m)
  BY <1>1, <1>2, <1>10 DEF Arrives
<1>11. CASE \E p \in Peer : OfferChunk(p) \/ SendChunk(p) \/ ServerOffer(p)
  BY <1>3, <1>4, <1>5, <1>11 DEF ServerOffer
<1>12. CASE \E p \in Peer, type \in Foreign : ServerStarts(p, type)
  BY <1>5, <1>12, NetworkAssumption DEF ServerStarts
<1> QED BY <1>6, <1>8, <1>9, <1>10, <1>11, <1>12 DEF Next

(* The invariant holds of every behaviour. *)
LEMMA AlwaysInv == Spec => []Inv
BY InitInv, NextInv, PTL DEF Spec

-----------------------------------------------------------------------------
(* Handlers and threads keep their state within the peers, the chunk ids   *)
(* and the messages of the protocol, whatever arrives (threads.c,          *)
(* network.c).                                                             *)
THEOREM PeerTypes == Spec => []TypeOK
<1>1. Inv => TypeOK
  BY DEF Inv
<1> QED BY <1>1, AlwaysInv, PTL

(* No accept asks for a chunk before firstChunk, whoever offered first and *)
(* whatever the network does (sig_offer, threads.c).                       *)
THEOREM AcceptsInOrder == Spec => []AcceptsFromFirst
<1>1. Inv => AcceptsFromFirst
  BY DEF Inv, Core
<1> QED BY <1>1, AlwaysInv, PTL

(* What is listed for a peer is in the chunk buffer or has become too old  *)
(* for it (network_add_to_peerChunk).                                      *)
THEOREM ListMatchesBuffer == Spec => []ListedIsHeldOrOld
<1>1. Inv => ListedIsHeldOrOld
  BY DEF Inv, Core
<1> QED BY <1>1, AlwaysInv, PTL

-----------------------------------------------------------------------------
(* The swarm implements Broadcast.  This needs that nobody has, sends or   *)
(* remembers a chunk before the server has made it.                        *)

MadeInOrder == \A c \in streamed, d \in Chunks : d < c => d \in streamed
HeldMade == \A p \in Peer : held[p] \subseteq streamed
NetMade == \A m \in net : m.chunks \subseteq streamed
LastMade == \A p \in Garbles : \A m \in last[p] : m.chunks \subseteq streamed
Made == MadeInOrder /\ HeldMade /\ NetMade /\ LastMade

(* A message carries the chunks it was built with. *)
LEMMA MsgChunks ==
    ASSUME NEW type, NEW from, NEW to, NEW chunks
    PROVE  Msg(type, from, to, chunks).chunks = chunks
BY DEF Msg

(* What is sent was made, so is what is on its way. *)
LEMMA NetStaysMade ==
    ASSUME NetMade, UNCHANGED streamed,
           NEW messages, \A m \in messages : m.chunks \subseteq streamed,
           net' \subseteq net \cup messages
    PROVE  NetMade'
BY DEF NetMade

(* The abstract module counts in the same way. *)
LEMMA SwarmCounts ==
    ASSUME NEW S
    PROVE  Swarm!Cardinality(S) = Cardinality(S)
BY DEF Swarm!Cardinality, Cardinality

(* cb_add_chunk keeps the newest, as many as there is room for. *)
LEMMA AddKeepsNewest ==
    ASSUME NEW S \in SUBSET Nat, IsFiniteSet(S), NEW c \in Nat
    PROVE  Swarm!KeepsNewest(S \cup {c}, AddChunk(S, c))
<1> DEFINE U == S \cup {c}
           N == NewestOf(U, Room)
<1>1. U \in SUBSET Nat /\ IsFiniteSet(U)
  BY FS_AddElement
<1>2. N \subseteq U
  BY DEF NewestOf
<1>3. Cardinality(N) <= Room
  BY <1>1, NewestFit, LimitsAssumption
<1>4. \A e \in U \ N : (\A x \in N : e < x) /\ Cardinality(N) = Room
  BY <1>1, NewestDrop, LimitsAssumption
<1>5. AddChunk(S, c) = N
  BY AddIsNewest
<1> HIDE DEF U, N
<1>6. Swarm!KeepsNewest(U, N)
  <2>1. U # N => Cardinality(N) = Room
    BY <1>2, <1>4
  <2> QED BY <1>2, <1>3, <1>4, <2>1, SwarmCounts DEF Swarm!KeepsNewest
<1> QED BY <1>5, <1>6 DEF U

(* A chunk that is handled was made, and the buffer keeps the newest. *)
LEMMA ChunkGets ==
    ASSUME Core, HeldMade, UNCHANGED streamed,
           NEW p \in Peer, NEW m \in Message, m.chunks \subseteq streamed,
           NEW rest \in SUBSET net, HandleChunk(p, m, rest)
    PROVE  HeldMade' /\ net' \subseteq net /\ Swarm!Next
<1>1. PICK c \in m.chunks : held' = [held EXCEPT ![p] = AddChunk(@, c)]
  BY DEF HandleChunk
<1>2. c \in Chunks /\ c \in Nat /\ c \in streamed
      /\ held[p] \in SUBSET Nat /\ IsFiniteSet(held[p]) /\ held[p] \subseteq streamed
  BY ChunksAssumption DEF Core, CoreTypes, BuffersFinite, HeldMade, Message
<1> DEFINE N == AddChunk(held[p], c)
<1>3. Swarm!KeepsNewest(held[p] \cup {c}, N)
  BY <1>2, AddKeepsNewest
<1>4. N \subseteq streamed
  BY <1>2, <1>3 DEF Swarm!KeepsNewest
<1> HIDE DEF N
<1>5. held' = [held EXCEPT ![p] = N] /\ held \in [Peer -> SUBSET Chunks]
  BY <1>1 DEF N, Core, CoreTypes
<1>6. HeldMade'
  BY <1>4, <1>5 DEF HeldMade
<1>7. UNCHANGED <<streamed, first>> /\ Push(rest, {})
  BY DEF HandleChunk
<1>8. net' \subseteq net
  <2>1. net' \subseteq net \cup {}
    BY <1>7, PushKeeps
  <2> QED BY <2>1
<1>9. Swarm!Get(p, c)
  BY <1>2, <1>3, <1>4, <1>5, <1>7 DEF Swarm!Get
<1> QED BY <1>2, <1>6, <1>8, <1>9 DEF Swarm!Next

(* An offer chooses firstChunk once, among chunks that were made and that  *)
(* the peer does not have, and accepts only such.                          *)
LEMMA OfferChooses ==
    ASSUME Core, HeldMade, NetMade, UNCHANGED streamed,
           NEW p \in Peer, NEW m \in Message, m.chunks \subseteq streamed,
           NEW rest \in SUBSET net, HandleOffer(p, m, rest)
    PROVE  HeldMade' /\ NetMade' /\ [Swarm!Next]_Swarm!vars
<1> DEFINE missing == m.chunks \ held[p]
<1>1. PICK f \in FirstOf(p, missing) :
         \E accepted \in kSubset(Min({MaxDeliver, Cardinality(Wanted(missing, f))}),
                                 Wanted(missing, f)) :
            /\ first' = [first EXCEPT ![p] = f]
            /\ Push(rest, IF accepted = {} THEN {}
                           ELSE {Msg("accept", p, m.from, accepted)})
  BY DEF HandleOffer
<1>2. PICK accepted \in SUBSET Wanted(missing, f) :
            /\ first' = [first EXCEPT ![p] = f]
            /\ Push(rest, IF accepted = {} THEN {}
                           ELSE {Msg("accept", p, m.from, accepted)})
  BY <1>1 DEF kSubset
<1> DEFINE answer == IF accepted = {} THEN {} ELSE {Msg("accept", p, m.from, accepted)}
<1>3. \A a \in answer : a.chunks \subseteq streamed
  BY <1>2 DEF Wanted, Msg
<1> HIDE DEF answer
<1>4. net' \subseteq net \cup answer
  BY <1>2, PushKeeps DEF answer
<1>5. NetMade'
  BY <1>3, <1>4, NetStaysMade
<1>6. UNCHANGED held
  BY DEF HandleOffer
<1>7. HeldMade'
  BY <1>6 DEF HeldMade
<1>8. CASE first[p] = None /\ missing # {}
  <2>1. f \in m.chunks /\ f \notin held[p] /\ f \in Chunks
    BY <1>1, <1>8 DEF FirstOf, Message
  <2>2. Swarm!Choose(p, f)
    BY <1>2, <1>6, <1>8, <2>1 DEF Swarm!Choose
  <2> QED BY <1>5, <1>7, <2>1, <2>2 DEF Swarm!Next
<1>9. CASE ~(first[p] = None /\ missing # {})
  <2>1. f = first[p]
    BY <1>1, <1>9 DEF FirstOf
  <2>2. first' = first
    BY <1>2, <2>1 DEF Core, CoreTypes
  <2> QED BY <1>5, <1>6, <1>7, <2>2 DEF Swarm!vars
<1> QED BY <1>8, <1>9

(* No other signalling message changes what Broadcast sees, and what is    *)
(* answered was made.                                                      *)
LEMMA OthersAnswer ==
    ASSUME HeldMade, NetMade, UNCHANGED streamed,
           NEW p \in Peer, NEW m, m.chunks \subseteq streamed, NEW rest \in SUBSET net,
           \/ HandleAccept(p, m, rest) \/ HandleRequest(p, m, rest)
           \/ HandleBufferMap(p, m, rest) \/ HandleBufferMapRequest(p, m, rest)
    PROVE  HeldMade' /\ NetMade' /\ UNCHANGED Swarm!vars
<1>1. PICK messages : Push(rest, messages) /\ \A a \in messages : a.chunks \subseteq streamed
  <2>1. CASE HandleAccept(p, m, rest)
    BY <2>1 DEF HandleAccept
  <2>2. CASE HandleRequest(p, m, rest)
    <3>1. \A a \in {Msg("bufmap", p, m.from, held[p])} : a.chunks \subseteq streamed
      BY DEF HeldMade, Msg
    <3> QED BY <2>2, <3>1 DEF HandleRequest
  <2>3. CASE HandleBufferMap(p, m, rest)
    <3>1. \A a \in {Msg("request", p, m.from, Needed(p, m.chunks))} : a.chunks \subseteq streamed
      BY DEF Needed, Msg
    <3> QED BY <2>3, <3>1 DEF HandleBufferMap
  <2>4. CASE HandleBufferMapRequest(p, m, rest)
    <3>1. \A a \in {Msg("bufmap", p, m.from, chunkIDSet)} : a.chunks \subseteq streamed
      BY DEF chunkIDSet, Msg
    <3> QED BY <2>4, <3>1 DEF HandleBufferMapRequest
  <2> QED BY <2>1, <2>2, <2>3, <2>4
<1>2. net' \subseteq net \cup messages
  BY <1>1, PushKeeps
<1>3. UNCHANGED <<held, first>>
  BY DEF HandleAccept, HandleRequest, HandleBufferMap, HandleBufferMapRequest, peerVars
<1> QED BY <1>1, <1>2, <1>3, NetStaysMade DEF HeldMade, Swarm!vars

(* Every signalling message. *)
LEMMA SignalSwarm ==
    ASSUME Core, HeldMade, NetMade, UNCHANGED streamed,
           NEW p \in Peer, NEW m \in Message, m.chunks \subseteq streamed,
           NEW rest \in SUBSET net, HandleSignal(p, m, rest)
    PROVE  HeldMade' /\ NetMade' /\ [Swarm!Next]_Swarm!vars
<1>1. CASE HandleOffer(p, m, rest)
  BY <1>1, OfferChooses
<1>2. CASE ~HandleOffer(p, m, rest)
  <2>1. \/ HandleAccept(p, m, rest) \/ HandleRequest(p, m, rest)
        \/ HandleBufferMap(p, m, rest) \/ HandleBufferMapRequest(p, m, rest)
    BY <1>2 DEF HandleSignal
  <2>2. HeldMade' /\ NetMade' /\ UNCHANGED Swarm!vars
    BY <2>1, OthersAnswer
  <2> QED BY <2>2
<1> QED BY <1>1, <1>2

(* A step that only sends what was made. *)
LEMMA SendSwarm ==
    ASSUME Made, UNCHANGED <<held, first, last, streamed>>,
           NEW messages, \A m \in messages : m.chunks \subseteq streamed,
           net' \subseteq net \cup messages
    PROVE  Made' /\ UNCHANGED Swarm!vars
<1>1. NetMade'
  BY NetStaysMade DEF Made
<1> QED BY <1>1 DEF Made, MadeInOrder, HeldMade, LastMade, Swarm!vars

(* A step that sends nothing. *)
LEMMA QuietSwarm ==
    ASSUME Made, UNCHANGED <<held, first, last, streamed>>, net' \subseteq net
    PROVE  Made' /\ UNCHANGED Swarm!vars
BY DEF Made, MadeInOrder, HeldMade, NetMade, LastMade, Swarm!vars

(* A message that is received and was made. *)
LEMMA ReceiveSwarm ==
    ASSUME Inv, Made, NEW m \in net, NEW rest \in Without(m), NEW p \in Peer,
           Receive(p, m, rest)
    PROVE  Made' /\ [Swarm!Next]_Swarm!vars
<1>1. m \in Message /\ m.chunks \subseteq streamed /\ rest \in SUBSET net
      /\ Core /\ HeldMade /\ NetMade /\ UNCHANGED streamed
  BY DEF Inv, Core, CoreTypes, Made, NetMade, Without, Receive
<1>2. MadeInOrder'
  BY <1>1 DEF Made, MadeInOrder
<1>3. CASE HandleChunk(p, m, rest) /\ UNCHANGED last
  <2>1. HeldMade' /\ net' \subseteq net /\ Swarm!Next
    BY <1>1, <1>3, ChunkGets
  <2>2. NetMade' /\ LastMade'
    BY <1>1, <1>3, <2>1 DEF Made, NetMade, LastMade
  <2> QED BY <1>2, <2>1, <2>2 DEF Made
<1>4. CASE HandleSignal(p, m, rest) /\ Remember(p, m)
  <2>1. HeldMade' /\ NetMade' /\ [Swarm!Next]_Swarm!vars
    BY <1>1, <1>4, SignalSwarm
  <2>2. LastMade'
    <3>1. \A q \in Garbles : \A a \in last'[q] : a \in last[q] \/ a = m
      BY <1>4 DEF Remember, Inv, TypeOK
    <3> QED BY <1>1, <3>1 DEF Made, LastMade
  <2> QED BY <1>2, <2>1, <2>2 DEF Made
<1> QED BY <1>3, <1>4 DEF Receive

(* A garbled message is taken for the one before, which was made. *)
LEMMA GarbledSwarm ==
    ASSUME Inv, Made, NEW p \in Garbles, NEW n \in Node, ReceiveGarbled(p, n)
    PROVE  Made' /\ [Swarm!Next]_Swarm!vars
<1>1. p \in Peer /\ last[p] \in SUBSET Message /\ UNCHANGED <<last, streamed>>
      /\ net \in SUBSET net
  BY NetworkAssumption DEF Inv, TypeOK, ReceiveGarbled
<1>2. MadeInOrder' /\ LastMade'
  BY <1>1 DEF Made, MadeInOrder, LastMade
<1>3. CASE \E m \in last[p] : HandleSignal(p, [m EXCEPT !.from = n], net)
  <2>1. PICK m \in last[p] : HandleSignal(p, [m EXCEPT !.from = n], net)
    BY <1>3
  <2> DEFINE g == [m EXCEPT !.from = n]
  <2>2. g \in Message /\ g.chunks = m.chunks
    BY <1>1 DEF Message
  <2>3. HandleSignal(p, g, net)
    BY <2>1
  <2> HIDE DEF g
  <2>4. g.chunks \subseteq streamed
    BY <2>1, <2>2 DEF Made, LastMade
  <2>5. HeldMade' /\ NetMade' /\ [Swarm!Next]_Swarm!vars
    BY <1>1, <2>2, <2>3, <2>4, SignalSwarm DEF Inv, Made
  <2> QED BY <1>2, <2>5 DEF Made
<1>4. CASE alive' = alive \ {p} /\ UNCHANGED <<held, first, peerChunks, net>>
  <2>1. UNCHANGED <<held, first, last, streamed>> /\ net' \subseteq net
    BY <1>1, <1>4
  <2>2. Made' /\ UNCHANGED Swarm!vars
    BY <2>1, QuietSwarm
  <2> QED BY <2>2
<1> QED BY <1>3, <1>4, Zenon DEF ReceiveGarbled

(* The server makes the chunks in order. *)
LEMMA StreamMakes ==
    ASSUME Inv, Made, Stream
    PROVE  Made' /\ Swarm!Next
<1> DEFINE c == Min(Chunks \ streamed)
<1>1. streamed \in SUBSET Chunks /\ Chunks \ streamed \in SUBSET Nat
      /\ Chunks \ streamed # {}
  BY ChunksAssumption DEF Inv, TypeOK, Stream
<1>2. c \in Chunks \ streamed /\ \A d \in Chunks \ streamed : c <= d
  <2>1. \E x \in Chunks \ streamed : \A y \in Chunks \ streamed : x <= y
    BY <1>1, LeastOf
  <2> QED BY <2>1 DEF Min
<1>3. streamed' = streamed \cup {c} /\ UNCHANGED <<held, first, last, net>>
  BY DEF Stream, peerVars
<1> HIDE DEF c
<1>4. \A d \in streamed : d < c
  <2>1. \A d \in streamed : c < d => c \in streamed
    BY <1>2 DEF Made, MadeInOrder
  <2> QED BY <1>1, <1>2, <2>1, ChunksAssumption
<1>5. MadeInOrder'
  <2>1. ASSUME NEW d \in Chunks, d < c PROVE d \in streamed
    BY <1>2, <2>1, ChunksAssumption
  <2> QED BY <1>3, <2>1 DEF Made, MadeInOrder
<1>6. HeldMade' /\ NetMade' /\ LastMade'
  BY <1>3 DEF Made, HeldMade, NetMade, LastMade
<1>7. Swarm!Make(c)
  BY <1>3, <1>4 DEF Swarm!Make
<1> QED BY <1>2, <1>5, <1>6, <1>7 DEF Made, Swarm!Next

(* Every step is a step of Broadcast or changes nothing it sees. *)
LEMMA SwarmStep ==
    ASSUME Inv, Made, [Next]_vars
    PROVE  Made' /\ [Swarm!Next]_Swarm!vars
<1>n. net \in SUBSET net
  OBVIOUS
<1>1. ASSUME NEW m \in net, NEW rest \in Without(m), ServerReceive(m, rest)
      PROVE  Made' /\ UNCHANGED Swarm!vars
  <2>1. rest \in SUBSET net
    BY DEF Without
  <2>2. PICK messages : Push(rest, messages) /\ \A a \in messages : a.chunks \subseteq streamed
    <3>1. CASE m.type \in {"accept", "request"} /\ m.chunks \cap Window # {}
      <4>1. PICK c \in m.chunks \cap Window : Push(rest, {Msg("chunk", Server, m.from, {c})})
        BY <1>1, <3>1 DEF ServerReceive
      <4>2. \A a \in {Msg("chunk", Server, m.from, {c})} : a.chunks \subseteq streamed
        BY <4>1 DEF Window, Newest, Msg
      <4> QED BY <4>1, <4>2
    <3>2. CASE ~(m.type \in {"accept", "request"} /\ m.chunks \cap Window # {})
      BY <1>1, <3>2 DEF ServerReceive
    <3> QED BY <3>1, <3>2
  <2>3. net' \subseteq net \cup messages
    BY <2>1, <2>2, PushKeeps
  <2>4. UNCHANGED <<held, first, last, streamed>>
    BY <1>1 DEF ServerReceive, peerVars
  <2> QED BY <2>2, <2>3, <2>4, SendSwarm
<1>2. ASSUME NEW p \in Peer, OfferChunk(p) PROVE Made' /\ UNCHANGED Swarm!vars
  <2>1. PICK neighbours \in SUBSET (Peer \ {p}) :
           Send({Msg("offer", p, n, held[p]) : n \in neighbours})
    BY <1>2 DEF OfferChunk
  <2> DEFINE messages == {Msg("offer", p, n, held[p]) : n \in neighbours}
  <2>2. \A a \in messages : a.chunks \subseteq streamed
    BY DEF Made, HeldMade, Msg
  <2> HIDE DEF messages
  <2>3. net' \subseteq net \cup messages
    BY <1>n, <2>1, PushKeeps DEF Send, messages
  <2>4. UNCHANGED <<held, first, last, streamed>>
    BY <1>2 DEF OfferChunk, peerVars
  <2> QED BY <2>2, <2>3, <2>4, SendSwarm
<1>3. ASSUME NEW p \in Peer, SendChunk(p) PROVE Made' /\ UNCHANGED Swarm!vars
  <2> DEFINE sent == {e \in peerChunks[p] : e.chunk \in held[p] /\ e.to \in peerSet}
             messages == {Msg("chunk", p, e.to, {e.chunk}) : e \in sent}
  <2>1. messages = {}
    BY DEF peerSet
  <2> HIDE DEF messages
  <2>2. net' \subseteq net \cup messages
    BY <1>3, <1>n, PushKeeps DEF SendChunk, Send, messages
  <2>3. UNCHANGED <<held, first, last, streamed>>
    BY <1>3 DEF SendChunk
  <2> QED BY <2>1, <2>2, <2>3, SendSwarm
<1>4. ASSUME NEW p, NEW type, Send({Msg(type, Server, p, Window)}),
             UNCHANGED <<peerVars, last, streamed>>
      PROVE  Made' /\ UNCHANGED Swarm!vars
  <2> DEFINE messages == {Msg(type, Server, p, Window)}
  <2>1. \A a \in messages : a.chunks = Window
    BY MsgChunks
  <2>2. Window \subseteq streamed
    BY DEF Window, Newest
  <2>3. \A a \in messages : a.chunks \subseteq streamed
    BY <2>1, <2>2
  <2> HIDE DEF messages
  <2>4. net' \subseteq net \cup messages
    BY <1>4, <1>n, PushKeeps DEF Send, messages
  <2> QED BY <1>4, <2>3, <2>4, SendSwarm DEF peerVars
<1>5. CASE UNCHANGED vars
  <2>1. UNCHANGED <<held, first, last, streamed>> /\ net' \subseteq net
    BY <1>5 DEF vars, peerVars
  <2>2. Made' /\ UNCHANGED Swarm!vars
    BY <2>1, QuietSwarm
  <2> QED BY <2>2
<1>6. CASE \E m \in net : Arrives(m)
  <2>4. PICK m \in net : Arrives(m)
    BY <1>6
  <2>1. PICK rest \in Without(m) :
           (\E p \in Peer : Receive(p, m, rest)) \/ ServerReceive(m, rest)
    BY <2>4 DEF Arrives
  <2>2. CASE \E p \in Peer : Receive(p, m, rest)
    BY <2>2, ReceiveSwarm
  <2>3. CASE ServerReceive(m, rest)
    BY <1>1, <2>3
  <2> QED BY <2>1, <2>2, <2>3
<1>7. CASE \E p \in Peer : OfferChunk(p) \/ SendChunk(p) \/ ServerOffer(p)
  BY <1>2, <1>3, <1>4, <1>7 DEF ServerOffer
<1>8. CASE \E p \in Peer, type \in Foreign : ServerStarts(p, type)
  BY <1>4, <1>8 DEF ServerStarts
<1>9. CASE Stream
  BY <1>9, StreamMakes
<1>10. CASE \E p \in Garbles, n \in Node : ReceiveGarbled(p, n)
  BY <1>10, GarbledSwarm
<1> QED BY <1>5, <1>6, <1>7, <1>8, <1>9, <1>10 DEF Next

(* Through lost, late, doubled and garbled messages, and whatever the      *)
(* server starts, the handlers of threads.c and network.c do what module   *)
(* Broadcast promises a peer: it has only chunks the server made, the      *)
(* newest it got, and firstChunk is chosen once.                           *)
THEOREM SwarmBroadcasts == Spec => ImplementsBroadcast
<1>1. Init => Made /\ Swarm!Init
  BY DEF Init, Made, MadeInOrder, HeldMade, NetMade, LastMade, Swarm!Init
<1>2. Inv /\ Made /\ [Next]_vars => Made' /\ [Swarm!Next]_Swarm!vars
  BY SwarmStep
<1> QED BY <1>1, <1>2, AlwaysInv, PTL DEF Spec, ImplementsBroadcast, Swarm!Spec

===============================================================================
