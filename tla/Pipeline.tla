-------------------------------- MODULE Pipeline --------------------------------
(***************************************************************************)
(* The way of a chunk through the receive thread: one peer of module Peers *)
(* with its output, module OutputBuffer.  A chunk message goes to          *)
(* output_ffmpeg_deliver and then to the chunk buffer, in one critical     *)
(* section (network.c:198-200); the offer handler chooses firstChunk,      *)
(* which the output reads.  What the output is given, and in which order,  *)
(* is what the handlers accept and request and the network makes of it.    *)
(***************************************************************************)
EXTENDS OutputBuffer

CONSTANTS Me, Server, Room, MaxDeliver, Foreign, Duplicates, Garbles, MaxInFlight

ASSUME PeerAssumption ==
    /\ Me # Server /\ Garbles \subseteq {Me}
    /\ Room \in Nat \ {0}
    /\ Foreign \subseteq {"deliver", "request", "bufmap", "bufmapRequest"}

VARIABLES
    held, peerChunks, last, streamed, net,      \* as in Peers
    died            \* the process died outside the output

output == <<slot, playedChunk, maximumChunk, delivered, played, crashed>>

Network == INSTANCE Peers WITH
    Peer <- {Me}, Chunks <- Ids,
    first <- [p \in {Me} |-> firstChunk],
    alive <- IF crashed \/ died THEN {} ELSE {Me}

PipelineInit ==
    /\ Init
    /\ died = FALSE
    /\ held = [p \in {Me} |-> {}]
    /\ peerChunks = [p \in {Me} |-> {}]
    /\ last = [p \in Garbles |-> {}]
    /\ streamed = {}
    /\ net = {}

(* network_handle_chunk_message: the output first, then the chunk buffer;  *)
(* the output's result is not looked at.                                   *)
ReceiveChunk(m) ==
    /\ ~died
    /\ m.type = "chunk"
    /\ \E id \in m.chunks : Deliver(id)
    /\ UNCHANGED died
    /\ Network!Arrives(m)

(* Every other step leaves the output alone; it may set firstChunk.        *)
OutputIdle ==
    /\ ~died /\ ~crashed
    /\ firstChunk' \in Ids \cup {None}
    /\ died' \in BOOLEAN
    /\ UNCHANGED output

ReceiveSignal(m) == m.type # "chunk" /\ OutputIdle /\ Network!Arrives(m)
ReceiveGarbled == OutputIdle /\ \E p \in Garbles : Network!ReceiveGarbled(p, Server)
SendChunk == OutputIdle /\ Network!SendChunk(Me)
ServerStep ==
    /\ OutputIdle
    /\ \/ Network!Stream \/ Network!ServerOffer(Me)
       \/ \E type \in Foreign : Network!ServerStarts(Me, type)

PipelineNext ==
    \/ \E m \in net : ReceiveChunk(m) \/ ReceiveSignal(m)
    \/ ReceiveGarbled \/ SendChunk \/ ServerStep

pipelineVars == <<vars, held, peerChunks, last, streamed, net, died>>

PipelineSpec == PipelineInit /\ [][PipelineNext]_pipelineVars

-----------------------------------------------------------------------------
(* The two buffers a chunk goes to (network.c:198 and 200) agree: what the *)
(* chunk buffer holds, and so offers and accepts no more, the output has   *)
(* been given; and what the output was given the chunk buffer has, unless  *)
(* it turned it down or dropped it as too old.  In the second case the     *)
(* next offer gets the chunk delivered again.                              *)
BuffersAgree ==
    \/ died \/ crashed
    \/ /\ \A id \in held[Me] : delivered[id] > 0
       /\ \A id \in Ids : delivered[id] > 0 => id \in held[Me] \/ Network!Old(Me, id)

(* What is in the list of chunks to send is still in the chunk buffer or   *)
(* too old, with all kinds of messages and what a garbled one repeats.     *)
ListedIsHeldOrOld == Network!ListedIsHeldOrOld

(* The network and the handlers do to the output nothing but what module   *)
(* OutputBuffer allows: every arrival is one call of deliver, and          *)
(* firstChunk is set once.  So the theorems about OutputBuffer apply here. *)
ImplementsBuffer == Spec
===============================================================================
