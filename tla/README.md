# A verification of the p2p xine plugin

The program is a peer of a peer-to-peer live stream that runs inside the xine
media player. It receives chunks of the stream from a server and from other
peers, puts them in order, and hands their bytes to xine, which reads them like
a file. This directory holds TLA+ modules for its parts, the TLC configurations
that check them on small instances, and proofs for every instance that TLAPS
checks.

## The system

| part | source | state | operations |
|---|---|---|---|
| output buffer | `output_ffmpeg.c` | slots of chunks, `playedChunk`, `maximumChunk`; reads the global `firstChunk` | `deliver`, with `flush` and `cleanup` inside |
| plugin ring | `input_p2p.c`, `write_chunk` in `output_ffmpeg.c` | byte ring with get and put pointer and count, a mutex, two condition variables; preview, position | `read`, `read_block`, `get_optional_data`; `write_chunk` |
| threads | `threads.c` | three mutexes, `stopThreads`, `transId`, `firstChunk` | receive, topology, offer, send and login thread |
| peer state, messages | `network.c`, `threads.c` | chunk buffer, `firstChunk`, list of chunks to send; chunk id set and peer set, which stay empty | one handler per message type, the bodies of the offer and send threads |
| plugin life cycle | `input_p2p.c`, `streamer.c` | the plugin structure, and the global pointers of the peer that all plugins share | `get_instance`, `open` (`init`, `threads_start`), `dispose` |
| secured data | `output_ffmpeg.c`, `network.c` | none | stubs that are switched off |
| output factory, xine glue, build files | `output_factory.c`, the rest of `input_p2p.c`, `Makefile` | none that changes | constructor, constant answers |

How they interact. The *receive thread* takes one message at a time. A chunk
message is handled with `chunkBufferMutex` held: the chunk goes to the output
buffer (`deliver`), which writes it, and perhaps others that waited for it,
into the plugin's ring (`write_chunk`), and then into the chunk buffer. An offer
message is answered with the chunks the peer does not have; the first one of
these becomes `firstChunk`, which the output buffer compares with. The *topology
thread* keeps the list of neighbours and sets `stopThreads` when there are none.
The *offer thread* offers the chunk buffer to the neighbours, with
`topologyMutex` and `chunkBufferMutex` nested; the *send thread* sends the chunks
that peers accepted, with all three mutexes nested and no pause in its loop. The
*xine engine* reads the ring from a thread of its own. Reader and writer of the
ring wait for each other with timeouts of 5 and 2 seconds.

What is hard about it: chunks arrive in any order, late, twice or never; the
decisions of the output buffer rest on a `playedChunk` that a flush does not
move; a missing return value and an undeclared function leave part of the
output buffer's behaviour to the compiler; two threads share the ring with waits
that end by a signal, by time or for no reason; the receive thread keeps a mutex
of the peer while it waits for the ring, so a paused player holds up the peer;
mutexes nest in three places and are missing in others; a lost message is never
asked for again; several plugins of one xine process share the peer's globals.
The list with the lines
is `hazards` in `PROJECT.json`.

What makes each part correct: the *output buffer* hands on every chunk once, in
increasing order; the *ring* moves its pointers and its count together, gives a
call the amount it asked for or what came in time, and lets neither side sleep for
good; the *threads* never deadlock, never access shared data at the
same time, and end when they are told to; the *peer* accepts only what it lacks,
lists for sending only what it has, and gets the stream in spite of what is lost;
the *life cycle* starts one set of threads at a time, on complete state.

## The modules

| module | models | extends or uses |
|---|---|---|
| `OutputBuffer` | the output buffer | instantiates `Playout` |
| `Playout` | what the output buffer promises the player | |
| `PluginRing` | the plugin ring, reader and writer | instantiates `ByteChannel` |
| `ByteChannel` | what the ring promises the player | |
| `Threads` | the threads and mutexes | |
| `Peers` | peers, the server and the network: messages and their handlers | instantiates `Broadcast` |
| `Broadcast` | what the swarm promises a peer | |
| `Pipeline` | one peer of `Peers` together with its output | `OutputBuffer`, instantiates `Peers` |
| `Lifecycle` | opening and disposing of plugins | |
| `OutputBuffer_proofs`, `PluginRing_proofs`, `Threads_proofs`, `Peers_proofs`, `Pipeline_proofs`, `Lifecycle_proofs` | theorems about the module of that name | that module; `Pipeline_proofs` also `OutputBuffer_proofs` |
| `ChunkIds_proofs` | lemmas on the newest of a set of chunk ids | used by `Peers_proofs`, `Pipeline_proofs` |

How the modules fit together: `Threads` shows that handlers and loop bodies exclude
each other where they share data, so `Peers` takes each of them as one action.
`Peers` decides which chunk messages a peer gets, `Pipeline` hands these to the
output and shows that the output sees nothing but what `OutputBuffer` allows, and
what the output writes goes into the ring of `PluginRing`, which is where the
`Put` of `Threads` waits.

### OutputBuffer

A chunk is its id. `slot` is the array `outputBuffer` (the id in each slot, or
`Empty` for a NULL data pointer); `playedChunk`, `maximumChunk` and `firstChunk`
are the code's variables. `played` is the sequence of chunks handed to
`write_chunk`, a history. `output_ffmpeg_deliver` runs under `chunkBufferMutex`,
so a call is one action, and each return path of it is one: `TooOld`, `PlayNow`,
`Store` (into the slot, then `Flush`) and `Collide` (the slot is taken, so
`Cleanup`). `SetFirstChunk` is the only other thing that changes what `deliver`
sees, the offer handler's choice of the first chunk, at any time before, between
or after arrivals.

Two pieces of undefined behaviour are nondeterministic. `buffer_free` does not
return a value after it wrote a chunk and its caller compares the value with -1:
`FlushWrites` lets a flush end after any write. `buffer_cleanup` calls
`write_chunk`, not yet declared, with a structure in place of a pointer: `Cleanup`
writes nothing, or the chunk, or any other chunk of the buffer, or crashes, and
the slots are freed as the code says. `Rem` is C's remainder, which is -1 for -1:
before anything is played a flush starts at slot 0 and a cleanup reads slot -1.

`output_ffmpeg_buffer_free` has a branch for a slot without a chunk, which asks
the neighbours for it and gives up after 2 seconds. Both callers test for that
before they call, so the branch is not reached and not modelled: a missing chunk
is never asked for.

### PluginRing

Bytes are counted, not stored, and pointers are offsets: the model knows how many
bytes there are and where the pointers stand, not what the bytes are. What happens between
getting `buffer_ring_mutex` and releasing it, or starting a wait, is one action:
`StartCall` (the preview part, before the loop), `CopyOut` (one round of the
read loop), `ReaderSleeps`, `ReaderTimeout`, `ReturnTimedOut` for the reader;
`WriteChunk` (a call), `WriterSleeps`, `WriterTimeout`, `CopyIn` and
`CopyBehindEnd` for the writer. A wait that has ended leaves its thread to
compete for the mutex: a reader that timed out is in `timedout`, where a signal
no longer reaches it and where the writer may still fill the ring before the
call returns. A chunk has a size (`Sizes`) and a header (`Offsets`; its length
depends on the number of frames). `write_chunk` skips the header: it has
to fit for the test for room, is not copied or counted, but moves the put
pointer if the payload is copied in one piece (`CopyIn`). `drift` is a history of
what the pointer moved so. A chunk whose first byte is 0 is turned away
(`StrangeChunk`); for one of 127 or more the header's length is what the stack
holds, and the process dies of it (`HeaderUnset`) or skips the length of an earlier
header (`WriteChunk`). `Return` is what the callers of `p2p_plugin_read` do with its result:
`read_block` throws a short block away, `get_optional_data` makes it the preview.

The structure is allocated with `malloc` and not cleared, so `preview_size` and
`preview_read_done` start with any flag and any number of `StalePreview`, of either
sign: nothing, less than the array, or more than the array. With more, a read or
the copy of `get_optional_data` may run behind the array, and with a negative one
that copy does (`PreviewOverrun`): the process may die of it, or go on when the
length is positive. What the model says of the preview is therefore that nothing
but the stale value does this (`PreviewStaysInside`).

### Threads

A thread's work is a sequence of operations: lock, unlock, read or write of a
shared structure, receive, put a chunk into the ring, test `stopThreads`. Each
handler and each loop body is such a sequence, read off the code
(`AcceptMessage`, `RequestMessage`, `SendChunk`, ...), and one operation is one
step, so that threads interleave between any two. `Put` waits for room in the
ring with whatever mutexes the thread holds. The ring is a number of chunks
here; that every wait in it ends when the player reads is what `PluginRing`
shows (`WriteReturns`). The login thread and the messages with secured data do
nothing, because the output has secured data switched off.

### Peers

Each peer has its chunk buffer `held` (GRAPES' buffer keeps the newest `Room`
chunks), `firstChunk`, and `peerChunks`, the list of chunks to send. There is one
action per handler, with what it sends: `HandleOffer` chooses `firstChunk`, if it
is the first offer with something new, and accepts up to `MaxDeliver` of the
chunks the peer lacks, from `firstChunk` on; `HandleAccept` lists the chunks that
are in the buffer; the handlers of requests and buffer maps answer from
`chunkIDSet`, which is never filled. `OfferChunk` and `SendChunk` are the bodies
of two threads. `SendChunk` sends only to receivers it finds in the peer set,
which is never filled either, so the list is emptied and nothing is sent.

The network holds the messages on their way. Any of them may arrive next, or
never; with `Duplicates` it stays there when it is received; when the network is
full, older messages are pushed out, which loses them. A message that cannot be
parsed, or a receive that failed, is handled with what the stack still holds, the
type and the chunks of the message before (`ReceiveGarbled`). Three pieces of
undefined behaviour may end the process (`alive`): the list that is too short for
what is written to it, the free of an element that was never set, the free of a
node that was freed before.

The server is another program and known only by the messages the peer expects of
it: it makes the chunks in order, offers the newest, sends what is accepted or
requested, and, for `Foreign` types, sends anything else.

### Pipeline

`Network!...` is module `Peers` with one peer, whose `firstChunk` is the one of
`OutputBuffer`. `ReceiveChunk` is both handlings of a chunk message in one action,
as they are in one critical section: `Deliver` of the output, whatever it
returns, and the chunk buffer's `AddChunk`. All other steps leave the output alone.

### Lifecycle

For each plugin: `GetInstance`, `Open`, the eleven steps of `init` in their order,
each of which succeeds or fails (`InitFails` keeps what was done before and leaves
NULL in the pointer of the step), `StartThreads`, `ThreadsEnd`, `Dispose` and
`DisposeCloses`. `set` is the set of global pointers that are not NULL, shared by
all plugins, `bound` the port, which no call gives back. `dispose` calls close
through an output pointer of the plugin that is never assigned, so every path
through it ends there; that is a step of the model and not a property. The frees of
pointers that do not come from `malloc` may end the process.

### The abstract specifications

`Playout`: chunks arrive, each at most once; what was written only grows, is
increasing, and contains only what has arrived. `OutputBuffer` implements it
with `arrived` the set of delivered ids and `out` the sequence `played`.

`ByteChannel`: bytes are put and fetched, never more queued than the ring's size.
It speaks of amounts: because the put pointer runs ahead of the count
(`ring_put`), which bytes a call gets is another matter. A call of the player is opened with a number of bytes it needs, fetches
some in any number of rounds, and either returns all it asked for or gives up; if
it gives up, a call that takes less (`read`, `get_optional_data`) returns what it
fetched and a call for a whole block loses it.
`PluginRing` implements it with `queued` the count of the ring, and with `given`
and `lost` the bytes that calls returned and threw away. Mutex, condition
variables, wakeups, both pointers, preview and chunks are hidden by it; a wait
that times out is where a call may give up.

`Broadcast`: the server makes chunks in increasing order; a peer gets a chunk that was
made, and its buffer then holds all it had and the new one, or the newest `Limit`
of these; once, a peer chooses where its stream starts, a chunk that was made and
that it does not have. `Peers` implements it with `streamed`, `held` and `first`.
All messages are hidden by it, with what happens to them on their way.

## The runs

| run | bounds | checks |
|---|---|---|
| `buffer_lap` | 5 slots, chunks 0 to 4, once each | `InOrder`, `Accounted`, the inductive invariant `LapInv`, refinement of `Playout` |
| `buffer_laps` | 3 slots, chunks 2 to 8, once each | `TypeOK`, `SlotsConsistent`, `MaximumIsNewest` |
| `buffer_stall` | 5 slots, chunks 0 to 4, all of which arrive | finds `StreamGoesOn` violated |
| `buffer_kept` | 3 slots, chunks 2 to 8 | finds `NewChunkKept` violated |
| `ring_player` | ring of 5 bytes, chunks of 3 and 5 with headers of 1 and 2, reads of 3, a preview of 2 whose size starts at 1 or 3 or the negative of these, 3 chunks, 1 spurious wakeup | `TypeOK`, `NoLostWakeup`, `PutAheadByHeaders`, `PreviewStaysInside`, `ReadReturns`, `WriteReturns`, refinement of `ByteChannel` |
| `ring_put` | the same ring, chunks of 3 with a header of 1, reads of 2, a structure that is cleared | finds `PutBehindCount` violated |
| `threads_loops` | ring of 1 chunk, messages that write up to 2, 2 messages | `TypeOK`, `NoCircularWait`, `NoRace`, `ReleasesAll`, `StopIsFollowed`, `CriticalSectionsEnd` |
| `peers_swarm` | 2 peers and the server, 2 chunks, a buffer of 1, 2 messages on their way, duplicates | `TypeOK`, `AcceptsFromFirst`, `Reaches`, refinement of `Broadcast` |
| `peers_sent` | 2 peers and the server, 1 chunk | finds `AcceptedIsSent` violated |
| `pipeline_output` | 1 peer with its output and the server, chunks 1 and 2 up to twice each, 2 slots, a chunk buffer of 1, 2 messages on their way, every kind of message, duplicates, garbled messages | `BuffersAgree`, `ListedIsHeldOrOld`, `NeverRewinds`, refinement of `OutputBuffer` |
| `pipeline_twice` | the same, from chunk 0, with offers only and no duplicates, 3 chunks, a chunk buffer of 3, 3 messages on their way | finds `WrittenOnce` violated |
| `lifecycle_plugins` | 3 plugins | `TypeOK`, `OneSetOfThreads`, `ThreadsHaveState`, `StopIsKept` |

Why the bounds are enough. Five slots give a flush room for a gap with chunks on
both sides, in each of its two loops; three slots with seven chunks lap twice,
so every slot is taken by two or three chunks and a cleanup runs with the position
before and behind the played chunk. The ring holds one chunk with its header
exactly (5 of 5), so the writer waits with every fill level, both pointers
wrap, and the put pointer passes the end; the stale preview size is inside the
array, behind it, and negative. For the threads one message decides
which mutexes the receive thread takes, a second one meets every state the first
one left, and a message that writes two chunks into a ring of one makes it wait
with `chunkBufferMutex` in hand. Two chunks and a buffer of one make a peer's
buffer forget what it accepted, two messages on their way let one overtake the
other and a third push one out, and a second peer offers what is not from the
server. In the pipeline two chunks and a chunk buffer of one let an old chunk
come back that the output was given before, and two messages on their way let a
copy of the first chunk stay behind until the next one has been played; with two
slots the chunks 1 and 2 lie on both sides of the end of the buffer. Three plugins meet with one set of
threads running, one open under way and one disposed of. For every larger
instance the invariants are proved (below); the bounds only matter for the
liveness properties.

Deadlock is not checked: the buffer's runs end with the stream, the ring's because
the process may have crashed, the threads' after `stopThreads`, the peers' when
the processes have died, the life cycle's in `dispose`.

What the violations show. Each is a comment of the source that the code does not
keep, quoted in `findings`. A chunk that a flush wrote is written a second time
when another copy comes, and the peer asks for that copy itself. Chunks of an
unbroken sequence stay in the buffer for good, although all have arrived. A chunk
whose slot is taken is lost although the call reports success. The put pointer
leaves the bytes it counts. A chunk that another peer accepted is dropped from the
list and not sent: peers of this program never upload.

Fairness. In `PluginRing` a thread that can run eventually does, and a timed wait
eventually ends (weak fairness of both threads' steps and timeouts); the player's
calls are not fair, as it may pause for good. `ReadReturns` needs no more;
`WriteReturns` assumes in its formula that the player goes on calling. In
`Threads` each thread's steps are weakly fair and the player's reading is not. A mutex
that others keep taking is continuously wanted but not continuously free, so
weak fairness does not give it to anyone in particular, and pthread mutexes do
not either: that the topology thread gets its turn against the send thread,
which never pauses, does not follow from the code and is not claimed.
`StopIsFollowed` and `CriticalSectionsEnd` assume in their formulas that the
receive thread is not for good before a full ring (`PlayerGoesOn`): a player that
pauses for good at such a time makes the whole peer stand still, and they say that
nothing else does. They hold because the number of messages
is bounded: messages cease at some point. While they keep coming, the receive
thread may take `chunkBufferMutex` over and over with the offer thread waiting.

In `OutputBuffer` every chunk arrives at some time (weak fairness of each
`Deliver`); without that `StreamGoesOn` would say nothing. In `Peers` the server
goes on making and offering chunks (weak fairness), and of what is sent again and
again, offers, accepts and chunks, some copy gets through (strong fairness of
their receipt): the program has no timer and no retry, so this is what it relies
on. Nothing is assumed of the peers' own offers. `peers_sent` assumes only that
the send thread runs.

## The proofs

`OutputBuffer_proofs`, for every `Size` > 0, every set of ids and, unless said
otherwise, every number of copies:

* `TypeCorrect`, `SlotsAreConsistent`, `MaximumIsTheNewest`: the invariants of
  `buffer_laps`. Types come first because a flush and a cleanup must be shown to
  stay within the slots; the maximum needs the slots' consistency, because
  `playedChunk`, against which old chunks are tested, may come out of a slot.
* `PlayedNeverRewinds`: while the ids lie within one buffer size, wherever the stream
  was joined (`OneWindow`). Beyond it a cleanup can set `playedChunk` back. Within it
  a cleanup frees only slots of chunks that are not older than the played one
  (`CleanupFreesNewer`), although it counts slots and not chunks, and may go around
  the end of the buffer.
* `WindowInvariant`, and from it `ChunksAccounted` and `ChunksWrittenOnce`: under
  `OneWindow` and with `MaxCopies = 1`. The slots of such a stream are as good as one
  per chunk (`OwnSlot`), so a chunk is not written while its slot holds it, no chunk
  finds its slot taken, and a flush writes each of its chunks once although it may go
  around (`FlushOnce`). That a chunk turned away as too old is accounted for
  needs `Skipped`: only the first chunk makes `playedChunk` pass over a missing one.
* `LapInvariant`, and from it `ChunksInOrder` and `BufferImplementsPlayout`: for ids
  of one lap, whichever lap it is (`OneLap`: all lie between the same two multiples
  of the size), and with `MaxCopies = 1`. Order alone is not inductive, since
  a flush writes behind `playedChunk`'s back. The strengthening `LapInv` says why this
  does no harm here: when the last chunk written (`Tip`) is ahead of `playedChunk`,
  the slot a flush would start from is empty for good (`LapTip`), because its chunk
  has arrived already and does not come twice; so nothing is written until the
  first chunk moves `playedChunk`.

The hypotheses are needed. `OneLap` implies `OneWindow` (`LapIsWindow`), and order holds
only under the stronger one: where a window goes around the end of the buffer, the
second loop of a flush starts at slot 0 whatever ended the first one, and passes over
the gap (with 5 slots and the chunks 3 to 7 TLC finds `InOrder` violated). With two
copies of a chunk, or with the constants of `buffer_laps`, it is violated too. In the
program the buffer has 200 slots: a peer satisfies `OneLap` from where it joins to
the next multiple of 200, and `OneWindow` for the 200 chunks from where it joins;
watched for longer, only the theorems of the first item hold.

`PluginRing_proofs`, for every ring, chunk and read length that
`RingSizes` and `ReadSizes` allow (a chunk with its header fits the ring) and any
number of chunks, and for any stale preview size:

* `RingTypeCorrect`: count and read pointer within their bounds. The
  inductive invariant adds that a call for the preview wants no more than the
  array holds (`PreviewBounded`), that a call under way still wants bytes
  (`CallState`) and that a writer under way has a chunk (`HasChunk`).
* `PreviewFits`: `PreviewStaysInside`. What a call for the preview has copied and
  still wants are together the size of the array, in every round, so what it
  returns is a size that fits; a read copies no further than that size.
* `PutDriftsByHeaders`: `PutAheadByHeaders`. Each pointer moves in two ways, on or around the end of the buffer;
  all of them keep `put` at `get + count + drift` up to a multiple of the ring's size.
  The invariant (`Aligned`) names the multiple, as it changes when a pointer goes
  around.
* `WakeupsNotLost`: `NoLostWakeup`. A thread that changes the count signals the
  other in the same critical section; both asleep would need a chunk that does
  not fit the empty ring.
* `RingImplementsChannel`: refinement of `ByteChannel`, step by step: a round of a read
  that copies is `Fetch` or, when it is the last, `Complete`; a call that timed out is
  `GiveUp`; `CopyIn` is `Put`. A round after a spurious wakeup copies nothing and must
  be a stutter. This needs that a call that is not over wants more bytes
  (`CallState`) and that a chunk is only copied when it fits with its header.

`Threads_proofs`, for every room in the ring, every number of chunks a message
writes into it, and every number of messages: `ThreadTypes`, `MutexesReleased`,
`NoDeadlock`, `NoDataRace`. The invariant is about what a thread still has to do
(`WorkIsLegal`): its operations, run from the mutexes it holds, take mutexes in
the order topology, chunk buffer, peer chunks, unlock only what is held, access
shared data only under its guard, and end with no mutex. `Runs` says this of a
sequence of operations by naming the mutexes held before each one, so that a run
behind a run is a run (`RunsBoth`) and the rest of a run is one (`RunsTail`), and
each handler and loop body is shown to be one. The four theorems are then
statements about the next operation: a circle of waiting threads would be an
ascending chain of four mutexes, and two conflicting accesses share a mutex, or
both are the same thread's.

`Peers_proofs`, for any peers, stream, buffer size and network, garbled messages and
foreign exchanges included: `PeerTypes`, `AcceptsInOrder`, `ListMatchesBuffer`,
`SwarmBroadcasts`. The invariant adds that buffers are finite and that accepts come
from peers. For the list the step that matters is a chunk that enters the buffer: what is pushed out
must have `Room` newer chunks among those that remain. Of the chunks above it
that have `Room` above themselves take one with the fewest; all above that one
stay (`NewestKeeps` in `ChunkIds_proofs`).

`SwarmBroadcasts` is the refinement of `Broadcast`: a chunk that is handled is `Get`, the
offer that chooses `firstChunk` is `Choose`, the server's next chunk is `Make`, and every
other step, also the loss of messages, is a stutter. It needs `Made`: whatever is held, on its way, or remembered on the stack
of a receive thread was made before, and chunks are made in order. That the
buffer keeps the newest is `NewestFit` (above the least of the newest are all the
others, so there are no more than `Room`) and `NewestDrop` (what is dropped is older
than all that stay, and as many stay as there is room for).

`Pipeline_proofs`, for any stream, sizes and network: `PipelineImplementsBuffer`, every
step of the pipeline is a step of the output or leaves it alone, because only the
offer handler sets `firstChunk`, once, and every chunk message carries one chunk of
the stream. So the theorems of `OutputBuffer_proofs` hold there; `PipelineNeverRewinds`,
`PipelineImplementsPlayout` and `PipelineAccounts` are three of them, under the
hypotheses these have. That no chunk comes twice is a hypothesis and not a fact about
the peer: `pipeline_twice` shows it asking for a second copy. The types of the output
are another, used by `BuffersStayInStep`: either both buffers get a chunk or neither
does. From it `ListMatchesBuffer` follows once more, for the list of the composed
peer: what is listed was given to the output, and what was given is in the chunk
buffer or too old.

`Lifecycle_proofs`, for any number of plugins: `LifecycleTypes`, `ThreadsRunOnce`,
`StopStays`, `ThreadsFindState`. The invariant says that the port is bound as soon
as an open is past that step, and that at most one plugin ever gets past it; the
threads' state follows from the order of the steps of `init`. `StopStays` says that
after `stopThreads` is set it stays set and no threads start, also when the old ones
have ended: it needs that whoever set it belongs to a plugin that is past the last
step of `init` (`StopAfterStart`), so that no other plugin gets there.

Only model-checked: liveness (`ReadReturns`, `WriteReturns`, `StopIsFollowed`,
`CriticalSectionsEnd`, `Reaches`), which is beyond the prover, and the violations.
Every safety property of a passing run is proved.

## Not modelled

* Secured data: `secured_data_enabled_chunk` and `secured_data_enabled_login`
  return 0, so the code behind them is not reached.
* `main` and the command line: a stand-alone program beside the plugin. It passes
  NULL for the plugin to `init`, which dereferences it, and `init` reads none of the
  options. `init` itself is part of `Lifecycle`.
* The rest of the xine glue, MRL parsing and class registration: constant answers
  and string handling without state.
* The GRAPES library is external: chunk buffer and message delivery are modelled
  from their use; the peer sampler is any set of neighbours; message coding is
  parsed or not.
* The contents of chunks: they matter to the output by their length and their first
  byte only. A read that takes bytes from preview and ring copies both to the start
  of the caller's buffer; the position counts preview bytes twice. Each is visible in
  one call and no other state depends on it, so they are listed as hazards without
  a property.
* What lies before the first slot of the output buffer, which a cleanup reads: no
  chunk, or the end of the process.
* The transaction ids of the handlers, a local variable that is read from the message
  and counted up for the answer; nothing compares them. The global one is only
  counted by the offer thread.
* The branch of `output_ffmpeg_buffer_free` for a missing chunk: no caller reaches it.
