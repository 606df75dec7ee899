------------------------------ MODULE PluginRing ------------------------------
(***************************************************************************)
(* The byte ring between the receive thread, which writes chunks into it   *)
(* (output_ffmpeg_write_chunk), and the xine engine, which reads from it   *)
(* (p2p_plugin_read and its callers), src/input_p2p.c.                     *)
(*                                                                         *)
(* Everything between the lock and the unlock of buffer_ring_mutex, or the *)
(* wait that releases it, is one action.  A wait ends by a signal, by its  *)
(* timeout (5 seconds for the reader, 2 for the writer) or spuriously, and *)
(* its thread then queues for the mutex.  Bytes are counted, not stored: a *)
(* pointer is its offset from the start of the buffer, and which bytes lie *)
(* behind it is not modelled.                                              *)
(***************************************************************************)
EXTENDS Integers, FiniteSetsExt

CONSTANTS
    Size,           \* BUFFER_SIZE, which is also buffer_max_size
    Sizes,          \* the sizes of chunks, headers included
    Offsets,        \* the lengths of their headers, one frame or several
    Reads,          \* the lengths xine asks for
    MaxPreview,     \* MAX_PREVIEW_SIZE
    StalePreview,   \* what malloc may leave in preview_size, or the negative
                    \* of it; {0} if it clears the structure
    MaxChunks,      \* bound: chunks handed to the writer
    MaxSpurious     \* bound: spurious wakeups

ASSUME RingSizes ==
    /\ Size \in Nat \ {0} /\ Sizes \subseteq 1 .. Size
    /\ Offsets \subseteq Nat \ {0}
    /\ \A size \in Sizes, header \in Offsets : header < size
ASSUME ReadSizes ==
    /\ Reads \subseteq Nat \ {0} /\ MaxPreview \in Nat \ {0}
    /\ StalePreview \subseteq Nat
ASSUME RingBounds == MaxChunks \in Nat /\ MaxSpurious \in Nat

VARIABLES
    get,          \* buffer_get_ptr
    put,          \* buffer_put_ptr
    count,        \* buffer_count
    rpc,          \* where the reader is
    call,         \* what xine called: read, read_block, get_optional_data
    want,         \* nlen: bytes the call still has to read
    fromPreview,  \* bytes of the call copied from the preview
    fromRing,     \* bytes of the call copied from the ring
    curpos, previewSize, previewDone,
    wpc,          \* where the writer is
    chunkSize,    \* size of the chunk it writes, c->size
    offset,       \* bytes of that skipped as header
    drift,        \* history: header bytes the put pointer moved over
    chunks,       \* history: chunks handed to the writer
    spurious,     \* history: spurious wakeups
    delivered,    \* history: ring bytes returned to xine
    discarded,    \* history: ring bytes thrown away by read_block
    crashed       \* a copy with a negative length, or behind an array

ring == <<get, put, count>>
preview == <<curpos, previewSize, previewDone>>
reader == <<rpc, call, want, fromPreview, fromRing, delivered, discarded>>
chunk == <<chunkSize, offset, drift>>
writer == <<wpc, chunk, chunks>>
vars == <<ring, preview, reader, writer, spurious, crashed>>

NoCall == "none"
Calls == {"read", "block", "preview"}

(* p2p_class_get_instance does not clear the structure it allocates. *)
Init ==
    /\ get = 0 /\ put = 0 /\ count = 0
    /\ rpc = "idle" /\ call = NoCall /\ want = 0
    /\ fromPreview = 0 /\ fromRing = 0
    /\ curpos = 0
    /\ previewSize \in StalePreview \cup {-n : n \in StalePreview}
    /\ previewDone \in IF StalePreview = {0} THEN {FALSE} ELSE BOOLEAN
    /\ wpc = "idle" /\ chunkSize = 0 /\ offset = 0 /\ drift = 0
    /\ chunks = 0 /\ spurious = 0
    /\ delivered = 0 /\ discarded = 0
    /\ crashed = FALSE

-----------------------------------------------------------------------------
(* pthread_cond_signal: a thread blocked in the wait has to get up; one    *)
(* whose wait has timed out is not affected.                               *)
NotSignalled(pc) == pc
SignalReader(pc) == IF pc = "waiting" THEN "woken" ELSE pc
SignalWriter(pc) == IF pc = "waiting" THEN "enter" ELSE pc

-----------------------------------------------------------------------------
(* The reader. *)

(* What a call does when p2p_plugin_read returns "copied" bytes, "short"   *)
(* of what was asked for: read_block throws a short block away, and the    *)
(* preview becomes what was copied.                                        *)
Return(what, copied, ringed, short) ==
    /\ IF what = "block" /\ short
       THEN discarded' = discarded + ringed /\ UNCHANGED delivered
       ELSE delivered' = delivered + ringed /\ UNCHANGED discarded
    /\ IF what = "preview"
       THEN previewSize' = copied /\ previewDone' = TRUE
       ELSE UNCHANGED <<previewSize, previewDone>>
    /\ rpc' = "idle" /\ call' = NoCall /\ want' = 0
    /\ fromPreview' = 0 /\ fromRing' = 0

(* p2p_plugin_read up to its loop: bytes of the preview go first.  They    *)
(* are counted in curpos here and again where the call returns.            *)
PreviewPart(len) ==
    IF curpos < previewSize THEN Min({previewSize - curpos, len}) ELSE 0
StillAsked(len) == len
StillToRead(len) == len - PreviewPart(len)

StartCall(what, len) ==
    /\ ~crashed
    /\ rpc = "idle"
    /\ IF StillToRead(len) > 0
       THEN /\ rpc' = "enter" /\ call' = what /\ want' = StillToRead(len)
            /\ fromPreview' = PreviewPart(len)
            /\ curpos' = curpos + PreviewPart(len)
            /\ UNCHANGED <<fromRing, previewSize, previewDone, delivered, discarded>>
       ELSE /\ curpos' = curpos + 2 * PreviewPart(len)
            /\ Return(what, PreviewPart(len), 0, FALSE)
    /\ UNCHANGED <<ring, writer, spurious, crashed>>

Read(len) == StartCall("read", len)
ReadBlock(len) == StartCall("block", len)

(* get_optional_data reads for the preview once.  Later calls only copy    *)
(* the preview to the caller, which changes nothing here.                  *)
GetPreview == ~previewDone /\ StartCall("preview", MaxPreview)

(* With a preview_size that no call has set, a read may copy from behind   *)
(* the preview, and get_optional_data more than the preview holds or a     *)
(* negative length.  The process may survive what is not negative.         *)
PreviewOverrun ==
    /\ ~crashed
    /\ rpc = "idle"
    /\ \/ \E len \in Reads \cup (IF previewDone THEN {} ELSE {MaxPreview}) :
              PreviewPart(len) > 0 /\ curpos + PreviewPart(len) > MaxPreview
       \/ previewDone /\ previewSize \notin 0 .. MaxPreview
    /\ crashed' = TRUE
    /\ UNCHANGED <<ring, preview, reader, writer, spurious>>

(* Nothing in the ring: wait. *)
ReaderSleeps ==
    /\ ~crashed
    /\ rpc = "enter" /\ count = 0
    /\ rpc' = "waiting"
    /\ UNCHANGED <<ring, preview, call, want, fromPreview, fromRing,
                   delivered, discarded, writer, spurious, crashed>>

(* What one round of the loop copies: no further than the end of the       *)
(* buffer.  The count is not tested again after a wait.                    *)
TakeToEnd == Min({count, Size - get})
Take == Min({want, count, Size - get})

CopyOut ==
    /\ ~crashed
    /\ rpc = "woken" \/ (rpc = "enter" /\ count > 0)
    /\ get' = IF get + Take >= Size THEN 0 ELSE get + Take
    /\ count' = count - Take
    /\ wpc' = SignalWriter(wpc)
    /\ IF want - Take > 0
       THEN /\ rpc' = "enter" /\ want' = want - Take /\ fromRing' = fromRing + Take
            /\ UNCHANGED <<preview, call, fromPreview, delivered, discarded>>
       ELSE /\ curpos' = curpos + fromPreview + fromRing + Take
            /\ Return(call, fromPreview + fromRing + Take, fromRing + Take, FALSE)
    /\ UNCHANGED <<put, chunk, chunks, spurious, crashed>>

(* The wait timed out; the thread has to get the mutex before it returns.  *)
TimeoutRetries == "enter"
TimeoutReturns == "timedout"

ReaderTimeout ==
    /\ ~crashed
    /\ rpc = "waiting"
    /\ rpc' = TimeoutReturns
    /\ UNCHANGED <<ring, preview, call, want, fromPreview, fromRing,
                   delivered, discarded, writer, spurious, crashed>>

(* "return copied" does not pass the update of curpos, and does not look   *)
(* at the ring again.                                                      *)
ReturnTimedOut ==
    /\ ~crashed
    /\ rpc = "timedout"
    /\ Return(call, fromPreview + fromRing, fromRing, TRUE)
    /\ UNCHANGED <<ring, curpos, writer, spurious, crashed>>

-----------------------------------------------------------------------------
(* The writer, output_ffmpeg_write_chunk. *)

(* The header's length depends on the number of frames in the chunk. *)
WriteChunk(size, header) ==
    /\ ~crashed
    /\ wpc = "idle"
    /\ chunks < MaxChunks
    /\ chunks' = chunks + 1
    /\ wpc' = "enter"
    /\ chunkSize' = size /\ offset' = header
    /\ UNCHANGED <<ring, preview, reader, drift, spurious, crashed>>

(* A chunk that starts with 0 is turned away before the lock is taken. *)
StrangeChunk ==
    /\ ~crashed
    /\ wpc = "idle"
    /\ chunks < MaxChunks
    /\ chunks' = chunks + 1
    /\ UNCHANGED <<ring, preview, reader, wpc, chunk, spurious, crashed>>

(* For a chunk that starts with 127 or more the length of the header is    *)
(* not set.  It is what the stack holds, say that of an earlier chunk      *)
(* (WriteChunk), or the process dies of it.                                *)
HeaderUnset ==
    /\ ~crashed
    /\ wpc = "idle"
    /\ chunks < MaxChunks
    /\ crashed' = TRUE
    /\ UNCHANGED <<ring, preview, reader, writer, spurious>>

(* The whole chunk has to fit, header included. *)
FitsStrictly(size) == Size - count > size
FitsAtAll(size) == Size - count > 0
Fits(size) == Size - count >= size

WriterSleeps ==
    /\ ~crashed
    /\ wpc = "enter" /\ ~Fits(chunkSize)
    /\ wpc' = "waiting"
    /\ UNCHANGED <<ring, preview, reader, chunk, chunks, spurious, crashed>>

WriterTimeout ==
    /\ ~crashed
    /\ wpc = "waiting"
    /\ wpc' = "enter"
    /\ UNCHANGED <<ring, preview, reader, chunk, chunks, spurious, crashed>>

(* Only the payload is copied, in two pieces if it reaches the end of the  *)
(* buffer.  In one piece the pointer moves by the size of the whole chunk. *)
Payload == chunkSize - offset
ToEnd == Size - put
CountWithHeader == count + chunkSize
CountWritten == count + Payload

CopyIn ==
    /\ ~crashed
    /\ wpc = "enter" /\ Fits(chunkSize)
    /\ ToEnd >= 0
    /\ IF ToEnd >= Payload
       THEN put' = put + chunkSize /\ drift' = drift + offset
       ELSE put' = Payload - ToEnd /\ UNCHANGED drift
    /\ count' = CountWritten
    /\ rpc' = SignalReader(rpc)
    /\ wpc' = "idle" /\ chunkSize' = 0 /\ offset' = 0
    /\ UNCHANGED <<get, preview, call, want, fromPreview, fromRing, delivered,
                   discarded, chunks, spurious, crashed>>

(* The pointer lies behind the buffer: the first piece has a negative      *)
(* length.                                                                 *)
CopyBehindEnd ==
    /\ ~crashed
    /\ wpc = "enter" /\ Fits(chunkSize)
    /\ ToEnd < 0
    /\ crashed' = TRUE
    /\ UNCHANGED <<ring, preview, reader, writer, spurious>>

-----------------------------------------------------------------------------
(* A condition variable may wake its waiter for no reason. *)
SpuriousWakeup ==
    /\ ~crashed
    /\ spurious < MaxSpurious
    /\ spurious' = spurious + 1
    /\ \/ rpc = "waiting" /\ rpc' = "woken" /\ UNCHANGED wpc
       \/ wpc = "waiting" /\ wpc' = "enter" /\ UNCHANGED rpc
    /\ UNCHANGED <<ring, preview, call, want, fromPreview, fromRing, delivered,
                   discarded, chunk, chunks, crashed>>

ReaderStep == ReaderSleeps \/ CopyOut \/ ReturnTimedOut
WriterStep == WriterSleeps \/ CopyIn \/ CopyBehindEnd
Player == (\E len \in Reads : Read(len) \/ ReadBlock(len)) \/ GetPreview

Next ==
    \/ Player \/ PreviewOverrun \/ ReaderStep \/ ReaderTimeout
    \/ \E size \in Sizes, header \in Offsets : WriteChunk(size, header)
    \/ StrangeChunk \/ HeaderUnset
    \/ WriterStep \/ WriterTimeout
    \/ SpuriousWakeup

Spec == Init /\ [][Next]_vars

(* The scheduler runs a thread that can run, and a timed wait ends.        *)
Progress ==
    /\ WF_vars(ReaderStep) /\ WF_vars(ReaderTimeout)
    /\ WF_vars(WriterStep) /\ WF_vars(WriterTimeout)

(* No assumption on the player: it may stop reading for good. *)
FairSpec == Spec /\ Progress

-----------------------------------------------------------------------------
(* Counters stay within the ring and the read pointer within the buffer.   *)
TypeOK ==
    /\ get \in 0 .. Size - 1 /\ put \in Nat /\ count \in 0 .. Size
    /\ rpc \in {"idle", "enter", "waiting", "woken", "timedout"}
    /\ call \in Calls \cup {NoCall}
    /\ want \in Nat /\ fromPreview \in Nat /\ fromRing \in Nat
    /\ curpos \in Nat /\ previewSize \in Int /\ previewDone \in BOOLEAN
    /\ wpc \in {"idle", "enter", "waiting"}
    /\ chunkSize \in Sizes \cup {0} /\ offset \in Offsets \cup {0} /\ drift \in Nat
    /\ chunks \in 0 .. MaxChunks /\ spurious \in 0 .. MaxSpurious
    /\ delivered \in Nat /\ discarded \in Nat
    /\ crashed \in BOOLEAN

(* Two threads move the pointers and the count, in pieces, around the end  *)
(* of the buffer and across waits that end in any way; still the put       *)
(* pointer is ahead of the counted bytes by exactly the headers it moved   *)
(* over (write_chunk moves it by c->size, output_ffmpeg.c:639).  So the    *)
(* reader is behind what was written by that much, and by nothing else.    *)
PutAheadByHeaders == (put - get - count - drift) % Size = 0

(* The preview's copies end behind its array only because of what malloc   *)
(* left in preview_size (input_p2p.c:360): over the rounds, timeouts and   *)
(* wakeups of its read, get_optional_data gives it a size that fits, and   *)
(* with such a size no later read runs behind the array.                   *)
PreviewStaysInside ==
    [][ /\ previewSize' # previewSize => previewSize' \in 0 .. MaxPreview
        /\ PreviewOverrun => previewSize \notin 0 .. MaxPreview ]_vars

(* The ring with its two threads, timeouts and spurious wakeups does what  *)
(* module ByteChannel promises the player about amounts of bytes:          *)
(* output_ffmpeg_write_chunk puts whole payloads, each round of            *)
(* p2p_plugin_read fetches, and only a read_block that times out           *)
(* (p2p_plugin_read_block) throws away what it fetched.                    *)
Channel == INSTANCE ByteChannel WITH
    Capacity <- Size,
    queued <- count,
    call <- CASE call = NoCall -> "none" [] call = "block" -> "all" [] OTHER -> "any",
    need <- want,
    fetched <- fromRing,
    given <- delivered,
    lost <- discarded
ImplementsChannel == Channel!Spec

(* Nobody sleeps through what it waits for: a blocked reader has an empty  *)
(* ring and a blocked writer has no room, in spite of timeouts that race   *)
(* with signals; so the two are never both asleep.                         *)
NoLostWakeup ==
    /\ rpc = "waiting" => count = 0
    /\ wpc = "waiting" => ~Fits(chunkSize)
    /\ ~(rpc = "waiting" /\ wpc = "waiting")

(* Every call of the player returns, with data or by the timeout, even if  *)
(* no chunk ever comes: xine is never stuck in the plugin.                 *)
ReadReturns == rpc # "idle" ~> rpc = "idle" \/ crashed

(* The receive thread gets out of write_chunk if the player keeps reading  *)
(* from the ring, even with a chunk as large as the ring.                  *)
WriteReturns ==
    []<>(rpc # "idle") => (wpc # "idle" ~> wpc = "idle" \/ crashed)

-----------------------------------------------------------------------------
(* What comments of the sources say and the code does not do. *)

(* "circular buffer" with a "put pointer used by the writer" (input_p2p.h: *)
(* 41, 43): the bytes in the ring lie between the two pointers.            *)
PutBehindCount == (get + count) % Size = put % Size
===============================================================================
