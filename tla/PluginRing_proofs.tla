-------------------------- MODULE PluginRing_proofs ---------------------------
(***************************************************************************)
(* Theorems about module PluginRing for every size of the ring, every set  *)
(* of chunk, header and read lengths, any number of chunks and whatever    *)
(* malloc leaves in the preview's size.                                    *)
(***************************************************************************)
EXTENDS PluginRing, TLAPS

(* Why the preview fits its array: a call for the preview reads no more    *)
(* than its size.                                                          *)
PreviewBounded == call = "preview" => fromPreview + fromRing + want = MaxPreview

(* The reader is in a call, which wants more bytes, or in none. *)
CallState ==
    /\ rpc = "idle" <=> call = NoCall
    /\ rpc = "idle" => want = 0 /\ fromPreview = 0 /\ fromRing = 0
    /\ rpc # "idle" => want > 0

(* A writer that is under way has a chunk. *)
HasChunk == wpc # "idle" => chunkSize \in Sizes /\ offset \in Offsets

RingInv == TypeOK /\ CallState /\ PreviewBounded /\ HasChunk

-----------------------------------------------------------------------------
(* The least of two integers. *)
LEMMA MinOfTwo ==
    ASSUME NEW a \in Int, NEW b \in Int
    PROVE  Min({a, b}) \in {a, b} /\ Min({a, b}) <= a /\ Min({a, b}) <= b
<1>1. \E x \in {a, b} : \A y \in {a, b} : x =< y
  OBVIOUS
<1>2. Min({a, b}) \in {a, b} /\ \A y \in {a, b} : Min({a, b}) =< y
  BY <1>1 DEF Min
<1> QED BY <1>2

(* The least of three integers. *)
LEMMA MinOfThree ==
    ASSUME NEW a \in Int, NEW b \in Int, NEW c \in Int
    PROVE  /\ Min({a, b, c}) \in {a, b, c}
           /\ Min({a, b, c}) <= a /\ Min({a, b, c}) <= b /\ Min({a, b, c}) <= c
<1>1. \E x \in {a, b, c} : \A y \in {a, b, c} : x =< y
  OBVIOUS
<1>2. Min({a, b, c}) \in {a, b, c} /\ \A y \in {a, b, c} : Min({a, b, c}) =< y
  BY <1>1 DEF Min
<1> QED BY <1>2

(* A round of the reader takes no more than it wants, than there is, and   *)
(* than lies before the end of the buffer.                                 *)
LEMMA TakeFacts ==
    ASSUME TypeOK
    PROVE  Take \in Nat /\ Take <= want /\ Take <= count /\ Take <= Size - get
<1>1. want \in Int /\ count \in Int /\ Size - get \in Int
  BY RingSizes DEF TypeOK
<1>2. /\ Take \in {want, count, Size - get}
      /\ Take <= want /\ Take <= count /\ Take <= Size - get
  BY <1>1, MinOfThree DEF Take
<1> QED BY <1>2, RingSizes DEF TypeOK

(* A call takes no more from the preview than it was asked for, and no     *)
(* more than preview_size says is left.                                    *)
LEMMA PreviewPartFacts ==
    ASSUME TypeOK, NEW len \in Nat
    PROVE  /\ PreviewPart(len) \in Nat /\ PreviewPart(len) <= len
           /\ PreviewPart(len) > 0 => curpos + PreviewPart(len) <= previewSize
<1>t. curpos \in Nat /\ previewSize \in Int
  BY DEF TypeOK
<1>1. CASE curpos < previewSize
  <2>1. previewSize - curpos \in Nat
    BY <1>t, <1>1
  <2>a. PreviewPart(len) = Min({previewSize - curpos, len})
    BY <1>1 DEF PreviewPart
  <2> DEFINE left == previewSize - curpos
  <2>b. /\ Min({left, len}) \in {left, len}
        /\ Min({left, len}) <= left /\ Min({left, len}) <= len
    <3>1. left \in Int /\ len \in Int
      BY <2>1
    <3> HIDE DEF left
    <3> QED BY <3>1, MinOfTwo
  <2>2. /\ PreviewPart(len) \in {previewSize - curpos, len}
        /\ PreviewPart(len) <= previewSize - curpos /\ PreviewPart(len) <= len
    BY <2>a, <2>b
  <2> QED BY <1>t, <2>1, <2>2
<1>2. CASE ~(curpos < previewSize)
  BY <1>2 DEF PreviewPart
<1> QED BY <1>1, <1>2

(* The lengths of a chunk: what is copied is positive and fits with the    *)
(* header.                                                                 *)
LEMMA ChunkFacts ==
    ASSUME HasChunk, wpc # "idle"
    PROVE  /\ chunkSize \in Nat /\ offset \in Nat /\ Payload \in Nat
           /\ 0 < offset /\ 0 < Payload /\ Payload + offset = chunkSize
           /\ chunkSize <= Size
<1>1. chunkSize \in Sizes /\ offset \in Offsets
  BY DEF HasChunk
<1>2. /\ chunkSize \in 1 .. Size /\ offset \in Nat \ {0} /\ offset < chunkSize
      /\ Size \in Nat
  BY <1>1, RingSizes
<1> QED BY <1>2 DEF Payload

(* What the player calls is a call of StartCall. *)
LEMMA PlayerCalls ==
    ASSUME Player
    PROVE  \E what \in Calls, len \in Nat :
              StartCall(what, len) /\ (what = "preview" => len = MaxPreview)
<1>1. ASSUME NEW len \in Reads, Read(len) \/ ReadBlock(len)
      PROVE  \E what \in Calls : StartCall(what, len) /\ what # "preview"
  BY <1>1 DEF Read, ReadBlock, Calls
<1>2. ASSUME GetPreview PROVE StartCall("preview", MaxPreview)
  BY <1>2 DEF GetPreview
<1> QED BY <1>1, <1>2, ReadSizes DEF Player, Calls

(* A call that returns ends the reader's call, keeps the types, and sets   *)
(* no preview size that does not fit.                                      *)
PreviewKept == previewSize' = previewSize \/ previewSize' \in 0 .. MaxPreview

LEMMA ReturnFacts ==
    ASSUME TypeOK, NEW what, NEW copied \in Nat, NEW ringed \in Nat, NEW short,
           Return(what, copied, ringed, short),
           what = "preview" => copied <= MaxPreview
    PROVE  /\ delivered' \in Nat /\ discarded' \in Nat
           /\ previewSize' \in Int /\ previewDone' \in BOOLEAN
           /\ PreviewKept
           /\ rpc' = "idle" /\ call' = NoCall /\ want' = 0
           /\ fromPreview' = 0 /\ fromRing' = 0
<1>1. delivered' \in Nat /\ discarded' \in Nat
  BY DEF Return, TypeOK
<1>2. PreviewKept /\ previewSize' \in Int
  BY ReadSizes DEF Return, TypeOK, PreviewKept
<1>3. previewDone' \in BOOLEAN
  BY Zenon DEF Return, TypeOK
<1>4. /\ rpc' = "idle" /\ call' = NoCall /\ want' = 0
      /\ fromPreview' = 0 /\ fromRing' = 0
  BY DEF Return
<1> QED BY <1>1, <1>2, <1>3, <1>4

(* A reader in no call meets its part of the invariant. *)
LEMMA IdleCall ==
    ASSUME rpc' = "idle", call' = NoCall, want' = 0, fromPreview' = 0, fromRing' = 0
    PROVE  CallState' /\ PreviewBounded'
BY DEF CallState, PreviewBounded, NoCall

-----------------------------------------------------------------------------
(* The steps of the two threads keep the invariant. *)

(* The first critical section of a call. *)
LEMMA StartKeepsInv ==
    ASSUME RingInv, NEW what \in Calls, NEW len \in Nat, StartCall(what, len),
           what = "preview" => len = MaxPreview
    PROVE  RingInv' /\ PreviewKept
<1> DEFINE n == PreviewPart(len)
<1>1. n \in Nat /\ n <= len
  BY PreviewPartFacts DEF RingInv
<1>2. StillToRead(len) = len - n
  BY DEF StillToRead
<1> HIDE DEF n
<1>3. /\ rpc = "idle"
      /\ UNCHANGED <<get, put, count, wpc, chunkSize, offset, drift, chunks, spurious, crashed>>
  BY DEF StartCall, ring, writer, chunk
<1>4. fromRing = 0 /\ HasChunk'
  BY <1>3 DEF RingInv, CallState, HasChunk
<1>5. CASE len - n > 0
  <2>1. /\ rpc' = "enter" /\ call' = what /\ want' = len - n
        /\ fromPreview' = n /\ curpos' = curpos + n /\ fromRing' = 0
        /\ UNCHANGED <<previewSize, previewDone, delivered, discarded>>
    BY <1>2, <1>4, <1>5 DEF StartCall, n
  <2>2. TypeOK'
    BY <1>1, <1>3, <2>1 DEF RingInv, TypeOK
  <2>3. CallState'
    BY <1>5, <2>1 DEF CallState, Calls, NoCall
  <2>4. PreviewBounded'
    BY <1>1, <2>1 DEF PreviewBounded
  <2> QED BY <1>4, <2>1, <2>2, <2>3, <2>4 DEF RingInv, PreviewKept
<1>6. CASE ~(len - n > 0)
  <2>1. curpos' = curpos + 2 * n /\ Return(what, n, 0, FALSE)
    BY <1>2, <1>6 DEF StartCall, n
  <2>2. what = "preview" => n <= MaxPreview
    BY <1>1
  <2>3. /\ delivered' \in Nat /\ discarded' \in Nat
        /\ previewSize' \in Int /\ previewDone' \in BOOLEAN /\ PreviewKept
        /\ rpc' = "idle" /\ call' = NoCall /\ want' = 0
        /\ fromPreview' = 0 /\ fromRing' = 0
    BY <1>1, <2>1, <2>2, ReturnFacts DEF RingInv
  <2>4. TypeOK'
    BY <1>1, <1>3, <2>1, <2>3 DEF RingInv, TypeOK
  <2> QED BY <1>4, <2>3, <2>4, IdleCall DEF RingInv
<1> QED BY <1>5, <1>6

(* A round of the copy loop of p2p_plugin_read. *)
LEMMA CopyOutKeepsInv ==
    ASSUME RingInv, CopyOut
    PROVE  RingInv' /\ PreviewKept
<1> DEFINE n == Take
<1>1. n \in Nat /\ n <= want /\ n <= count /\ n <= Size - get
  BY TakeFacts DEF RingInv
<1>2. /\ get' = IF get + n >= Size THEN 0 ELSE get + n
      /\ count' = count - n
      /\ wpc' = SignalWriter(wpc)
      /\ rpc # "idle"
      /\ UNCHANGED <<put, chunkSize, offset, drift, chunks, spurious, crashed>>
  BY DEF CopyOut, chunk
<1>3. \/ /\ want - n > 0
         /\ rpc' = "enter" /\ want' = want - n /\ fromRing' = fromRing + n
         /\ UNCHANGED <<curpos, previewSize, previewDone, call, fromPreview,
                        delivered, discarded>>
      \/ /\ ~(want - n > 0)
         /\ curpos' = curpos + fromPreview + fromRing + n
         /\ Return(call, fromPreview + fromRing + n, fromRing + n, FALSE)
  BY DEF CopyOut, preview
<1> HIDE DEF n
<1>4. get' \in 0 .. Size - 1 /\ count' \in 0 .. Size
  BY <1>1, <1>2, RingSizes DEF RingInv, TypeOK
<1>5. wpc' \in {"idle", "enter", "waiting"} /\ HasChunk'
  BY <1>2 DEF SignalWriter, RingInv, TypeOK, HasChunk
<1>6. /\ want \in Nat /\ fromRing \in Nat /\ fromPreview \in Nat /\ curpos \in Nat
      /\ call = "preview" => fromPreview + fromRing + want = MaxPreview
  BY DEF RingInv, TypeOK, PreviewBounded
<1>7. CASE want - n > 0
  <2>1. /\ rpc' = "enter" /\ want' = want - n /\ fromRing' = fromRing + n
        /\ UNCHANGED <<curpos, previewSize, previewDone, call, fromPreview,
                       delivered, discarded>>
    BY <1>3, <1>7
  <2>2. want' \in Nat /\ fromRing' \in Nat
    BY <1>1, <1>6, <2>1
  <2>3. TypeOK'
    BY <1>2, <1>4, <1>5, <2>1, <2>2 DEF RingInv, TypeOK
  <2>4. CallState'
    BY <1>2, <1>7, <2>1 DEF RingInv, CallState
  <2>5. PreviewBounded'
    BY <1>1, <1>6, <2>1 DEF PreviewBounded
  <2> QED BY <1>5, <2>1, <2>3, <2>4, <2>5 DEF RingInv, PreviewKept
<1>8. CASE ~(want - n > 0)
  <2>1. /\ curpos' = curpos + fromPreview + fromRing + n
        /\ Return(call, fromPreview + fromRing + n, fromRing + n, FALSE)
    BY <1>3, <1>8
  <2>2. fromPreview + fromRing + n \in Nat /\ fromRing + n \in Nat /\ curpos' \in Nat
    BY <1>1, <1>6, <2>1
  <2>3. call = "preview" => fromPreview + fromRing + n <= MaxPreview
    BY <1>1, <1>6
  <2>4. /\ delivered' \in Nat /\ discarded' \in Nat
        /\ previewSize' \in Int /\ previewDone' \in BOOLEAN /\ PreviewKept
        /\ rpc' = "idle" /\ call' = NoCall /\ want' = 0
        /\ fromPreview' = 0 /\ fromRing' = 0
    <3>1. TypeOK
      BY DEF RingInv
    <3> QED BY <2>1, <2>2, <2>3, <3>1, ReturnFacts, Zenon
  <2>5. TypeOK'
    BY <1>2, <1>4, <1>5, <2>2, <2>4 DEF RingInv, TypeOK
  <2> QED BY <1>5, <2>4, <2>5, IdleCall DEF RingInv
<1> QED BY <1>7, <1>8

(* The reader's sleep, its timeout and the return behind it. *)
LEMMA ReaderKeepsInv ==
    ASSUME RingInv, ReaderSleeps \/ ReaderTimeout \/ ReturnTimedOut
    PROVE  RingInv' /\ PreviewKept
<1>1. CASE ReaderSleeps
  BY <1>1 DEF ReaderSleeps, RingInv, TypeOK, CallState, PreviewBounded, HasChunk,
              PreviewKept, ring, preview, writer, chunk
<1>2. CASE ReaderTimeout
  BY <1>2 DEF ReaderTimeout, TimeoutReturns, RingInv, TypeOK, CallState,
              PreviewBounded, HasChunk, PreviewKept, ring, preview, writer, chunk
<1>3. CASE ReturnTimedOut
  <2>1. /\ Return(call, fromPreview + fromRing, fromRing, TRUE)
        /\ UNCHANGED <<get, put, count, curpos, wpc, chunkSize, offset, drift,
                       chunks, spurious, crashed>>
    BY <1>3 DEF ReturnTimedOut, ring, writer, chunk
  <2>2. fromPreview \in Nat /\ fromRing \in Nat /\ want \in Nat
    BY DEF RingInv, TypeOK
  <2>3. fromPreview + fromRing \in Nat
    BY <2>2
  <2>4. call = "preview" => fromPreview + fromRing <= MaxPreview
    BY <2>2 DEF RingInv, PreviewBounded
  <2>5. /\ delivered' \in Nat /\ discarded' \in Nat
        /\ previewSize' \in Int /\ previewDone' \in BOOLEAN /\ PreviewKept
        /\ rpc' = "idle" /\ call' = NoCall /\ want' = 0
        /\ fromPreview' = 0 /\ fromRing' = 0
    <3>1. TypeOK
      BY DEF RingInv
    <3> QED BY <2>1, <2>2, <2>3, <2>4, <3>1, ReturnFacts, Zenon
  <2>6. TypeOK'
    BY <2>1, <2>5 DEF RingInv, TypeOK
  <2>7. HasChunk'
    BY <2>1 DEF RingInv, HasChunk
  <2> QED BY <2>5, <2>6, <2>7, IdleCall DEF RingInv
<1> QED BY <1>1, <1>2, <1>3

(* A chunk is handed to output_ffmpeg_write_chunk. *)
LEMMA ChunkKeepsInv ==
    ASSUME RingInv,
           \/ \E size \in Sizes, header \in Offsets : WriteChunk(size, header)
           \/ StrangeChunk \/ HeaderUnset
    PROVE  RingInv' /\ PreviewKept
<1>1. ASSUME NEW size \in Sizes, NEW header \in Offsets, WriteChunk(size, header)
      PROVE  RingInv' /\ PreviewKept
  BY <1>1, RingBounds DEF WriteChunk, RingInv, TypeOK, CallState, PreviewBounded,
                          HasChunk, PreviewKept, ring, preview, reader
<1>2. CASE StrangeChunk
  BY <1>2, RingBounds DEF StrangeChunk, RingInv, TypeOK, CallState, PreviewBounded,
                          HasChunk, PreviewKept, ring, preview, reader, chunk
<1>3. CASE HeaderUnset
  BY <1>3 DEF HeaderUnset, RingInv, TypeOK, CallState, PreviewBounded, HasChunk,
              PreviewKept, ring, preview, reader, writer, chunk
<1> QED BY <1>1, <1>2, <1>3

(* The writer waits, copies, or dies. *)
LEMMA WriterKeepsInv ==
    ASSUME RingInv, WriterStep \/ WriterTimeout
    PROVE  RingInv' /\ PreviewKept
<1>1. CASE WriterSleeps \/ WriterTimeout
  BY <1>1 DEF WriterSleeps, WriterTimeout, RingInv, TypeOK, CallState, PreviewBounded,
              HasChunk, PreviewKept, ring, preview, reader, chunk
<1>2. CASE CopyIn
  <2>1. /\ chunkSize \in Nat /\ offset \in Nat /\ Payload \in Nat
        /\ Payload + offset = chunkSize
    BY <1>2, ChunkFacts DEF CopyIn, RingInv
  <2>2. /\ Size - count >= chunkSize /\ count' = count + Payload
        /\ \/ put' = put + chunkSize /\ drift' = drift + offset
           \/ ~(ToEnd >= Payload) /\ put' = Payload - ToEnd /\ drift' = drift
        /\ wpc' = "idle" /\ chunkSize' = 0 /\ offset' = 0
        /\ UNCHANGED <<get, curpos, previewSize, previewDone, call, want, fromPreview,
                       fromRing, delivered, discarded, chunks, spurious, crashed>>
    BY <1>2 DEF CopyIn, Fits, CountWritten, preview
  <2>3. put' \in Nat /\ count' \in 0 .. Size /\ drift' \in Nat
    BY <2>1, <2>2, RingSizes DEF RingInv, TypeOK, ToEnd
  <2>4. rpc' \in {"idle", "enter", "waiting", "woken", "timedout"}
        /\ (rpc' = "idle" <=> rpc = "idle")
    BY <1>2 DEF CopyIn, SignalReader, RingInv, TypeOK
  <2>5. TypeOK'
    BY <2>2, <2>3, <2>4 DEF RingInv, TypeOK
  <2> QED BY <2>2, <2>4, <2>5 DEF RingInv, CallState, PreviewBounded, HasChunk,
                                  PreviewKept
<1>3. CASE CopyBehindEnd
  BY <1>3 DEF CopyBehindEnd, RingInv, TypeOK, CallState, PreviewBounded, HasChunk,
              PreviewKept, ring, preview, reader, writer, chunk
<1> QED BY <1>1, <1>2, <1>3 DEF WriterStep

(* RingInv is inductive, and no step sets a preview size that does not fit. *)
LEMMA InvStep == RingInv /\ [Next]_vars => RingInv' /\ PreviewKept
<1> SUFFICES ASSUME RingInv, [Next]_vars PROVE RingInv' /\ PreviewKept
  OBVIOUS
<1>1. CASE Player
  BY <1>1, PlayerCalls, StartKeepsInv
<1>2. CASE ReaderStep \/ ReaderTimeout
  BY <1>2, CopyOutKeepsInv, ReaderKeepsInv DEF ReaderStep
<1>3. CASE \/ \E size \in Sizes, header \in Offsets : WriteChunk(size, header)
           \/ StrangeChunk \/ HeaderUnset
  BY <1>3, ChunkKeepsInv
<1>4. CASE WriterStep \/ WriterTimeout
  BY <1>4, WriterKeepsInv
<1>5. CASE SpuriousWakeup
  BY <1>5, RingBounds DEF SpuriousWakeup, RingInv, TypeOK, CallState, PreviewBounded,
                          HasChunk, PreviewKept, ring, preview, chunk
<1>6. CASE PreviewOverrun
  BY <1>6 DEF PreviewOverrun, RingInv, TypeOK, CallState, PreviewBounded, HasChunk,
              PreviewKept, ring, preview, reader, writer, chunk
<1>7. CASE UNCHANGED vars
  BY <1>7 DEF vars, RingInv, TypeOK, CallState, PreviewBounded, HasChunk, PreviewKept,
              ring, preview, reader, writer, chunk
<1> QED BY <1>1, <1>2, <1>3, <1>4, <1>5, <1>6, <1>7 DEF Next

(* RingInv holds of what p2p_class_get_instance allocates. *)
LEMMA InvInit == Init => RingInv
<1> SUFFICES ASSUME Init PROVE RingInv
  OBVIOUS
<1>1. previewSize \in Int
  <2>1. \A n \in StalePreview : n \in Int /\ -n \in Int
    BY ReadSizes
  <2> QED BY <2>1 DEF Init
<1>2. previewDone \in BOOLEAN
  BY Zenon DEF Init
<1>3. /\ get = 0 /\ put = 0 /\ count = 0 /\ rpc = "idle" /\ call = NoCall
      /\ want = 0 /\ fromPreview = 0 /\ fromRing = 0 /\ curpos = 0
      /\ wpc = "idle" /\ chunkSize = 0 /\ offset = 0 /\ drift = 0
      /\ chunks = 0 /\ spurious = 0
      /\ delivered = 0 /\ discarded = 0 /\ crashed = FALSE
  BY DEF Init
<1>4. /\ get \in 0 .. Size - 1 /\ put \in Nat /\ count \in 0 .. Size
      /\ want \in Nat /\ fromPreview \in Nat /\ fromRing \in Nat /\ curpos \in Nat
      /\ chunkSize \in Sizes \cup {0} /\ offset \in Offsets \cup {0}
      /\ drift \in Nat /\ chunks \in 0 .. MaxChunks
      /\ spurious \in 0 .. MaxSpurious
      /\ delivered \in Nat /\ discarded \in Nat
  BY <1>3, RingSizes, RingBounds
<1>5. TypeOK
  BY <1>1, <1>2, <1>3, <1>4, Zenon DEF TypeOK
<1>6. CallState /\ PreviewBounded /\ HasChunk
  BY <1>3 DEF CallState, PreviewBounded, HasChunk, NoCall
<1> QED BY <1>5, <1>6 DEF RingInv

(* RingInv holds of every behaviour. *)
LEMMA AlwaysInv == Spec => []RingInv
BY InvInit, InvStep, PTL DEF Spec

(* The counters stay within the ring and the read pointer within the       *)
(* buffer, whatever chunks and calls come.  The put pointer and the size   *)
(* of the preview have no such bounds.                                     *)
THEOREM RingTypeCorrect == Spec => []TypeOK
<1>1. RingInv => TypeOK
  BY DEF RingInv
<1> QED BY <1>1, AlwaysInv, PTL

-----------------------------------------------------------------------------
(* The preview. *)

(* Whatever malloc left in preview_size, the size that get_optional_data   *)
(* sets fits the array, though its bytes come in rounds that may time out, *)
(* and a size that fits lets no read copy from behind the array.           *)
THEOREM PreviewFits == Spec => PreviewStaysInside
<1>1. ASSUME RingInv, PreviewOverrun PROVE previewSize \notin 0 .. MaxPreview
  <2>1. CASE previewDone /\ previewSize \notin 0 .. MaxPreview
    BY <2>1
  <2>2. ASSUME NEW len \in Reads \cup {MaxPreview},
               PreviewPart(len) > 0, curpos + PreviewPart(len) > MaxPreview
        PROVE  previewSize \notin 0 .. MaxPreview
    <3>1. len \in Nat /\ MaxPreview \in Nat
      BY ReadSizes
    <3>2. PreviewPart(len) \in Nat /\ curpos + PreviewPart(len) <= previewSize
      BY <1>1, <2>2, <3>1, PreviewPartFacts DEF RingInv
    <3>3. curpos \in Nat /\ previewSize \in Int
      BY <1>1 DEF RingInv, TypeOK
    <3> QED BY <2>2, <3>1, <3>2, <3>3
  <2> QED BY <1>1, <2>1, <2>2 DEF PreviewOverrun
<1>2. RingInv /\ [Next]_vars =>
        [ /\ previewSize' # previewSize => previewSize' \in 0 .. MaxPreview
          /\ PreviewOverrun => previewSize \notin 0 .. MaxPreview ]_vars
  BY <1>1, InvStep DEF PreviewKept
<1> QED BY <1>2, AlwaysInv, PTL DEF Spec, PreviewStaysInside

-----------------------------------------------------------------------------
(* The put pointer. *)

(* Around the ring the put pointer is ahead of the counted bytes by drift. *)
Aligned == \E k \in Int : put - get - count - drift = Size * k

(* A multiple of the ring's size, and the next ones. *)
LEMMA Multiples ==
    ASSUME NEW k \in Int
    PROVE  /\ Size * (k + 1) = Size * k + Size
           /\ Size * (k - 1) = Size * k - Size
           /\ Size * k \in Int
BY RingSizes

LEMMA MultipleMeansZero ==
    ASSUME NEW a \in Int, NEW k \in Int, a = Size * k
    PROVE  a % Size = 0
BY RingSizes, SMTT(30)

(* A round of a read moves the get pointer by what it takes from the       *)
(* count, or to the start of the buffer.                                   *)
LEMMA CopyOutAligned ==
    ASSUME RingInv, Aligned, CopyOut
    PROVE  Aligned'
<1> DEFINE n == Take
<1>1. n \in Nat /\ n <= Size - get
  BY TakeFacts DEF RingInv
<1>2. /\ get' = IF get + n >= Size THEN 0 ELSE get + n
      /\ count' = count - n /\ put' = put /\ drift' = drift
  BY DEF CopyOut, chunk
<1> HIDE DEF n
<1>3. PICK k \in Int : put - get - count - drift = Size * k
  BY DEF Aligned
<1> DEFINE m == Size * k
<1>4. m \in Int /\ Size * (k + 1) = m + Size
  BY Multiples
<1>5. put - get - count - drift = m
  BY <1>3
<1>6. /\ get \in Nat /\ put \in Nat /\ count \in Nat /\ drift \in Nat
      /\ Size \in Nat
  BY RingSizes DEF RingInv, TypeOK
<1>7. CASE get + n >= Size
  <2>1. put' - get' - count' - drift' = m + Size
    <3> HIDE DEF m
    <3> QED BY <1>1, <1>2, <1>4, <1>5, <1>6, <1>7
  <2>2. put' - get' - count' - drift' = Size * (k + 1)
    BY <1>4, <2>1
  <2> QED BY <2>2 DEF Aligned
<1>8. CASE ~(get + n >= Size)
  <2>1. put' - get' - count' - drift' = m
    <3> HIDE DEF m
    <3> QED BY <1>1, <1>2, <1>4, <1>5, <1>6, <1>8
  <2> QED BY <2>1 DEF Aligned
<1> QED BY <1>7, <1>8

(* In one piece the put pointer moves by the header more than the count;   *)
(* in two it moves by as much as the count, once around the ring.          *)
LEMMA CopyInAligned ==
    ASSUME RingInv, Aligned, CopyIn
    PROVE  Aligned'
<1>1. /\ chunkSize \in Nat /\ offset \in Nat /\ Payload \in Nat
      /\ Payload + offset = chunkSize
  BY ChunkFacts DEF CopyIn, RingInv
<1>2. /\ get' = get /\ count' = count + Payload
      /\ \/ put' = put + chunkSize /\ drift' = drift + offset
         \/ put' = Payload - (Size - put) /\ drift' = drift
  BY DEF CopyIn, CountWritten, ToEnd
<1>3. PICK k \in Int : put - get - count - drift = Size * k
  BY DEF Aligned
<1> DEFINE m == Size * k
<1>4. m \in Int /\ Size * (k - 1) = m - Size
  BY Multiples
<1>5. put - get - count - drift = m
  BY <1>3
<1>6. /\ get \in Nat /\ put \in Nat /\ count \in Nat /\ drift \in Nat
      /\ Size \in Nat
  BY RingSizes DEF RingInv, TypeOK
<1>7. CASE put' = put + chunkSize /\ drift' = drift + offset
  <2>1. put' - get' - count' - drift' = m
    <3> HIDE DEF m
    <3> QED BY <1>1, <1>2, <1>4, <1>5, <1>6, <1>7
  <2> QED BY <2>1 DEF Aligned
<1>8. CASE put' = Payload - (Size - put) /\ drift' = drift
  <2>1. put' - get' - count' - drift' = m - Size
    <3> HIDE DEF m
    <3> QED BY <1>1, <1>2, <1>4, <1>5, <1>6, <1>8
  <2>2. put' - get' - count' - drift' = Size * (k - 1)
    BY <1>4, <2>1
  <2> QED BY <2>2 DEF Aligned
<1> QED BY <1>2, <1>7, <1>8

LEMMA AlignedStep == RingInv /\ Aligned /\ [Next]_vars => Aligned'
<1> SUFFICES ASSUME RingInv, Aligned, [Next]_vars PROVE Aligned'
  OBVIOUS
<1>1. CASE CopyOut
  BY <1>1, CopyOutAligned
<1>2. CASE CopyIn
  BY <1>2, CopyInAligned
<1>3. ASSUME UNCHANGED <<get, put, count, drift>> PROVE Aligned'
  BY <1>3 DEF Aligned
<1>4. CASE Player
  BY <1>3, <1>4, PlayerCalls DEF StartCall, ring, writer, chunk
<1>5. CASE \/ ReaderSleeps \/ ReaderTimeout \/ ReturnTimedOut
           \/ PreviewOverrun \/ SpuriousWakeup \/ UNCHANGED vars
  BY <1>3, <1>5 DEF ReaderSleeps, ReaderTimeout, ReturnTimedOut, PreviewOverrun,
                    SpuriousWakeup, vars, ring, writer, chunk
<1>6. CASE \/ \E size \in Sizes, header \in Offsets : WriteChunk(size, header)
           \/ StrangeChunk \/ HeaderUnset
           \/ WriterSleeps \/ WriterTimeout \/ CopyBehindEnd
  BY <1>3, <1>6 DEF WriteChunk, StrangeChunk, HeaderUnset, WriterSleeps, WriterTimeout,
                    CopyBehindEnd, ring, writer, chunk
<1> QED BY <1>1, <1>2, <1>4, <1>5, <1>6 DEF Next, ReaderStep, WriterStep

(* However reads and writes interleave and wherever they go around the end *)
(* of the buffer, the put pointer is where the counted bytes end, plus the *)
(* headers of the chunks written in one piece.                             *)
THEOREM PutDriftsByHeaders == Spec => []PutAheadByHeaders
<1>1. Init => Aligned
  <2> SUFFICES ASSUME Init PROVE Aligned
    OBVIOUS
  <2>1. put = 0 /\ get = 0 /\ count = 0 /\ drift = 0
    BY DEF Init
  <2>2. put - get - count - drift = Size * 0
    BY <2>1, RingSizes
  <2> QED BY <2>2 DEF Aligned
<1>2. RingInv /\ Aligned => PutAheadByHeaders
  <2> SUFFICES ASSUME RingInv, Aligned PROVE PutAheadByHeaders
    OBVIOUS
  <2>1. PICK k \in Int : put - get - count - drift = Size * k
    BY DEF Aligned
  <2>2. put - get - count - drift \in Int
    BY RingSizes DEF RingInv, TypeOK
  <2> QED BY <2>1, <2>2, MultipleMeansZero DEF PutAheadByHeaders
<1> QED BY <1>1, <1>2, AlwaysInv, AlignedStep, PTL DEF Spec

-----------------------------------------------------------------------------
(* Wakeups. *)

(* A copying thread empties or fills the ring for the other one and        *)
(* signals it in the same critical section; no other step changes the      *)
(* count.  That both sleep is impossible because a chunk fits the empty    *)
(* ring.                                                                   *)
LEMMA WakeupStep == RingInv' /\ NoLostWakeup /\ [Next]_vars => NoLostWakeup'
<1> SUFFICES ASSUME RingInv', NoLostWakeup, [Next]_vars PROVE NoLostWakeup'
  OBVIOUS
<1> DEFINE Asleep == /\ rpc = "waiting" => count = 0
                     /\ wpc = "waiting" => ~Fits(chunkSize)
<1>1. Asleep
  BY DEF NoLostWakeup
<1>2. Asleep'
  <2>1. CASE Player
    BY <1>1, <2>1 DEF Player, Read, ReadBlock, GetPreview, StartCall, Return, ring,
                      writer, chunk, Fits
  <2>2. CASE ReaderSleeps \/ ReaderTimeout \/ ReturnTimedOut
    BY <1>1, <2>2 DEF ReaderSleeps, ReaderTimeout, TimeoutReturns, ReturnTimedOut,
                      Return, ring, writer, chunk, Fits
  <2>3. CASE CopyOut
    BY <2>3 DEF CopyOut, Return, SignalWriter
  <2>4. CASE CopyIn
    BY <2>4 DEF CopyIn, SignalReader
  <2>5. CASE \/ \E size \in Sizes, header \in Offsets : WriteChunk(size, header)
             \/ StrangeChunk \/ HeaderUnset
             \/ WriterSleeps \/ WriterTimeout \/ CopyBehindEnd
    BY <1>1, <2>5 DEF WriteChunk, StrangeChunk, HeaderUnset, WriterSleeps,
                      WriterTimeout, CopyBehindEnd, ring, reader, writer, chunk, Fits
  <2>6. CASE PreviewOverrun \/ SpuriousWakeup \/ UNCHANGED vars
    BY <1>1, <2>6 DEF PreviewOverrun, SpuriousWakeup, vars, ring, reader, writer,
                      chunk, Fits
  <2> QED BY <2>1, <2>2, <2>3, <2>4, <2>5, <2>6 DEF Next, ReaderStep, WriterStep
<1>3. ~(rpc' = "waiting" /\ wpc' = "waiting")
  <2> SUFFICES ASSUME rpc' = "waiting", wpc' = "waiting" PROVE FALSE
    OBVIOUS
  <2>1. ~(Size - 0 >= chunkSize')
    BY <1>2, Zenon DEF Fits
  <2>2. chunkSize' \in Sizes
    BY DEF RingInv, HasChunk
  <2> QED BY <2>1, <2>2, RingSizes
<1> QED BY <1>2, <1>3 DEF NoLostWakeup

(* A reader asleep has an empty ring and a writer asleep has no room,      *)
(* although timeouts and spurious wakeups race with the signals; the two   *)
(* never sleep at the same time.                                           *)
THEOREM WakeupsNotLost == Spec => []NoLostWakeup
<1>1. Init => NoLostWakeup
  BY DEF Init, NoLostWakeup
<1>2. RingInv /\ [Next]_vars => RingInv'
  BY InvStep
<1> QED BY <1>1, <1>2, InvInit, WakeupStep, PTL DEF Spec

-----------------------------------------------------------------------------
(* The promise to the player. *)

(* The state of a call as the channel sees it. *)
Seen(c) == CASE c = NoCall -> "none" [] c = "block" -> "all" [] OTHER -> "any"

LEMMA SeenFacts ==
    /\ Seen(NoCall) = "none"
    /\ \A c \in Calls : /\ Seen(c) \in {"any", "all"}
                        /\ Seen(c) = "all" <=> c = "block"
BY DEF Seen, Calls, NoCall

(* A call that reads from the ring opens one at the channel, and one that  *)
(* the preview satisfies does nothing there.                               *)
LEMMA StartOpens ==
    ASSUME RingInv, NEW what \in Calls, NEW len \in Nat, StartCall(what, len)
    PROVE  Channel!Open \/ UNCHANGED Channel!vars
<1>1. rpc = "idle" /\ count' = count
  BY DEF StartCall, ring
<1>2. call = NoCall /\ want = 0 /\ fromRing = 0
  BY <1>1 DEF RingInv, CallState
<1>3. CASE StillToRead(len) > 0
  <2>1. /\ call' = what /\ want' > 0 /\ fromRing' = fromRing
        /\ UNCHANGED <<delivered, discarded>>
    BY <1>3 DEF StartCall
  <2>2. Seen(call) = "none" /\ Seen(call') \in {"any", "all"}
    BY <1>2, <2>1, SeenFacts
  <2> QED BY <1>1, <2>1, <2>2 DEF Channel!Open, Seen
<1>4. CASE ~(StillToRead(len) > 0)
  <2>1. /\ delivered' = delivered + 0 /\ discarded' = discarded
        /\ call' = NoCall /\ want' = 0 /\ fromRing' = 0
    BY <1>4 DEF StartCall, Return
  <2>2. delivered' = delivered
    BY <2>1 DEF RingInv, TypeOK
  <2> QED BY <1>1, <1>2, <2>1, <2>2 DEF Channel!vars
<1> QED BY <1>3, <1>4

(* A round of the copy loop fetches some bytes, or what the call still     *)
(* needs; after a spurious wakeup it may fetch none.                       *)
LEMMA CopyOutFetches ==
    ASSUME RingInv, CopyOut
    PROVE  Channel!Fetch \/ Channel!Complete \/ UNCHANGED Channel!vars
<1> DEFINE n == Take
<1>1. n \in Nat /\ n <= want /\ n <= count
  BY TakeFacts DEF RingInv
<1>2. /\ rpc # "idle" /\ count' = count - n
      /\ \/ /\ want - n > 0
            /\ want' = want - n /\ fromRing' = fromRing + n
            /\ UNCHANGED <<call, delivered, discarded>>
         \/ /\ ~(want - n > 0)
            /\ delivered' = delivered + (fromRing + n) /\ discarded' = discarded
            /\ call' = NoCall /\ want' = 0 /\ fromRing' = 0
  BY DEF CopyOut, Return
<1> HIDE DEF n
<1>3. /\ count \in Nat /\ want \in Nat /\ fromRing \in Nat /\ delivered \in Nat
      /\ want > 0
  BY <1>2, RingSizes DEF RingInv, TypeOK, CallState
<1>4. CASE want - n > 0
  <2>1. /\ want' = want - n /\ fromRing' = fromRing + n
        /\ UNCHANGED <<call, delivered, discarded>>
    BY <1>2, <1>4
  <2>2. CASE n = 0
    BY <1>2, <1>3, <2>1, <2>2 DEF Channel!vars
  <2>3. CASE n > 0
    <3>1. n \in 1 .. count /\ n < want
      BY <1>1, <1>3, <1>4, <2>3
    <3> QED BY <1>2, <2>1, <3>1 DEF Channel!Fetch
  <2> QED BY <1>1, <2>2, <2>3
<1>5. CASE ~(want - n > 0)
  <2>1. n = want
    BY <1>1, <1>3, <1>5
  <2>2. /\ delivered' = delivered + (fromRing + n) /\ discarded' = discarded
        /\ call' = NoCall /\ want' = 0 /\ fromRing' = 0
    BY <1>2, <1>5
  <2>3. /\ want <= count /\ count' = count - want
        /\ delivered' = delivered + fromRing + want
    BY <1>1, <1>2, <1>3, <2>1, <2>2
  <2>4. Seen(call) # "none" /\ Seen(call') = "none"
    <3>1. call \in Calls
      BY <1>2 DEF RingInv, TypeOK, CallState
    <3> QED BY <2>2, <3>1, SeenFacts
  <2> QED BY <2>2, <2>3, <2>4 DEF Channel!Complete, Channel!Close, Seen
<1> QED BY <1>4, <1>5

(* A call whose wait timed out gives up. *)
LEMMA TimedOutGivesUp == RingInv /\ ReturnTimedOut => Channel!GiveUp
<1> SUFFICES ASSUME RingInv, ReturnTimedOut PROVE Channel!GiveUp
  OBVIOUS
<1>1. /\ rpc = "timedout" /\ count' = count
      /\ IF call = "block"
         THEN discarded' = discarded + fromRing /\ delivered' = delivered
         ELSE delivered' = delivered + fromRing /\ discarded' = discarded
      /\ call' = NoCall /\ want' = 0 /\ fromRing' = 0
  BY DEF ReturnTimedOut, Return, ring
<1>2. call \in Calls
  BY <1>1 DEF RingInv, TypeOK, CallState
<1>3. /\ Seen(call) # "none" /\ (Seen(call) = "all" <=> call = "block")
      /\ Seen(call') = "none"
  BY <1>1, <1>2, SeenFacts
<1> QED BY <1>1, <1>3 DEF Channel!GiveUp, Channel!Close, Seen

(* What the writer copies is put, and there is room for it. *)
LEMMA CopyInPuts == RingInv /\ CopyIn => Channel!Put
<1> SUFFICES ASSUME RingInv, CopyIn PROVE Channel!Put
  OBVIOUS
<1>1. /\ chunkSize \in Nat /\ offset \in Nat /\ Payload \in Nat
      /\ 0 < Payload /\ Payload + offset = chunkSize
      /\ Size \in Nat /\ count \in Nat
  BY RingSizes, ChunkFacts DEF CopyIn, RingInv, TypeOK
<1>2. /\ Size - count >= chunkSize /\ count' = count + Payload
      /\ UNCHANGED <<call, want, fromRing, delivered, discarded>>
  BY DEF CopyIn, Fits, CountWritten
<1>3. count' > count /\ count' <= Size
  BY <1>1, <1>2
<1> QED BY <1>2, <1>3 DEF Channel!Put

(* Every step of the two threads is a step of the channel or none. *)
LEMMA ChannelStep ==
    RingInv /\ [Next]_vars => [Channel!Next]_(Channel!vars)
<1> SUFFICES ASSUME RingInv, [Next]_vars
             PROVE  Channel!Next \/ UNCHANGED Channel!vars
  OBVIOUS
<1>1. CASE Player
  BY <1>1, PlayerCalls, StartOpens DEF Channel!Next
<1>2. CASE CopyOut
  BY <1>2, CopyOutFetches DEF Channel!Next
<1>3. CASE ReturnTimedOut
  BY <1>3, TimedOutGivesUp DEF Channel!Next
<1>4. CASE CopyIn
  BY <1>4, CopyInPuts DEF Channel!Next
<1>5. ASSUME UNCHANGED <<count, call, want, fromRing, delivered, discarded>>
      PROVE  UNCHANGED Channel!vars
  BY <1>5 DEF Channel!vars
<1>6. CASE ReaderSleeps \/ ReaderTimeout \/ SpuriousWakeup \/ PreviewOverrun
  BY <1>5, <1>6 DEF ReaderSleeps, ReaderTimeout, SpuriousWakeup, PreviewOverrun,
                    ring, reader
<1>7. CASE \/ \E size \in Sizes, header \in Offsets : WriteChunk(size, header)
           \/ StrangeChunk \/ HeaderUnset
           \/ WriterSleeps \/ WriterTimeout \/ CopyBehindEnd \/ UNCHANGED vars
  BY <1>5, <1>7 DEF WriteChunk, StrangeChunk, HeaderUnset, WriterSleeps, WriterTimeout,
                    CopyBehindEnd, vars, ring, reader
<1> QED BY <1>1, <1>2, <1>3, <1>4, <1>6, <1>7 DEF Next, ReaderStep, WriterStep

(* Both threads with their mutex, condition variable, timeouts and         *)
(* spurious wakeups do what module ByteChannel promises about amounts of   *)
(* bytes: a call returns as many as it asked for or as came before its     *)
(* timeout, and only a short read_block throws some away.                  *)
THEOREM RingImplementsChannel == Spec => ImplementsChannel
<1>1. Init => Channel!Init
  BY SeenFacts DEF Init, Channel!Init, Seen
<1> QED BY <1>1, AlwaysInv, ChannelStep, PTL
        DEF Spec, ImplementsChannel, Channel!Spec
===============================================================================
