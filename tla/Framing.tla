------------------------------ MODULE Framing -------------------------------
(***************************************************************************)
(* The receiving half of the framer, Framing::next_frame: a buffer one     *)
(* slot larger than the largest frame, filled by reads of any size, with   *)
(* a discard mode for frames that outgrow it.  Buffer indices are those of *)
(* the code, from 0; streams and frames are sequences, from 1.             *)
(***************************************************************************)
EXTENDS Frames

CONSTANTS
  MaxStream,  (* bound on the bytes a behaviour reads                      *)
  Retry       (* the caller calls again after a failed read (a timeout)    *)

ASSUME BoundAssumption == MaxStream \in Nat /\ Retry \in BOOLEAN

VARIABLES
  reader_buffer,  (* received bytes not yet consumed                       *)
  reader_filled,  (* number of received bytes in reader_buffer             *)
  reader_offset,  (* start of the unconsumed data                          *)
  reader_search,  (* end of the data already scanned for a delimiter       *)
  discard,        (* bytes thrown away of the frame being discarded        *)
  pc,             (* where next_frame is: see PCs                          *)
  frame,          (* content of the frame returned last                    *)
  received,       (* history: every byte read from the transport           *)
  ended,          (* history: position of the last returned frame's end    *)
  torn,           (* history: the discard of this frame was forgotten      *)
  whole           (* history: the last returned frame was not torn         *)

indices == <<reader_filled, reader_offset, reader_search>>
history == <<received, ended, torn, whole>>
vars == <<reader_buffer, indices, discard, pc, frame, history>>

(* The buffer has one extra slot for the delimiter.                        *)
BufferSize == MAX_FRAME_SIZE + 1
Slots == 0 .. BufferSize - 1

(* "idle": not called; "scan": at the head of the loop; "read": about to   *)
(* read from the transport; "closed": the caller gave up on it.            *)
PCs == {"idle", "scan", "read", "closed"}

(* Stream position before the byte in slot 0: the filled slots hold the    *)
(* last bytes received.                                                    *)
Base == Len(received) - reader_filled

Init ==
  /\ reader_buffer = [i \in Slots |-> 0]
  /\ reader_filled = 0 /\ reader_offset = 0 /\ reader_search = 0
  /\ discard = 0
  /\ pc = "idle"
  /\ frame = <<>>
  /\ received = <<>>
  /\ ended = 0
  /\ torn = FALSE /\ whole = TRUE

-----------------------------------------------------------------------------
(* next_frame is called.  The discard counter is a local of the call, so a *)
(* count left by a call that failed is lost.                               *)
Call ==
  /\ pc = "idle"
  /\ pc' = "scan"
  /\ discard' = 0
  /\ torn' = (torn \/ discard > 0)
  /\ UNCHANGED <<reader_buffer, indices, frame, received, ended, whole>>

(* memchr over the unscanned region finds its first delimiter at end.      *)
Found(end) ==
  /\ reader_buffer[end] = 0
  /\ \A k \in reader_search .. end - 1 : reader_buffer[k] # 0

NoneFound == \A k \in reader_search .. reader_filled - 1 : reader_buffer[k] # 0

(* Mutant: the scan position ends one byte too far.                        *)
ConsumeTooFar(end) ==
  /\ reader_offset' = end + 1
  /\ reader_search' = end + 2

(* Consume up to and including the delimiter at end.                       *)
Consume(end) ==
  /\ reader_offset' = end + 1
  /\ reader_search' = end + 1

(* Mutant: the discard mode is not looked at.                              *)
ReturnFrameDiscarding ==
  /\ pc = "scan"
  /\ \E end \in reader_search .. reader_filled - 1 :
       /\ Found(end)
       /\ Consume(end)
       /\ frame' = [i \in 1 .. end - reader_offset |-> reader_buffer[reader_offset + i - 1]]
       /\ ended' = Base + end + 1
  /\ torn' = FALSE /\ whole' = ~torn
  /\ pc' = "idle"
  /\ UNCHANGED <<reader_buffer, reader_filled, discard, received>>

(* The delimiter ends a frame in normal operation: return it.              *)
ReturnFrame ==
  /\ pc = "scan" /\ discard = 0
  /\ \E end \in reader_search .. reader_filled - 1 :
       /\ Found(end)
       /\ Consume(end)
       /\ frame' = [i \in 1 .. end - reader_offset |-> reader_buffer[reader_offset + i - 1]]
       /\ ended' = Base + end + 1
  /\ torn' = FALSE /\ whole' = ~torn
  /\ pc' = "idle"
  /\ UNCHANGED <<reader_buffer, reader_filled, discard, received>>

EmptyBuffer ==
  /\ reader_filled' = 0 /\ reader_offset' = 0 /\ reader_search' = 0
  /\ UNCHANGED reader_buffer

(* Mutant: what follows the delimiter is thrown away too.                  *)
DropFrameAndRest ==
  /\ pc = "scan" /\ discard > 0 /\ ~NoneFound
  /\ EmptyBuffer
  /\ discard' = 0 /\ torn' = FALSE
  /\ UNCHANGED <<pc, frame, received, ended, whole>>

(* The delimiter ends the frame being discarded: drop it and search on.    *)
DropFrame ==
  /\ pc = "scan" /\ discard > 0
  /\ \E end \in reader_search .. reader_filled - 1 : Found(end) /\ Consume(end)
  /\ discard' = 0 /\ torn' = FALSE
  /\ UNCHANGED <<reader_buffer, reader_filled, pc, frame, received, ended, whole>>

(* Mutant: the slot for the delimiter is forgotten.                        *)
BufferExhaustedLate == reader_offset = 0 /\ reader_filled = BufferSize + 1

(* No slot is left even after moving the data to the front.                *)
BufferExhausted == reader_offset = 0 /\ reader_filled = BufferSize

(* No delimiter yet: move the fragment to the front of the buffer.         *)
Compact ==
  /\ pc = "scan" /\ discard = 0 /\ NoneFound /\ ~BufferExhausted
  /\ LET used == reader_filled - reader_offset IN
       /\ reader_buffer' = [i \in Slots |-> IF i < used THEN reader_buffer[reader_offset + i]
                                                        ELSE reader_buffer[i]]
       /\ reader_filled' = used
       /\ reader_search' = used
  /\ reader_offset' = 0
  /\ pc' = "read"
  /\ UNCHANGED <<discard, frame, history>>

(* Mutant: the full buffer is dropped without entering the discard mode.   *)
OverflowForgotten ==
  /\ pc = "scan" /\ discard = 0 /\ NoneFound /\ BufferExhausted
  /\ EmptyBuffer
  /\ pc' = "read"
  /\ UNCHANGED <<discard, frame, history>>

(* Mutant: the delimiter's slot is not counted.                            *)
OverflowMiscounted ==
  /\ pc = "scan" /\ discard = 0 /\ NoneFound /\ BufferExhausted
  /\ EmptyBuffer
  /\ discard' = MAX_FRAME_SIZE
  /\ pc' = "read"
  /\ UNCHANGED <<frame, history>>

(* No delimiter and a full buffer: the frame is too large, discard it.     *)
Overflow ==
  /\ pc = "scan" /\ discard = 0 /\ NoneFound /\ BufferExhausted
  /\ EmptyBuffer
  /\ discard' = BufferSize
  /\ pc' = "read"
  /\ UNCHANGED <<frame, history>>

(* Mutant: the fragment is not counted.                                    *)
DropFragmentUncounted ==
  /\ pc = "scan" /\ discard > 0 /\ NoneFound
  /\ EmptyBuffer
  /\ pc' = "read"
  /\ UNCHANGED <<discard, frame, history>>

(* No delimiter while discarding: throw away everything there is.          *)
DropFragment ==
  /\ pc = "scan" /\ discard > 0 /\ NoneFound
  /\ EmptyBuffer
  /\ discard' = discard + reader_filled
  /\ pc' = "read"
  /\ UNCHANGED <<frame, history>>

(* A read of one byte or more appends them to the filled slots.            *)
Ingest(chunk) ==
  /\ reader_buffer' = [i \in Slots |-> IF i \in reader_filled .. reader_filled + Len(chunk) - 1
                                       THEN chunk[i - reader_filled + 1]
                                       ELSE reader_buffer[i]]
  /\ reader_filled' = reader_filled + Len(chunk)
  /\ received' = received \o chunk
  /\ pc' = "scan"
  /\ UNCHANGED <<reader_offset, reader_search, discard, frame, ended, torn, whole>>

(* The transport fills some of the free slots.                             *)
ReadBytes ==
  /\ pc = "read"
  /\ \E n \in 1 .. BufferSize - reader_filled : \E chunk \in [1 .. n -> Byte] :
       /\ Len(received) + n <= MaxStream
       /\ Ingest(chunk)

(* The read fails or meets the end of the stream and the call returns an   *)
(* error.  The bytes buffered so far stay; the discard counter does not    *)
(* outlive the call, see Call.                                             *)
ReadFails ==
  /\ pc = "read"
  /\ pc' = IF Retry THEN "idle" ELSE "closed"
  /\ UNCHANGED <<reader_buffer, indices, discard, frame, history>>

Scan == ReturnFrame \/ DropFrame \/ Compact \/ Overflow \/ DropFragment

Next == Call \/ Scan \/ ReadBytes \/ ReadFails

Spec == Init /\ [][Next]_vars

-----------------------------------------------------------------------------
TypeOK ==
  /\ reader_buffer \in [Slots -> Byte]
  /\ reader_filled \in 0 .. BufferSize
  /\ reader_offset \in 0 .. BufferSize
  /\ reader_search \in 0 .. BufferSize
  /\ discard \in Nat
  /\ pc \in PCs
  /\ frame \in Seq(Byte)
  /\ received \in Seq(Byte)
  /\ ended \in 0 .. Len(received)
  /\ torn \in BOOLEAN /\ whole \in BOOLEAN

(* The indices keep their order, and the buffer is never full when it is   *)
(* read into: a read into no space at all returns Ok(0), which the framer  *)
(* takes for the end of the stream.                                        *)
RoomToRead ==
  /\ reader_offset <= reader_search
  /\ reader_search <= reader_filled
  /\ pc = "read" => reader_filled < BufferSize

(* What next_frame returned last is one whole frame of the stream that     *)
(* fits, byte for byte, however the reads cut the stream up and whatever   *)
(* was discarded before it.                                                *)
ReturnedIsFrame ==
  ended > 0 =>
    \E p \in 0 .. ended - 1 :
      /\ IsFrame(received, p, ended)
      /\ FrameSize(p, ended) <= MAX_FRAME_SIZE
      /\ frame = Content(received, p, ended)

(* It is the rest of one frame of the stream that is too large, without    *)
(* its first MAX_FRAME_SIZE + 1 bytes at least.                            *)
ReturnedIsRest ==
  \E p \in 0 .. ended - 1 :
    /\ IsFrame(received, p, ended)
    /\ FrameSize(p, ended) > MAX_FRAME_SIZE + Len(frame)
    /\ frame = Content(received, ended - Len(frame) - 1, ended)

(* Every frame returned is whole, but for what a failed read left of the   *)
(* frame whose discard it cut short; the frames after that one are whole   *)
(* again.                                                                  *)
FramesAreWhole == IF whole THEN ReturnedIsFrame ELSE ReturnedIsRest

(* The framer never waits for the transport while a frame that fits is     *)
(* already there to be returned.                                           *)
NothingLeftBehind ==
  pc = "read" =>
    ~ \E p \in ended .. Len(received) : \E q \in p + 1 .. Len(received) :
        IsNextFitting(received, ended, p, q)

(* The size reported for a discarded frame is the frame's size: what was   *)
(* thrown away and what is still in the buffer add up to the stretch since *)
(* the last frame boundary, and it is too large already.                   *)
DiscardIsExact ==
  pc \in {"scan", "read"} /\ discard > 0 /\ ~torn =>
    /\ discard > MAX_FRAME_SIZE
    /\ discard <= Base
    /\ reader_offset = 0
    /\ IsBoundary(received, Base - discard)
    /\ ZeroFree(received, Base - discard + 1, Base + reader_search)

(* The inductive strengthening of the above, in four parts.                *)

(* The filled slots mirror the end of the stream.                          *)
BufferMirrorsStream ==
  /\ reader_filled <= Len(received)
  /\ \A i \in 0 .. reader_filled - 1 : reader_buffer[i] = received[Base + i + 1]

(* The scanned region holds no delimiter, and all is scanned before a read.*)
ScannedIsClear ==
  /\ \A k \in reader_offset .. reader_search - 1 : reader_buffer[k] # 0
  /\ pc = "read" => reader_search = reader_filled

(* Stream position where what is being received began.                     *)
FrameStart == Base + reader_offset - discard

(* What is left of a frame that begins at p after those too large to       *)
(* return: all of it, or less when a discard of it was forgotten.          *)
BeganAt(p) ==
  /\ p \in ended .. FrameStart
  /\ IsBoundary(received, p)
  /\ OnlyOversizedBetween(received, ended, p)
  /\ ZeroFree(received, p + 1, FrameStart)
  /\ IF torn THEN FrameStart - p > MAX_FRAME_SIZE ELSE FrameStart = p

(* The frame being received began at a frame boundary; if it is being      *)
(* discarded, what was thrown away goes on from there and is too large.    *)
ReceivingFrame ==
  /\ \E p \in ended .. FrameStart : BeganAt(p)
  /\ discard > 0 => /\ discard > MAX_FRAME_SIZE
                    /\ reader_offset = 0
                    /\ ZeroFree(received, FrameStart + 1, Base)

FramingInv ==
  /\ TypeOK
  /\ RoomToRead
  /\ BufferMirrorsStream
  /\ ScannedIsClear
  /\ ReceivingFrame /\ FramesAreWhole
  /\ ~Retry => ~torn /\ whole /\ (pc = "idle" => discard = 0)

(* The framer hands out what FrameStream promises.                         *)
Stream == INSTANCE FrameStream WITH input <- received
ImplementsStream == Stream!FairSpec
=============================================================================
