--------------------------- MODULE FramingProofs ----------------------------
(***************************************************************************)
(* The framer's invariants for every frame limit, every alphabet and every *)
(* stream.  FramingInv is inductive; the invariants the runs check follow  *)
(* from it.                                                                *)
(***************************************************************************)
EXTENDS Framing, TLAPS, SequenceTheorems

-----------------------------------------------------------------------------
(* Facts about frames of a stream.                                         *)

(* A frame that begins before a boundary has ended there.                  *)
LEMMA FrameEndsByBoundary ==
  ASSUME NEW s \in Seq(Byte), NEW b \in 0 .. Len(s), IsBoundary(s, b),
         NEW k, NEW l, IsFrame(s, k, l), k < b
  PROVE  l <= b
  BY DEF IsFrame, IsBoundary, ZeroFree

(* Bytes that arrive later do not change the frames a boundary closes.     *)
LEMMA OversizedStaySo ==
  ASSUME NEW s \in Seq(Byte), NEW t \in Seq(Byte), Len(s) <= Len(t),
         \A k \in 1 .. Len(s) : t[k] = s[k],
         NEW e \in 0 .. Len(s), NEW b \in 0 .. Len(s),
         IsBoundary(s, b), OnlyOversizedBetween(s, e, b)
  PROVE  IsBoundary(t, b) /\ OnlyOversizedBetween(t, e, b)
<1>1. IsBoundary(t, b)
  BY DEF IsBoundary
<1>2. SUFFICES ASSUME NEW k \in e .. b, NEW l \in k + 1 .. Len(t),
                      k < b, IsFrame(t, k, l)
               PROVE  FrameSize(k, l) > MAX_FRAME_SIZE
  BY <1>1 DEF OnlyOversizedBetween
<1>3. l <= b
  BY <1>1, <1>2, FrameEndsByBoundary
<1>4. IsFrame(s, k, l)
  BY <1>2, <1>3 DEF IsFrame, IsBoundary, ZeroFree
<1>5. QED
  BY <1>2, <1>3, <1>4 DEF OnlyOversizedBetween

(* A returned frame stays a frame of the stream.                           *)
LEMMA FramesStay ==
  ASSUME NEW s \in Seq(Byte), NEW t \in Seq(Byte), Len(s) <= Len(t),
         \A k \in 1 .. Len(s) : t[k] = s[k],
         NEW p, NEW q, IsFrame(s, p, q)
  PROVE  IsFrame(t, p, q) /\ Content(t, p, q) = Content(s, p, q)
<1>1. IsFrame(t, p, q)
  BY DEF IsFrame, IsBoundary, ZeroFree
<1>2. p \in Nat /\ q \in 1 .. Len(s) /\ p + 1 \in 1 .. Len(s)
  BY DEF IsFrame
<1>3. \A k \in p + 1 .. q - 1 : s[k] \in Byte /\ t[k] \in Byte /\ s[k] = t[k]
  BY <1>2
<1>4. Content(t, p, q) = Content(s, p, q)
  BY <1>2, <1>3 DEF Content
<1>5. QED
  BY <1>1, <1>4

(* Past an oversized frame, the oversized frames still are all there is.   *)
LEMMA OversizedExtend ==
  ASSUME NEW s \in Seq(Byte), NEW e \in 0 .. Len(s), NEW b \in 0 .. Len(s),
         NEW c \in 0 .. Len(s), OnlyOversizedBetween(s, e, b), e <= b,
         IsFrame(s, b, c), FrameSize(b, c) > MAX_FRAME_SIZE
  PROVE  OnlyOversizedBetween(s, e, c)
<1>1. SUFFICES ASSUME NEW k \in e .. c, NEW l \in k + 1 .. Len(s),
                      k < c, IsFrame(s, k, l)
               PROVE  FrameSize(k, l) > MAX_FRAME_SIZE
  BY DEF OnlyOversizedBetween
<1>2. CASE k < b
  BY <1>1, <1>2 DEF OnlyOversizedBetween
<1>3. CASE k = b
  <2>1. l <= c
    BY <1>1, <1>3, FrameEndsByBoundary DEF IsFrame, IsBoundary
  <2>2. l = c
    BY <1>1, <1>3, <2>1 DEF IsFrame, ZeroFree
  <2>3. QED
    BY <1>3, <2>2
<1>4. CASE k > b
  BY <1>1, <1>4 DEF IsFrame, IsBoundary, ZeroFree
<1>5. QED
  BY <1>2, <1>3, <1>4

-----------------------------------------------------------------------------
(* The inductive invariant.                                                *)

LEMMA InitInv == Init => FramingInv
<1>1. SUFFICES ASSUME Init PROVE FramingInv
  OBVIOUS
<1>2. TypeOK
  <2>1. <<>> \in Seq(Byte) /\ Len(<<>>) = 0
    BY EmptySeq
  <2>2. reader_buffer \in [Slots -> Byte]
    BY <1>1, ByteAssumption DEF Init
  <2>3. frame \in Seq(Byte) /\ received \in Seq(Byte) /\ ended \in 0 .. Len(received)
    BY <1>1, <2>1 DEF Init
  <2>4. /\ reader_filled \in 0 .. BufferSize
        /\ reader_offset \in 0 .. BufferSize
        /\ reader_search \in 0 .. BufferSize
    BY <1>1, SizeAssumption DEF Init, BufferSize
  <2>5. discard \in Nat /\ pc \in PCs /\ torn \in BOOLEAN /\ whole \in BOOLEAN
    BY <1>1 DEF Init, PCs
  <2>6. QED
    BY <2>2, <2>3, <2>4, <2>5 DEF TypeOK
<1>3. FrameStart = 0 /\ discard = 0 /\ ended = 0 /\ received = <<>> /\ ~torn
  BY <1>1, EmptySeq DEF Init, FrameStart, Base
<1>4. BeganAt(0)
  BY <1>3, EmptySeq DEF BeganAt, IsBoundary, OnlyOversizedBetween, IsFrame, ZeroFree
<1>5. ReceivingFrame
  BY <1>3, <1>4 DEF ReceivingFrame, BeganAt
<1>6. QED
  BY <1>1, <1>2, <1>5, SizeAssumption, EmptySeq
     DEF Init, FramingInv, RoomToRead, BufferMirrorsStream, ScannedIsClear, FramesAreWhole,
         ReturnedIsFrame

(* What a read appends to the stream.                                      *)
LEMMA ReadStep ==
  ASSUME TypeOK, ReadBytes
  PROVE  \E n \in 1 .. BufferSize - reader_filled : \E chunk \in [1 .. n -> Byte] :
           /\ reader_buffer' = [i \in Slots |-> IF i \in reader_filled .. reader_filled + n - 1
                                               THEN chunk[i - reader_filled + 1]
                                               ELSE reader_buffer[i]]
           /\ reader_filled' = reader_filled + n
           /\ received' = received \o chunk
           /\ received' \in Seq(Byte)
           /\ Len(received') = Len(received) + n
           /\ \A k \in 1 .. Len(received) : received'[k] = received[k]
           /\ \A k \in 1 .. n : received'[Len(received) + k] = chunk[k]
           /\ Base' = Base
<1>0. PICK n \in 1 .. BufferSize - reader_filled : \E chunk \in [1 .. n -> Byte] : Ingest(chunk)
  BY DEF ReadBytes
<1>1. PICK chunk \in [1 .. n -> Byte] : Ingest(chunk)
  BY <1>0
<1>2. n \in Nat /\ chunk \in Seq(Byte) /\ Len(chunk) = n
  BY <1>1, SizeAssumption DEF TypeOK, BufferSize
<1>3. received' \in Seq(Byte) /\ Len(received') = Len(received) + n
  BY <1>1, <1>2, ConcatProperties DEF TypeOK, Ingest
<1>4. \A i \in 1 .. Len(received) + n :
        received'[i] = IF i <= Len(received) THEN received[i] ELSE chunk[i - Len(received)]
  BY <1>1, <1>2, ConcatProperties DEF TypeOK, Ingest
<1>5. \A k \in 1 .. Len(received) : received'[k] = received[k]
  BY <1>2, <1>4 DEF TypeOK
<1>6. \A k \in 1 .. n : received'[Len(received) + k] = chunk[k]
  BY <1>2, <1>4 DEF TypeOK
<1>7. Base' = Base
  BY <1>1, <1>2, <1>3 DEF Base, TypeOK, Ingest
<1>8. QED
  BY <1>1, <1>2, <1>3, <1>5, <1>6, <1>7 DEF Ingest

(* Types and the order of the indices.                                     *)
LEMMA TypeStep ==
  ASSUME FramingInv, [Next]_vars
  PROVE  TypeOK' /\ RoomToRead'
<1> USE SizeAssumption, ByteAssumption, BoundAssumption
    DEF FramingInv, TypeOK, RoomToRead, BufferSize, Slots
<1>1. CASE Call
  BY <1>1 DEF Call, indices, PCs
<1>2. CASE ReturnFrame
  <2>1. PICK end \in reader_search .. reader_filled - 1 :
          /\ Found(end) /\ Consume(end)
          /\ frame' = [i \in 1 .. end - reader_offset |-> reader_buffer[reader_offset + i - 1]]
          /\ ended' = Base + end + 1
    BY <1>2 DEF ReturnFrame
  <2>2. end \in Nat /\ end < reader_filled /\ reader_offset <= end
    BY <2>1
  <2>3. frame' \in Seq(Byte)
    <3>1. \A i \in 1 .. end - reader_offset : reader_buffer[reader_offset + i - 1] \in Byte
      BY <2>2
    <3>2. frame' \in [1 .. end - reader_offset -> Byte]
      BY <2>1, <3>1
    <3>3. QED
      BY <2>2, <3>2
  <2>4. ended' \in 0 .. Len(received')
    BY <1>2, <2>1, <2>2 DEF ReturnFrame, Base, BufferMirrorsStream
  <2>5. torn' \in BOOLEAN /\ whole' \in BOOLEAN
    BY <1>2, Zenon DEF ReturnFrame
  <2>6. QED
    BY <1>2, <2>1, <2>2, <2>3, <2>4, <2>5 DEF ReturnFrame, Consume, PCs
<1>3. CASE DropFrame
  <2>1. torn' \in BOOLEAN /\ whole' \in BOOLEAN
    BY <1>3, Zenon DEF DropFrame
  <2>2. QED
    BY <1>3, <2>1 DEF DropFrame, Consume, PCs
<1>4. CASE Compact
  BY <1>4 DEF Compact, BufferExhausted, history, PCs
<1>5. CASE Overflow
  BY <1>5 DEF Overflow, EmptyBuffer, history, PCs
<1>6. CASE DropFragment
  BY <1>6 DEF DropFragment, EmptyBuffer, history, PCs
<1>7. CASE ReadBytes
  <2>1. PICK n \in 1 .. BufferSize - reader_filled : \E chunk \in [1 .. n -> Byte] :
          /\ reader_buffer' = [i \in Slots |-> IF i \in reader_filled .. reader_filled + n - 1
                                               THEN chunk[i - reader_filled + 1]
                                               ELSE reader_buffer[i]]
          /\ reader_filled' = reader_filled + n
          /\ received' \in Seq(Byte)
          /\ Len(received') = Len(received) + n
    BY <1>7, ReadStep
  <2>2. reader_buffer' \in [Slots -> Byte]
    BY <2>1
  <2>3. QED
    BY <1>7, <2>1, <2>2 DEF ReadBytes, Ingest, PCs
<1>8. CASE ReadFails
  BY <1>8 DEF ReadFails, indices, history, PCs
<1>9. CASE UNCHANGED vars
  BY <1>9 DEF vars, indices, history
<1>10. QED
  BY <1>1, <1>2, <1>3, <1>4, <1>5, <1>6, <1>7, <1>8, <1>9 DEF Next, Scan


(* The buffer keeps mirroring the end of the stream.                       *)
LEMMA MirrorStep ==
  ASSUME FramingInv, [Next]_vars
  PROVE  BufferMirrorsStream'
<1> USE SizeAssumption DEF FramingInv, TypeOK, RoomToRead, BufferMirrorsStream, Base, BufferSize, Slots
<1>1. CASE Call
  BY <1>1 DEF Call, indices
<1>2. CASE ReturnFrame
  BY <1>2 DEF ReturnFrame
<1>3. CASE DropFrame
  BY <1>3 DEF DropFrame, history
<1>4. CASE Compact
  BY <1>4 DEF Compact, history
<1>5. CASE Overflow
  BY <1>5 DEF Overflow, EmptyBuffer, history
<1>6. CASE DropFragment
  BY <1>6 DEF DropFragment, EmptyBuffer, history
<1>7. CASE ReadBytes
  <2>1. PICK n \in 1 .. BufferSize - reader_filled : \E chunk \in [1 .. n -> Byte] :
           /\ reader_buffer' = [i \in Slots |-> IF i \in reader_filled .. reader_filled + n - 1
                                               THEN chunk[i - reader_filled + 1]
                                               ELSE reader_buffer[i]]
           /\ reader_filled' = reader_filled + n
           /\ Len(received') = Len(received) + n
           /\ \A k \in 1 .. Len(received) : received'[k] = received[k]
           /\ \A k \in 1 .. n : received'[Len(received) + k] = chunk[k]
    BY <1>7, ReadStep
  <2>2. PICK chunk \in [1 .. n -> Byte] :
           /\ reader_buffer' = [i \in Slots |-> IF i \in reader_filled .. reader_filled + n - 1
                                               THEN chunk[i - reader_filled + 1]
                                               ELSE reader_buffer[i]]
           /\ \A k \in 1 .. n : received'[Len(received) + k] = chunk[k]
    BY <2>1
  <2>3. SUFFICES ASSUME NEW i \in 0 .. reader_filled + n - 1
                 PROVE  reader_buffer'[i] = received'[Len(received) - reader_filled + i + 1]
    <3>1. /\ reader_filled' = reader_filled + n /\ reader_filled' <= Len(received')
          /\ Len(received') - reader_filled' = Len(received) - reader_filled
      BY <2>1
    <3>2. reader_filled' - 1 = reader_filled + n - 1
      BY <3>1
    <3>3. \A i \in 0 .. reader_filled + n - 1 :
            reader_buffer'[i] = received'[Len(received) - reader_filled + i + 1]
      OBVIOUS
    <3>4. QED
      BY <3>1, <3>2, <3>3
  <2>4. CASE i < reader_filled
    <3>1. i \in 0 .. reader_filled - 1
      BY <2>3, <2>4
    <3>2. i \in Slots /\ reader_buffer'[i] = reader_buffer[i]
      BY <2>2, <3>1
    <3>3. reader_buffer[i] = received[Len(received) - reader_filled + i + 1]
      BY <3>1
    <3>4. Len(received) - reader_filled + i + 1 \in 1 .. Len(received)
      BY <3>1
    <3>5. received'[Len(received) - reader_filled + i + 1]
            = received[Len(received) - reader_filled + i + 1]
      BY <2>1, <3>4
    <3>6. QED
      BY <3>2, <3>3, <3>5
  <2>5. CASE i >= reader_filled
    <3>1. i - reader_filled + 1 \in 1 .. n
      BY <2>3, <2>5
    <3>2. reader_buffer'[i] = chunk[i - reader_filled + 1]
      BY <2>2, <2>3, <2>5
    <3>3. received'[Len(received) + (i - reader_filled + 1)] = chunk[i - reader_filled + 1]
      BY <2>2, <3>1
    <3>4. Len(received) + (i - reader_filled + 1) = Len(received) - reader_filled + i + 1
      BY <2>3
    <3>5. QED
      BY <3>2, <3>3, <3>4
  <2>6. QED
    BY <2>3, <2>4, <2>5
<1>8. CASE ReadFails
  BY <1>8 DEF ReadFails, indices, history
<1>9. CASE UNCHANGED vars
  BY <1>9 DEF vars, indices, history
<1>10. QED
  BY <1>1, <1>2, <1>3, <1>4, <1>5, <1>6, <1>7, <1>8, <1>9 DEF Next, Scan

(* What was scanned stays free of delimiters.                              *)
LEMMA ScannedStep ==
  ASSUME FramingInv, [Next]_vars
  PROVE  ScannedIsClear'
<1> USE SizeAssumption DEF FramingInv, TypeOK, RoomToRead, ScannedIsClear, BufferSize, Slots
<1>1. CASE Call
  BY <1>1 DEF Call, indices
<1>2. CASE ReturnFrame
  BY <1>2 DEF ReturnFrame, Consume
<1>3. CASE DropFrame
  BY <1>3 DEF DropFrame, Consume
<1>4. CASE Compact
  BY <1>4 DEF Compact, NoneFound
<1>5. CASE Overflow
  BY <1>5 DEF Overflow, EmptyBuffer
<1>6. CASE DropFragment
  BY <1>6 DEF DropFragment, EmptyBuffer
<1>7. CASE ReadBytes
  BY <1>7, ReadStep DEF ReadBytes, Ingest
<1>8. CASE ReadFails
  BY <1>8 DEF ReadFails, indices
<1>9. CASE UNCHANGED vars
  BY <1>9 DEF vars, indices
<1>10. QED
  BY <1>1, <1>2, <1>3, <1>4, <1>5, <1>6, <1>7, <1>8, <1>9 DEF Next, Scan

(* A delimiter the scan finds ends the frame being received.               *)
LEMMA FoundEndsFrame ==
  ASSUME FramingInv, pc = "scan", NEW p, BeganAt(p),
         NEW end \in reader_search .. reader_filled - 1, Found(end)
  PROVE  /\ FrameStart \in 0 .. Len(received) /\ p \in 0 .. FrameStart
         /\ Base + end + 1 \in FrameStart + 1 .. Len(received)
         /\ IsFrame(received, p, Base + end + 1)
<1> USE SizeAssumption DEF FramingInv, TypeOK, RoomToRead, BufferMirrorsStream, BufferSize, Slots
<1>1. /\ Base \in Nat /\ FrameStart \in Nat /\ Base + reader_filled = Len(received)
      /\ p \in 0 .. FrameStart /\ IsBoundary(received, p) /\ ZeroFree(received, p + 1, FrameStart)
  BY DEF Base, FrameStart, BeganAt
<1>2. \A i \in 0 .. reader_filled - 1 : reader_buffer[i] = received[Base + i + 1]
  OBVIOUS
<1>3. received[Base + end + 1] = 0
  BY <1>2 DEF Found
<1>4. ZeroFree(received, Base + reader_offset + 1, Base + end)
  <2>1. SUFFICES ASSUME NEW k \in Base + reader_offset + 1 .. Base + end
                 PROVE  received[k] # 0
    BY DEF ZeroFree
  <2>2. k - Base - 1 \in reader_offset .. end - 1
    BY <1>1, <2>1
  <2>3. reader_buffer[k - Base - 1] # 0
    BY <2>2 DEF Found, ScannedIsClear
  <2>4. reader_buffer[k - Base - 1] = received[Base + (k - Base - 1) + 1]
    BY <1>2, <2>2
  <2>5. QED
    BY <1>1, <2>1, <2>3, <2>4
<1>5. ZeroFree(received, FrameStart + 1, Base + end)
  <2>1. CASE discard = 0
    BY <1>1, <1>4, <2>1 DEF FrameStart
  <2>2. CASE discard > 0
    BY <1>1, <1>4, <2>2 DEF ReceivingFrame, ZeroFree
  <2>3. QED
    BY <2>1, <2>2
<1>6. Base + end + 1 \in FrameStart + 1 .. Len(received)
  BY <1>1 DEF ReceivingFrame, FrameStart
<1>7. ZeroFree(received, p + 1, Base + end)
  BY <1>1, <1>5, <1>6 DEF ZeroFree
<1>8. QED
  BY <1>1, <1>3, <1>6, <1>7 DEF IsFrame

(* When the scan finds no delimiter, the frame being received goes on.     *)
LEMMA NoneFoundIsClear ==
  ASSUME FramingInv, NoneFound
  PROVE  ZeroFree(received, Base + reader_offset + 1, Len(received))
<1> USE DEF FramingInv, TypeOK, RoomToRead, BufferMirrorsStream
<1>1. SUFFICES ASSUME NEW k \in Base + reader_offset + 1 .. Len(received)
               PROVE  received[k] # 0
  BY DEF ZeroFree
<1>2. Base \in Nat /\ Base + reader_filled = Len(received)
  BY DEF Base
<1>3. k - Base - 1 \in reader_offset .. reader_filled - 1
  BY <1>1, <1>2
<1>4. reader_buffer[k - Base - 1] # 0
  BY <1>3 DEF NoneFound, ScannedIsClear
<1>5. reader_buffer[k - Base - 1] = received[Base + (k - Base - 1) + 1]
  BY <1>3
<1>6. QED
  BY <1>1, <1>2, <1>4, <1>5

(* What is being received stays the one frame after the last returned and  *)
(* the oversized ones, or the rest of it, and so is what is returned.      *)
LEMMA ReceivingStep ==
  ASSUME FramingInv, [Next]_vars
  PROVE  ReceivingFrame' /\ FramesAreWhole'
<1> USE SizeAssumption DEF FramingInv, BufferSize, Slots
<1>0. PICK p \in ended .. FrameStart : BeganAt(p)
  BY DEF ReceivingFrame
<1>1. /\ p \in ended .. FrameStart /\ IsBoundary(received, p)
      /\ OnlyOversizedBetween(received, ended, p) /\ ZeroFree(received, p + 1, FrameStart)
      /\ IF torn THEN FrameStart - p > MAX_FRAME_SIZE ELSE FrameStart = p
  BY <1>0 DEF BeganAt
<1>2. /\ Base \in Nat /\ Base + reader_filled = Len(received)
      /\ FrameStart \in 0 .. Len(received) /\ p \in 0 .. Len(received) /\ p <= FrameStart
      /\ ended \in Nat /\ ended <= p
  BY <1>1 DEF Base, FrameStart, TypeOK, RoomToRead, BufferMirrorsStream, ReceivingFrame
<1>3. ASSUME UNCHANGED <<received, ended, frame, whole>>
      PROVE  FramesAreWhole'
  BY <1>3 DEF FramesAreWhole, ReturnedIsFrame, ReturnedIsRest
<1>4. ASSUME UNCHANGED <<received, ended, torn>>, FrameStart' = FrameStart,
             discard' > 0 => /\ discard' > MAX_FRAME_SIZE
                             /\ reader_offset' = 0
                             /\ ZeroFree(received, FrameStart + 1, Base')
      PROVE  ReceivingFrame'
  BY <1>0, <1>1, <1>4 DEF ReceivingFrame, BeganAt
<1>5. CASE Call
  <2>1. /\ UNCHANGED <<received, ended, frame, whole>> /\ discard' = 0
        /\ torn' = (torn \/ discard > 0) /\ Base' = Base
        /\ FrameStart' = FrameStart + discard
    BY <1>2, <1>5 DEF Call, indices, FrameStart, Base, TypeOK
  <2>2. CASE discard = 0
    BY <1>3, <1>4, <1>2, <2>1, <2>2 DEF TypeOK
  <2>3. CASE discard > 0
    <3>1. /\ discard > MAX_FRAME_SIZE /\ reader_offset = 0 /\ discard \in Nat
          /\ ZeroFree(received, FrameStart + 1, Base)
      BY <2>3 DEF ReceivingFrame, TypeOK
    <3>2. FrameStart' = Base
      BY <1>2, <2>1, <3>1 DEF FrameStart
    <3>3. ZeroFree(received, p + 1, Base)
      BY <1>1, <1>2, <3>1 DEF ZeroFree
    <3>4. p \in ended .. FrameStart' /\ FrameStart' - p > MAX_FRAME_SIZE
      BY <1>2, <2>1, <3>1
    <3>5. torn'
      BY <2>1, <2>3
    <3>6. ReceivingFrame'
      BY <1>1, <2>1, <3>2, <3>3, <3>4, <3>5 DEF ReceivingFrame, BeganAt
    <3>7. QED
      BY <1>3, <2>1, <3>6
  <2>4. QED
    BY <2>2, <2>3 DEF TypeOK
<1>6. CASE ReturnFrame
  <2>1. PICK end \in reader_search .. reader_filled - 1 :
          /\ Found(end) /\ Consume(end)
          /\ frame' = [i \in 1 .. end - reader_offset |-> reader_buffer[reader_offset + i - 1]]
          /\ ended' = Base + end + 1
    BY <1>6 DEF ReturnFrame
  <2> DEFINE c == Base + end + 1
  <2>2. end \in Nat /\ reader_offset <= end /\ discard = 0 /\ FrameStart = Base + reader_offset
    BY <1>6, <1>2, <2>1 DEF ReturnFrame, TypeOK, RoomToRead, FrameStart
  <2>3. c \in FrameStart + 1 .. Len(received) /\ IsFrame(received, p, c)
    BY <1>0, <1>6, <2>1, FoundEndsFrame DEF ReturnFrame
  <2>4. /\ received' = received /\ FrameStart' = c /\ ended' = c /\ discard' = 0
        /\ ~torn' /\ whole' = ~torn
    <3>1. UNCHANGED <<received, reader_filled, discard>> /\ ~torn' /\ whole' = ~torn
      BY <1>6 DEF ReturnFrame
    <3>2. reader_offset' = end + 1 /\ ended' = Base + end + 1
      BY <2>1 DEF Consume
    <3>3. FrameStart' = Base + (end + 1) - 0
      BY <2>2, <3>1, <3>2 DEF FrameStart, Base
    <3>4. QED
      BY <1>2, <2>2, <3>1, <3>2, <3>3
  <2>5. ReceivingFrame'
    <3>1. c \in Nat /\ IsBoundary(received, c) /\ c \in c .. c
      BY <1>2, <2>2, <2>3 DEF IsFrame, IsBoundary
    <3>2. OnlyOversizedBetween(received, c, c) /\ ZeroFree(received, c + 1, c)
      BY <3>1 DEF OnlyOversizedBetween, ZeroFree
    <3>3. PICK d : d = c
      OBVIOUS
    <3>4. d \in ended' .. FrameStart' /\ BeganAt(d)'
      BY <2>4, <3>1, <3>2, <3>3 DEF BeganAt
    <3>5. QED
      BY <2>4, <3>4 DEF ReceivingFrame
  <2>6. frame' = Content(received, FrameStart, c)
    <3>1. \A i \in 1 .. end - reader_offset :
            reader_buffer[reader_offset + i - 1] = received[i + (FrameStart + 1) - 1]
      BY <1>2, <2>1, <2>2 DEF BufferMirrorsStream, TypeOK
    <3>2. Content(received, FrameStart, c)
            = [i \in 1 .. end - reader_offset |-> received[i + (FrameStart + 1) - 1]]
      BY <1>2, <2>2, <2>3 DEF Content, TypeOK
    <3>3. QED
      BY <2>1, <3>1, <3>2
  <2>7. FrameSize(FrameStart, c) <= MAX_FRAME_SIZE
    BY <1>2, <2>1, <2>2 DEF FrameSize, TypeOK
  <2>8. p \in 0 .. ended' - 1
    BY <1>2, <2>2, <2>3, <2>4 DEF TypeOK
  <2>9. ASSUME ~torn PROVE ReturnedIsFrame'
    <3>1. p = FrameStart
      BY <1>1, <2>9
    <3>2. QED
      BY <2>3, <2>4, <2>6, <2>7, <2>8, <3>1 DEF ReturnedIsFrame
  <2>10. ASSUME torn PROVE ReturnedIsRest'
    <3>1. Len(frame') = end - reader_offset /\ c - Len(frame') - 1 = FrameStart
      <4>1. end - reader_offset \in Nat /\ reader_offset \in Nat
        BY <2>2 DEF TypeOK
      <4>2. Len(frame') = end - reader_offset
        BY <2>1, <4>1
      <4>3. QED
        BY <1>2, <2>2, <4>1, <4>2
    <3>2. FrameSize(p, c) > MAX_FRAME_SIZE + Len(frame')
      BY <1>1, <1>2, <2>2, <2>10, <3>1 DEF FrameSize
    <3>3. QED
      BY <2>3, <2>4, <2>6, <2>8, <3>1, <3>2 DEF ReturnedIsRest
  <2>11. QED
    BY <2>4, <2>5, <2>9, <2>10 DEF FramesAreWhole
<1>7. CASE DropFrame
  <2>1. PICK end \in reader_search .. reader_filled - 1 : Found(end) /\ Consume(end)
    BY <1>7 DEF DropFrame
  <2> DEFINE c == Base + end + 1
  <2>2. end \in Nat /\ discard > MAX_FRAME_SIZE /\ reader_offset = 0
    BY <1>1, <1>7, <2>1 DEF DropFrame, ReceivingFrame, TypeOK
  <2>3. c \in FrameStart + 1 .. Len(received) /\ IsFrame(received, p, c)
    BY <1>0, <1>7, <2>1, FoundEndsFrame DEF DropFrame
  <2>4. FrameSize(p, c) > MAX_FRAME_SIZE
    BY <1>2, <2>2 DEF FrameSize, FrameStart, TypeOK
  <2>5. /\ UNCHANGED <<received, ended, frame, whole>>
        /\ FrameStart' = c /\ discard' = 0 /\ ~torn'
    <3>1. UNCHANGED <<received, reader_filled, ended, frame, whole>> /\ discard' = 0 /\ ~torn'
      BY <1>7 DEF DropFrame
    <3>2. reader_offset' = end + 1 /\ Base' = Base
      BY <2>1, <3>1 DEF Consume, Base
    <3>3. QED
      BY <1>2, <2>2, <3>1, <3>2 DEF FrameStart
  <2>6. ended \in 0 .. Len(received) /\ ended <= p /\ ended <= c /\ c \in Nat
    BY <1>2, <2>3
  <2>7. c \in 0 .. Len(received) /\ received \in Seq(Byte)
    BY <1>2, <2>3 DEF TypeOK
  <2>8. OnlyOversizedBetween(received, ended, c)
    BY <1>1, <1>2, <2>3, <2>4, <2>6, <2>7, OversizedExtend
  <2>9. IsBoundary(received, c) /\ ZeroFree(received, c + 1, c)
    BY <2>3, <2>6 DEF IsFrame, IsBoundary, ZeroFree
  <2>10. PICK d : d = c
    OBVIOUS
  <2>11. d \in ended' .. FrameStart' /\ BeganAt(d)'
    BY <2>5, <2>6, <2>8, <2>9, <2>10 DEF BeganAt
  <2>12. ReceivingFrame'
    BY <2>5, <2>11 DEF ReceivingFrame
  <2>13. QED
    BY <1>3, <2>5, <2>12
<1>8. CASE Compact
  <2>1. UNCHANGED <<received, ended, frame, torn, whole>> /\ FrameStart' = FrameStart /\ discard' = 0
    BY <1>2, <1>8 DEF Compact, FrameStart, Base, history, TypeOK, RoomToRead
  <2>2. QED
    BY <1>3, <1>4, <2>1
<1>9. CASE Overflow
  <2>1. /\ UNCHANGED <<received, ended, frame, torn, whole>>
        /\ FrameStart' = FrameStart /\ discard' = MAX_FRAME_SIZE + 1
        /\ reader_offset' = 0 /\ Base' = Len(received) /\ FrameStart = Base + reader_offset
    BY <1>2, <1>9
       DEF Overflow, BufferExhausted, EmptyBuffer, FrameStart, Base, history, TypeOK
  <2>2. ZeroFree(received, FrameStart + 1, Base')
    BY <1>9, <2>1, NoneFoundIsClear DEF Overflow
  <2>3. QED
    BY <1>3, <1>4, <2>1, <2>2
<1>10. CASE DropFragment
  <2>1. /\ UNCHANGED <<received, ended, frame, torn, whole>>
        /\ reader_offset = 0 /\ reader_offset' = 0
        /\ discard' = discard + reader_filled /\ Base' = Len(received)
    BY <1>1, <1>10
       DEF DropFragment, EmptyBuffer, ReceivingFrame, Base, history, TypeOK
  <2>2. FrameStart' = FrameStart /\ discard' > MAX_FRAME_SIZE
    BY <1>1, <1>2, <1>10, <2>1
       DEF DropFragment, ReceivingFrame, FrameStart, TypeOK
  <2>3. ZeroFree(received, FrameStart + 1, Base')
    <3>1. ZeroFree(received, FrameStart + 1, Base)
      BY <1>1, <1>10 DEF DropFragment, ReceivingFrame
    <3>2. ZeroFree(received, Base + 1, Len(received))
      BY <1>2, <1>10, <2>1, NoneFoundIsClear DEF DropFragment, TypeOK
    <3>3. QED
      BY <1>2, <2>1, <3>1, <3>2 DEF ZeroFree, TypeOK
  <2>4. QED
    BY <1>3, <1>4, <2>1, <2>2, <2>3
<1>11. CASE ReadBytes
  <2>1. /\ received' \in Seq(Byte) /\ Len(received) <= Len(received')
        /\ \A k \in 1 .. Len(received) : received'[k] = received[k]
        /\ Base' = Base
    <3>1. PICK n \in 1 .. BufferSize - reader_filled :
            /\ received' \in Seq(Byte)
            /\ Len(received') = Len(received) + n
            /\ \A k \in 1 .. Len(received) : received'[k] = received[k]
            /\ Base' = Base
      BY <1>11, ReadStep
    <3>2. QED
      BY <3>1 DEF TypeOK
  <2>2. UNCHANGED <<reader_offset, discard, ended, frame, torn, whole>> /\ FrameStart' = FrameStart
    BY <1>11, <2>1 DEF ReadBytes, Ingest, FrameStart
  <2>3. received \in Seq(Byte) /\ ended \in 0 .. Len(received)
    BY DEF TypeOK
  <2>4. IsBoundary(received', p) /\ OnlyOversizedBetween(received', ended, p)
    BY <1>1, <1>2, <2>1, <2>3, OversizedStaySo
  <2>5. discard > 0 => ZeroFree(received', FrameStart + 1, Base)
    BY <1>2, <2>1, <2>3 DEF ReceivingFrame, ZeroFree, TypeOK
  <2>6. ZeroFree(received', p + 1, FrameStart)
    BY <1>1, <1>2, <2>1 DEF ZeroFree
  <2>7. BeganAt(p)'
    BY <1>1, <2>2, <2>4, <2>6 DEF BeganAt
  <2>8. ReceivingFrame'
    BY <1>1, <2>1, <2>2, <2>5, <2>7 DEF ReceivingFrame
  <2>9. ASSUME whole PROVE ReturnedIsFrame'
    BY <2>1, <2>2, <2>3, <2>9, FramesStay DEF FramesAreWhole, ReturnedIsFrame
  <2>10. ASSUME ~whole PROVE ReturnedIsRest'
    <3>1. PICK r \in 0 .. ended - 1 :
            /\ IsFrame(received, r, ended)
            /\ FrameSize(r, ended) > MAX_FRAME_SIZE + Len(frame)
            /\ frame = Content(received, ended - Len(frame) - 1, ended)
      BY <2>10 DEF FramesAreWhole, ReturnedIsRest
    <3>2. IsFrame(received', r, ended)
      BY <2>1, <2>3, <3>1, FramesStay
    <3>3. /\ Len(frame) \in Nat /\ ended \in Nat /\ ended <= Len(received)
          /\ r < ended - Len(frame) - 1 /\ r \in Nat
      BY <2>3, <3>1 DEF TypeOK, FrameSize
    <3>4. PICK f : f = ended - Len(frame) - 1
      OBVIOUS
    <3>5. Content(received', f, ended) = Content(received, f, ended)
      BY <2>1, <2>3, <3>3, <3>4 DEF Content
    <3>6. QED
      BY <2>2, <3>1, <3>2, <3>4, <3>5 DEF ReturnedIsRest
  <2>11. QED
    BY <2>2, <2>8, <2>9, <2>10 DEF FramesAreWhole
<1>12. CASE ReadFails
  <2>1. UNCHANGED <<received, ended, frame, torn, whole, discard, indices>>
    BY <1>12 DEF ReadFails, history
  <2>2. FrameStart' = FrameStart /\ Base' = Base
    BY <2>1 DEF FrameStart, Base, indices
  <2>3. QED
    BY <1>3, <1>4, <2>1, <2>2 DEF ReceivingFrame, indices
<1>13. CASE UNCHANGED vars
  <2>1. UNCHANGED <<received, ended, frame, torn, whole, discard, indices>>
    BY <1>13 DEF vars, history
  <2>2. FrameStart' = FrameStart /\ Base' = Base
    BY <2>1 DEF FrameStart, Base, indices
  <2>3. QED
    BY <1>3, <1>4, <2>1, <2>2 DEF ReceivingFrame, indices
<1>14. QED
  BY <1>5, <1>6, <1>7, <1>8, <1>9, <1>10, <1>11, <1>12, <1>13 DEF Next, Scan

(* Without a retry after a failed read no discard is ever forgotten.       *)
LEMMA NoRetryStep ==
  ASSUME FramingInv, [Next]_vars, ~Retry
  PROVE  ~torn' /\ whole' /\ (pc' = "idle" => discard' = 0)
<1>1. ~torn /\ whole /\ (pc = "idle" => discard = 0) /\ discard \in Nat
  BY DEF FramingInv, TypeOK
<1>2. CASE Call
  <2>1. ~(discard > 0)
    BY <1>1, <1>2 DEF Call
  <2>2. QED
    BY <1>1, <1>2, <2>1 DEF Call
<1>3. CASE ReturnFrame
  BY <1>1, <1>3 DEF ReturnFrame
<1>4. CASE DropFrame
  BY <1>1, <1>4 DEF DropFrame
<1>5. CASE Compact \/ Overflow \/ DropFragment
  <2>1. UNCHANGED history /\ pc' = "read"
    BY <1>5, Zenon DEF Compact, Overflow, DropFragment
  <2>2. QED
    BY <1>1, <2>1 DEF history
<1>6. CASE ReadBytes
  BY <1>1, <1>6 DEF ReadBytes, Ingest
<1>7. CASE ReadFails
  BY <1>1, <1>7 DEF ReadFails, history
<1>8. CASE UNCHANGED vars
  BY <1>1, <1>8 DEF vars, history
<1>9. QED
  BY <1>2, <1>3, <1>4, <1>5, <1>6, <1>7, <1>8 DEF Next, Scan

(* FramingInv holds of every behaviour of the framer.                      *)
THEOREM FramingInvariant == Spec => []FramingInv
<1>1. Init => FramingInv
  BY InitInv
<1>2. FramingInv /\ [Next]_vars => FramingInv'
  BY TypeStep, MirrorStep, ScannedStep, ReceivingStep, NoRetryStep DEF FramingInv
<1>3. QED
  BY <1>1, <1>2, PTL DEF Spec

(* The buffer, its indices and the stream keep their types, whatever the   *)
(* size of the buffer and the chunks of the reads: no index of next_frame  *)
(* ever leaves the buffer.                                                 *)
THEOREM TypeCorrect == Spec => []TypeOK
<1>1. FramingInv => TypeOK
  BY DEF FramingInv
<1>2. QED
  BY <1>1, FramingInvariant, PTL

(* next_frame never reads into a full buffer, so that an Ok(0) always is   *)
(* the end of the stream.                                                  *)
THEOREM AlwaysRoomToRead == Spec => []RoomToRead
<1>1. FramingInv => RoomToRead
  BY DEF FramingInv
<1>2. QED
  BY <1>1, FramingInvariant, PTL

(* What next_frame returns is one whole frame of the stream that fits, or  *)
(* the rest of one whose discard a failed read cut short.                  *)
THEOREM FramesReturnedWhole == Spec => []FramesAreWhole
<1>1. FramingInv => FramesAreWhole
  BY DEF FramingInv
<1>2. QED
  BY <1>1, FramingInvariant, PTL

(* A caller that gives up on the first failed read never gets anything     *)
(* but whole frames, whatever next_frame discarded before.                 *)
THEOREM EveryFrameWhole == ASSUME ~Retry PROVE Spec => []ReturnedIsFrame
<1>1. FramingInv => ReturnedIsFrame
  BY DEF FramingInv, FramesAreWhole
<1>2. QED
  BY <1>1, FramingInvariant, PTL

(* While the framer waits for the transport, no delimiter has come in      *)
(* since the frame being received began.                                   *)
LEMMA NoDelimiterYet ==
  ASSUME FramingInv, pc = "read"
  PROVE  ZeroFree(received, FrameStart + 1, Len(received))
<1> USE DEF FramingInv, TypeOK, RoomToRead
<1>1. NoneFound
  BY DEF NoneFound, ScannedIsClear
<1>2. ZeroFree(received, Base + reader_offset + 1, Len(received))
  BY <1>1, NoneFoundIsClear
<1>3. Base \in Nat
  BY DEF Base, BufferMirrorsStream
<1>4. CASE discard = 0
  BY <1>2, <1>3, <1>4 DEF FrameStart
<1>5. CASE discard > 0
  <2>1. ZeroFree(received, FrameStart + 1, Base) /\ reader_offset = 0
    BY <1>5 DEF ReceivingFrame
  <2>2. QED
    BY <1>2, <1>3, <2>1 DEF ZeroFree
<1>6. QED
  BY <1>4, <1>5

(* next_frame never waits for the transport while it has a whole frame     *)
(* that fits, and never skips one.                                         *)
THEOREM NoFrameLeftBehind == Spec => []NothingLeftBehind
<1>1. ASSUME FramingInv, pc = "read",
             NEW p \in ended .. Len(received), NEW q \in p + 1 .. Len(received),
             IsNextFitting(received, ended, p, q)
      PROVE  FALSE
  <2>1. /\ ended \in Nat /\ Len(received) \in Nat /\ FrameStart \in Int
        /\ IsFrame(received, p, q) /\ FrameSize(p, q) <= MAX_FRAME_SIZE
    BY <1>1 DEF IsNextFitting, FramingInv, TypeOK, FrameStart, Base
  <2>2. PICK r \in ended .. FrameStart : BeganAt(r)
    BY <1>1 DEF FramingInv, ReceivingFrame
  <2>3. ~(p < r)
    BY <1>1, <2>1, <2>2, SizeAssumption DEF BeganAt, OnlyOversizedBetween, FrameSize
  <2>4. ZeroFree(received, r + 1, Len(received))
    BY <1>1, <2>1, <2>2, NoDelimiterYet DEF BeganAt, ZeroFree
  <2>5. q \in r + 1 .. Len(received)
    BY <1>1, <2>1, <2>2, <2>3
  <2>6. QED
    BY <2>1, <2>4, <2>5 DEF IsFrame, ZeroFree
<1>2. FramingInv => NothingLeftBehind
  BY <1>1 DEF NothingLeftBehind
<1>3. QED
  BY <1>2, FramingInvariant, PTL

(* The size logged for a discarded frame is the frame's own.               *)
THEOREM DiscardSizeExact == Spec => []DiscardIsExact
<1>1. ASSUME FramingInv, discard > 0, ~torn
      PROVE  /\ discard > MAX_FRAME_SIZE
             /\ discard <= Base
             /\ reader_offset = 0
             /\ IsBoundary(received, Base - discard)
             /\ ZeroFree(received, Base - discard + 1, Base + reader_search)
  <2> USE <1>1 DEF FramingInv, TypeOK, RoomToRead
  <2>1. ReceivingFrame /\ reader_offset = 0 /\ discard > MAX_FRAME_SIZE
    BY DEF ReceivingFrame
  <2>2. /\ Base \in Nat /\ FrameStart = Base - discard /\ discard <= Base
        /\ IsBoundary(received, FrameStart)
    BY <1>1, <2>1 DEF FrameStart, Base, BufferMirrorsStream, ReceivingFrame, BeganAt
  <2>3. ASSUME NEW k \in Base + 1 .. Base + reader_search
        PROVE  received[k] # 0
    <3>1. k - Base - 1 \in 0 .. reader_search - 1
      BY <2>2
    <3>2. reader_buffer[k - Base - 1] # 0
      BY <2>1, <3>1 DEF ScannedIsClear
    <3>3. reader_buffer[k - Base - 1] = received[Base + (k - Base - 1) + 1]
      BY <3>1 DEF BufferMirrorsStream
    <3>4. QED
      BY <2>2, <3>2, <3>3
  <2>4. ZeroFree(received, Base - discard + 1, Base + reader_search)
    BY <2>1, <2>2, <2>3 DEF ReceivingFrame, ZeroFree
  <2>5. QED
    BY <2>1, <2>2, <2>4
<1>2. FramingInv => DiscardIsExact
  BY <1>1 DEF DiscardIsExact
<1>3. QED
  BY <1>2, FramingInvariant, PTL

-----------------------------------------------------------------------------
(* The refinement: without retries after a failed read, next_frame hands   *)
(* out the frames FrameStream promises.                                    *)

(* Appending bytes is a step of the abstract stream.                       *)
LEMMA ReadIsArrive ==
  ASSUME FramingInv, ReadBytes
  PROVE  Stream!Arrive
<1>1. PICK n \in 1 .. BufferSize - reader_filled :
        /\ received' \in Seq(Byte)
        /\ Len(received') = Len(received) + n
        /\ \A k \in 1 .. Len(received) : received'[k] = received[k]
  BY ReadStep DEF FramingInv
<1>2. Len(received') > Len(received)
  BY <1>1 DEF FramingInv, TypeOK
<1>3. QED
  BY <1>1, <1>2 DEF ReadBytes, Ingest, Stream!Arrive

(* Returning a frame is handing out the next one that fits.                *)
LEMMA ReturnIsDeliver ==
  ASSUME FramingInv, ~torn, ReturnFrame
  PROVE  Stream!Deliver
<1> USE SizeAssumption DEF FramingInv, BufferSize, Slots
<1>1. PICK end \in reader_search .. reader_filled - 1 :
        /\ Found(end) /\ Consume(end)
        /\ frame' = [i \in 1 .. end - reader_offset |-> reader_buffer[reader_offset + i - 1]]
        /\ ended' = Base + end + 1
  BY DEF ReturnFrame
<1> DEFINE c == Base + end + 1
<1>2. end \in Nat /\ reader_offset <= end /\ discard = 0 /\ FrameStart = Base + reader_offset
  BY <1>1 DEF ReturnFrame, TypeOK, RoomToRead, FrameStart, Base
<1>0. BeganAt(FrameStart)
  BY DEF ReceivingFrame, BeganAt
<1>3. /\ FrameStart \in 0 .. Len(received)
      /\ c \in FrameStart + 1 .. Len(received)
      /\ IsFrame(received, FrameStart, c)
  BY <1>0, <1>1, FoundEndsFrame DEF ReturnFrame
<1>4. Base \in Nat /\ FrameSize(FrameStart, c) <= MAX_FRAME_SIZE
  BY <1>1, <1>2 DEF FrameSize, TypeOK, RoomToRead, Base, BufferMirrorsStream
<1>5. frame' = Content(received, FrameStart, c)
  <2>1. \A i \in 1 .. end - reader_offset :
          reader_buffer[reader_offset + i - 1] = received[i + (FrameStart + 1) - 1]
    BY <1>1, <1>2, <1>4 DEF BufferMirrorsStream, TypeOK
  <2>2. Content(received, FrameStart, c)
          = [i \in 1 .. end - reader_offset |-> received[i + (FrameStart + 1) - 1]]
    BY <1>2, <1>3, <1>4 DEF Content, TypeOK
  <2>3. QED
    BY <1>1, <2>1, <2>2
<1>6. FrameStart \in ended .. Len(received) /\ OnlyOversizedBetween(received, ended, FrameStart)
  BY <1>0, <1>3 DEF BeganAt, TypeOK
<1>7. IsNextFitting(received, ended, FrameStart, c)
  BY <1>3, <1>4, <1>6 DEF IsNextFitting
<1>8. Stream!IsNextFitting(received, ended, FrameStart, c)
        /\ Stream!Content(received, FrameStart, c) = Content(received, FrameStart, c)
  BY <1>7
     DEF IsNextFitting, IsFrame, IsBoundary, ZeroFree, FrameSize, OnlyOversizedBetween, Content,
         Stream!IsNextFitting, Stream!IsFrame, Stream!IsBoundary, Stream!ZeroFree,
         Stream!FrameSize, Stream!OnlyOversizedBetween, Stream!Content
<1>9. received' = received /\ ended' = c
  BY <1>1 DEF ReturnFrame
<1>10. QED
  BY <1>3, <1>5, <1>6, <1>8, <1>9 DEF Stream!Deliver

(* Every behaviour of the framer is one of the abstract stream: the frames *)
(* that fit, each once, in the order of the stream.                        *)
THEOREM RefinesStream == ASSUME ~Retry PROVE Spec => Stream!Spec
<1>1. Init => Stream!Init
  BY DEF Init, Stream!Init
<1>2. FramingInv /\ [Next]_vars => [Stream!Next]_(Stream!vars)
  <2> SUFFICES ASSUME FramingInv, [Next]_vars
               PROVE  [Stream!Next]_(Stream!vars)
    OBVIOUS
  <2>1. ~torn
    BY DEF FramingInv
  <2>2. CASE ReadBytes
    BY <2>2, ReadIsArrive DEF Stream!Next
  <2>3. CASE ReturnFrame
    BY <2>1, <2>3, ReturnIsDeliver DEF Stream!Next
  <2>4. CASE UNCHANGED <<received, ended, frame>>
    BY <2>4 DEF Stream!vars
  <2>5. QED
    BY <2>2, <2>3, <2>4
       DEF Next, Scan, Call, DropFrame, Compact, Overflow, DropFragment, ReadFails, vars, history
<1>3. QED
  BY <1>1, <1>2, FramingInvariant, PTL DEF Spec, Stream!Spec

=============================================================================
