---------------------------- MODULE PacketsProofs ---------------------------
(***************************************************************************)
(* What next_packet returns of bytes written as one packet is that packet, *)
(* and the direction is what Link takes a stream to be, for every COBS     *)
(* with RoundTripAssumption, every frame size, every way of failing writes *)
(* and of cutting the stream into reads.                                   *)
(***************************************************************************)
EXTENDS Packets, FramingProofs, WellFoundedInduction

-----------------------------------------------------------------------------
(* A stretch of a stream as a sequence of its own.                         *)
LEMMA Slice ==
  ASSUME NEW S, NEW s \in Seq(S), NEW a \in Nat, NEW n \in Nat, a + n <= Len(s)
  PROVE  /\ SubSeq(s, a + 1, a + n) \in Seq(S)
         /\ Len(SubSeq(s, a + 1, a + n)) = n
         /\ \A k \in 1 .. n : SubSeq(s, a + 1, a + n)[k] = s[a + k]
<1>1. \A i \in a + 1 .. a + n : s[i] \in S
  OBVIOUS
<1>2. a + 1 \in Int /\ a + n \in Int
  OBVIOUS
<1>3. /\ SubSeq(s, a + 1, a + n) \in Seq(S)
      /\ Len(SubSeq(s, a + 1, a + n)) = IF a + 1 <= a + n THEN a + n - (a + 1) + 1 ELSE 0
      /\ \A i \in 1 .. a + n - (a + 1) + 1 :
           SubSeq(s, a + 1, a + n)[i] = s[a + 1 + i - 1]
  BY <1>1, <1>2, SubSeqProperties
<1>4. QED
  BY <1>3

(* The receiver's steps are steps of the framer.                           *)
LEMMA FramerSteps ==
  ASSUME PacketsInv, [PacketNext]_packetVars
  PROVE  [Next]_vars
<1>1. CASE NextPacket
  BY <1>1 DEF NextPacket, Next, Scan
<1>2. CASE KeepReading
  BY <1>2 DEF KeepReading, Next, Scan
<1>3. CASE ReadError
  BY <1>3 DEF ReadError, Next
<1>4. CASE ReadSent
  <2>1. PICK n \in 1 .. BufferSize - reader_filled :
          /\ Len(received) + n <= Len(sent)
          /\ Ingest(SubSeq(sent, Len(received) + 1, Len(received) + n))
    BY <1>4 DEF ReadSent
  <2> DEFINE chunk == SubSeq(sent, Len(received) + 1, Len(received) + n)
  <2>2. /\ n \in Nat /\ Len(received) \in Nat
        /\ sent \in Seq(Byte) /\ Len(sent) \in Nat /\ Len(sent) <= MaxStream
    <3>1. reader_filled \in Nat /\ received \in Seq(Byte)
      BY SizeAssumption DEF PacketsInv, FramingInv, TypeOK, BufferSize
    <3>2. n \in Nat
      BY <2>1, <3>1, SizeAssumption DEF BufferSize
    <3>3. QED
      BY <3>1, <3>2 DEF PacketsInv
  <2>3. chunk \in Seq(Byte) /\ Len(chunk) = n
    BY <2>1, <2>2, Slice
  <2>4. chunk \in [1 .. n -> Byte]
    BY <2>3, LenProperties
  <2>5. Len(received) + n <= MaxStream
    BY <2>1, <2>2, BoundAssumption
  <2>6. ReadBytes
    BY <1>4, <2>1, <2>4, <2>5 DEF ReadSent, ReadBytes
  <2>7. QED
    BY <2>6 DEF Next
<1>5. CASE \E packet \in Payload : \E n \in 1 .. MAX_FRAME_SIZE + 1 : SendPacket(packet, n)
  <2>1. UNCHANGED vars
    BY <1>5 DEF SendPacket, Transmit
  <2>2. QED
    BY <2>1
<1>6. CASE \E n \in 1 .. 2 : SendReset(n)
  BY <1>6 DEF SendReset, Transmit
<1>7. CASE UNCHANGED packetVars
  BY <1>7 DEF packetVars
<1>8. QED
  BY <1>1, <1>2, <1>3, <1>4, <1>5, <1>6, <1>7 DEF PacketNext

LEMMA FramerKeepsInv ==
  ASSUME PacketsInv, [PacketNext]_packetVars
  PROVE  FramingInv /\ FramingInv'
<1>1. FramingInv /\ [Next]_vars
  BY FramerSteps DEF PacketsInv
<1>2. QED
  BY <1>1, TypeStep, MirrorStep, ScannedStep, ReceivingStep, NoRetryStep DEF FramingInv

-----------------------------------------------------------------------------
(* What a write adds to the stream.                                        *)

(* Nothing written is taken back, and what is new comes after it.          *)
Extends(s, w, t, v) ==
  /\ Len(s) <= Len(t)
  /\ \A k \in 1 .. Len(s) : t[k] = s[k]
  /\ Len(w) <= Len(v)
  /\ \A i \in 1 .. Len(w) : v[i] = w[i]
  /\ \A i \in Len(w) + 1 .. Len(v) : v[i].to > Len(s)

LEMMA PieceFacts ==
  ASSUME NEW s, NEW w, NEW i
  PROVE  IsPiece(s, w, i) <=>
           /\ From(w, i) < w[i].to /\ w[i].to <= Len(s)
           /\ w[i].kind = "delim" => From(w, i) = w[i].to - 1 /\ s[w[i].to] = 0
           /\ w[i].kind # "delim" => \A k \in From(w, i) + 1 .. w[i].to : s[k] # 0
           /\ w[i].kind = "body" =>
                /\ w[i].packet \in Payload
                /\ Len(Encode(w[i].packet)) = w[i].to - From(w, i)
                /\ \A k \in 1 .. Len(Encode(w[i].packet)) :
                     s[From(w, i) + k] = Encode(w[i].packet)[k]
  BY DEF IsPiece, ZeroFree

LEMMA OneMore ==
  ASSUME NEW s \in Seq(Byte), NEW w \in Seq(PieceSet), InPieces(s, w),
         NEW bytes \in Seq(Byte), bytes # <<>>,
         NEW piece \in PieceSet, piece.to = Len(s) + Len(bytes),
         piece.kind = "delim" => Len(bytes) = 1 /\ bytes[1] = 0,
         piece.kind # "delim" => \A k \in 1 .. Len(bytes) : bytes[k] # 0,
         piece.kind = "body" => piece.packet \in Payload /\ bytes = Encode(piece.packet),
         NEW t, t = s \o bytes, NEW v, v = Append(w, piece)
  PROVE  t \in Seq(Byte) /\ v \in Seq(PieceSet) /\ InPieces(t, v) /\ Extends(s, w, t, v)
<1>1. /\ t \in Seq(Byte) /\ Len(t) = Len(s) + Len(bytes)
      /\ \A k \in 1 .. Len(s) + Len(bytes) :
           t[k] = IF k <= Len(s) THEN s[k] ELSE bytes[k - Len(s)]
  BY ConcatProperties
<1>2. Len(s) \in Nat /\ Len(bytes) \in Nat /\ Len(w) \in Nat
  OBVIOUS
<1>3. /\ v \in Seq(PieceSet) /\ Len(v) = Len(w) + 1
      /\ \A i \in 1 .. Len(w) : v[i] = w[i]
      /\ v[Len(w) + 1] = piece
  BY AppendProperties
<1>n. PICK n \in Nat : n = Len(w)
  BY <1>2
<1>5. From(v, n + 1) = Len(s)
  <2>1. CASE n = 0
    BY <1>n, <2>1 DEF From, InPieces
  <2>2. CASE n > 0
    <3>1. From(w, n + 1) = w[n].to /\ From(w, n + 1) = Len(s)
      BY <1>n, <2>2 DEF From, InPieces
    <3>2. From(v, n + 1) = v[n].to
      BY <1>n, <2>2 DEF From
    <3>3. v[n] = w[n]
      BY <1>n, <1>3, <2>2
    <3>4. QED
      BY <3>1, <3>2, <3>3
  <2>3. QED
    BY <1>n, <2>1, <2>2
<1>6. \A i \in 1 .. Len(v) : IsPiece(t, v, i)
  <2>1. SUFFICES ASSUME NEW i \in 1 .. Len(v)
                 PROVE  IsPiece(t, v, i)
    OBVIOUS
  <2>2. CASE i <= Len(w)
    <3>1. i \in DOMAIN w /\ i \in Nat
      BY <1>2, <1>3, <2>2 DEF InPieces
    <3>2. IsPiece(s, w, i)
      BY <3>1 DEF InPieces
    <3>3. From(v, i) = From(w, i) /\ v[i] = w[i] /\ w[i] \in PieceSet
      <4>1. i \in 1 .. Len(w)
        BY <1>2, <2>2, <3>1
      <4>2. v[i] = w[i] /\ w[i] \in PieceSet
        BY <1>3, <4>1 DEF InPieces
      <4>3. i # 1 => i - 1 \in 1 .. Len(w)
        BY <1>2, <4>1
      <4>4. From(v, i) = From(w, i)
        BY <1>3, <4>3 DEF From
      <4>5. QED
        BY <4>2, <4>4
    <3>4. From(w, i) \in Nat /\ w[i].to \in Nat
      <4>1. CASE i = 1
        BY <3>3, <4>1 DEF From, PieceSet
      <4>2. CASE i # 1
        <5>1. i - 1 \in 1 .. Len(w) /\ w \in Seq(PieceSet)
          BY <1>2, <2>2, <4>2 DEF InPieces
        <5>2. w[i - 1] \in PieceSet
          BY <5>1
        <5>3. QED
          BY <3>3, <4>2, <5>2 DEF From, PieceSet
      <4>3. QED
        BY <4>1, <4>2
    <3>5. \A k \in 1 .. Len(s) : t[k] = s[k]
      BY <1>1, <1>2
    <3>6. w[i].to <= Len(s)
      BY <3>2, PieceFacts
    <3>7. \A k \in From(w, i) + 1 .. w[i].to : k \in 1 .. Len(s) /\ t[k] = s[k]
      BY <1>2, <3>4, <3>5, <3>6
    <3>8. w[i].to \in 1 .. Len(s)
      BY <1>2, <3>2, <3>4, <3>6, PieceFacts
    <3>9. w[i].kind = "body" =>
            \A k \in 1 .. Len(Encode(w[i].packet)) : t[From(w, i) + k] = s[From(w, i) + k]
      <4>1. SUFFICES ASSUME w[i].kind = "body",
                            NEW k \in 1 .. Len(Encode(w[i].packet))
                     PROVE  t[From(w, i) + k] = s[From(w, i) + k]
        OBVIOUS
      <4>2. Len(Encode(w[i].packet)) = w[i].to - From(w, i)
        BY <3>2, <4>1, PieceFacts
      <4>3. From(w, i) + k \in From(w, i) + 1 .. w[i].to
        <5>1. PICK f \in Nat, to \in Nat : f = From(w, i) /\ to = w[i].to
          BY <3>4
        <5>2. k \in 1 .. to - f
          BY <4>2, <5>1
        <5>3. f + k \in f + 1 .. to
          BY <5>2
        <5>4. QED
          BY <5>1, <5>3
      <4>4. QED
        BY <3>7, <4>3
    <3>10. w[i].to <= Len(t)
      BY <1>1, <1>2, <3>4, <3>6
    <3>11. /\ From(v, i) < v[i].to /\ v[i].to <= Len(t)
           /\ v[i].kind = "delim" => From(v, i) = v[i].to - 1 /\ t[v[i].to] = 0
           /\ v[i].kind # "delim" => \A k \in From(v, i) + 1 .. v[i].to : t[k] # 0
      BY <3>2, <3>3, <3>5, <3>7, <3>8, <3>10, PieceFacts
    <3>12. v[i].kind = "body" =>
             /\ v[i].packet \in Payload
             /\ Len(Encode(v[i].packet)) = v[i].to - From(v, i)
             /\ \A k \in 1 .. Len(Encode(v[i].packet)) :
                  t[From(v, i) + k] = Encode(v[i].packet)[k]
      <4>1. w[i].kind = "body" =>
              /\ w[i].packet \in Payload
              /\ Len(Encode(w[i].packet)) = w[i].to - From(w, i)
              /\ \A k \in 1 .. Len(Encode(w[i].packet)) :
                   s[From(w, i) + k] = Encode(w[i].packet)[k]
        BY <3>2, PieceFacts, Zenon
      <4>2. w[i].kind = "body" =>
              /\ w[i].packet \in Payload
              /\ Len(Encode(w[i].packet)) = w[i].to - From(w, i)
              /\ \A k \in 1 .. Len(Encode(w[i].packet)) :
                   t[From(w, i) + k] = Encode(w[i].packet)[k]
        BY <3>9, <4>1, Zenon
      <4>3. QED
        BY <3>3, <4>2, Zenon
    <3>13. QED
      BY <3>11, <3>12, PieceFacts
  <2>3. CASE i = Len(w) + 1
    <3>1. v[i] = piece /\ From(v, i) = Len(s)
      BY <1>n, <1>3, <1>5, <2>3
    <3>2. \A k \in 1 .. Len(bytes) : t[Len(s) + k] = bytes[k]
      <4>1. SUFFICES ASSUME NEW k \in 1 .. Len(bytes)
                     PROVE  t[Len(s) + k] = bytes[k]
        OBVIOUS
      <4>2. /\ Len(s) + k \in 1 .. Len(s) + Len(bytes)
            /\ ~(Len(s) + k <= Len(s))
            /\ Len(s) + k - Len(s) = k
        BY <1>2
      <4>3. QED
        BY <1>1, <4>2
    <3>3. Len(bytes) > 0
      BY <1>2, EmptySeq
    <3>4. piece.kind # "delim" => \A k \in Len(s) + 1 .. Len(t) : t[k] # 0
      <4>1. SUFFICES ASSUME piece.kind # "delim", NEW k \in Len(s) + 1 .. Len(t)
                     PROVE  t[k] # 0
        OBVIOUS
      <4>2. PICK j \in 1 .. Len(bytes) : k = Len(s) + j
        <5>1. k - Len(s) \in 1 .. Len(bytes) /\ k = Len(s) + (k - Len(s))
          BY <1>1, <1>2
        <5>2. QED
          BY <5>1
      <4>3. bytes[j] # 0
        BY <4>1
      <4>4. QED
        BY <3>2, <4>2, <4>3
    <3>5. piece.kind = "delim" => Len(bytes) = 1 /\ t[Len(s) + 1] = 0
      BY <3>2
    <3>6. piece.to = Len(t) /\ Len(s) < Len(t)
      BY <1>1, <1>2, <3>3
    <3>7. piece.kind = "delim" => Len(s) = piece.to - 1 /\ t[piece.to] = 0
      <4>1. SUFFICES ASSUME piece.kind = "delim"
                     PROVE  Len(s) = piece.to - 1 /\ t[piece.to] = 0
        OBVIOUS
      <4>2. Len(bytes) = 1 /\ t[Len(s) + 1] = 0
        BY <3>5, <4>1
      <4>3. piece.to = Len(s) + 1
        BY <4>2
      <4>4. QED
        BY <1>2, <4>2, <4>3
    <3>8. piece.kind = "body" =>
            /\ piece.packet \in Payload
            /\ Len(Encode(piece.packet)) = piece.to - Len(s)
            /\ \A k \in 1 .. Len(Encode(piece.packet)) :
                 t[Len(s) + k] = Encode(piece.packet)[k]
      BY <1>2, <3>2
    <3>9. /\ From(v, i) < v[i].to /\ v[i].to <= Len(t)
          /\ v[i].kind = "delim" => From(v, i) = v[i].to - 1 /\ t[v[i].to] = 0
          /\ v[i].kind # "delim" => \A k \in From(v, i) + 1 .. v[i].to : t[k] # 0
      BY <1>1, <3>1, <3>4, <3>6, <3>7
    <3>10. v[i].kind = "body" =>
             /\ v[i].packet \in Payload
             /\ Len(Encode(v[i].packet)) = v[i].to - From(v, i)
             /\ \A k \in 1 .. Len(Encode(v[i].packet)) :
                  t[From(v, i) + k] = Encode(v[i].packet)[k]
      BY <3>1, <3>8
    <3>11. QED
      BY <3>9, <3>10, PieceFacts
  <2>4. QED
    BY <1>2, <1>3, <2>1, <2>2, <2>3
<1>7. Len(t) = From(v, n + 2)
  <2>1. From(v, n + 2) = v[n + 1].to
    BY <1>n DEF From
  <2>2. QED
    BY <1>1, <1>n, <1>3, <2>1
<1>8. DOMAIN v = 1 .. Len(v)
  BY <1>3
<1>9. Len(v) + 1 = n + 2
  BY <1>3, <1>n
<1>10. InPieces(t, v)
  BY <1>6, <1>7, <1>8, <1>9 DEF InPieces
<1>11. Extends(s, w, t, v)
  <2>1. piece.to > Len(s)
    BY <1>2, EmptySeq
  <2>2. \A i \in Len(w) + 1 .. Len(v) : i = Len(w) + 1
    BY <1>2, <1>3
  <2>3. Len(s) <= Len(t) /\ \A k \in 1 .. Len(s) : t[k] = s[k]
    BY <1>1, <1>2
  <2>4. QED
    BY <1>2, <1>3, <2>1, <2>2, <2>3 DEF Extends
<1>12. QED
  BY <1>1, <1>3, <1>10, <1>11

LEMMA ExtendsTwice ==
  ASSUME NEW s \in Seq(Byte), NEW w \in Seq(PieceSet),
         NEW t \in Seq(Byte), NEW v \in Seq(PieceSet),
         NEW u \in Seq(Byte), NEW x \in Seq(PieceSet),
         Extends(s, w, t, v), Extends(t, v, u, x)
  PROVE  Extends(s, w, u, x)
<1>1. /\ Len(s) \in Nat /\ Len(t) \in Nat /\ Len(u) \in Nat
      /\ Len(w) \in Nat /\ Len(v) \in Nat /\ Len(x) \in Nat
  OBVIOUS
<1>2. ASSUME NEW i \in Len(w) + 1 .. Len(x) PROVE x[i].to > Len(s)
  <2>1. CASE i <= Len(v)
    BY <1>1, <2>1 DEF Extends
  <2>2. CASE i > Len(v)
    <3>1. x[i].to > Len(t)
      BY <1>1, <2>2 DEF Extends
    <3>2. x[i] \in PieceSet
      BY <1>1
    <3>3. QED
      BY <1>1, <3>1, <3>2 DEF Extends, PieceSet
  <2>3. QED
    BY <1>1, <2>1, <2>2
<1>3. Len(s) <= Len(u) /\ Len(w) <= Len(x)
  BY <1>1 DEF Extends
<1>4. \A k \in 1 .. Len(s) : u[k] = s[k]
  BY <1>1 DEF Extends
<1>5. \A i \in 1 .. Len(w) : x[i] = w[i]
  BY <1>1 DEF Extends
<1>6. QED
  BY <1>2, <1>3, <1>4, <1>5 DEF Extends

(* An empty write is one of a single zero.                                 *)
LEMMA DelimMore ==
  ASSUME NEW s \in Seq(Byte), NEW w \in Seq(PieceSet), InPieces(s, w),
         NEW t, t = s \o << 0 >>,
         NEW v, v = Append(w, Piece("delim", <<>>, Len(s) + 1))
  PROVE  /\ t \in Seq(Byte) /\ v \in Seq(PieceSet) /\ InPieces(t, v) /\ Extends(s, w, t, v)
         /\ Len(t) = Len(s) + 1
<1> DEFINE zero == <<0>>
           piece == Piece("delim", <<>>, Len(s) + 1)
<1>1. /\ zero \in Seq(Byte) /\ Len(zero) = 1 /\ zero[1] = 0 /\ zero # <<>>
  BY ByteAssumption
<1>2. piece \in PieceSet /\ piece.to = Len(s) + 1 /\ piece.kind = "delim"
  BY DEF Piece, PieceSet
<1>3. v = Append(w, piece) /\ t = s \o zero
  OBVIOUS
<1> HIDE DEF zero, piece
<1>4. t \in Seq(Byte) /\ v \in Seq(PieceSet) /\ InPieces(t, v) /\ Extends(s, w, t, v)
  BY <1>1, <1>2, <1>3, OneMore
<1>5. Len(t) = Len(s) + 1
  BY <1>1, <1>3, ConcatProperties
<1>6. QED
  BY <1>4, <1>5

LEMMA WritesStep ==
  ASSUME PacketsInv, [PacketNext]_packetVars
  PROVE  /\ sent' \in Seq(Byte) /\ Len(sent') <= MaxStream
         /\ writes' \in Seq(PieceSet) /\ InPieces(sent', writes')
         /\ Extends(sent, writes, sent', writes')
<1>0. /\ sent \in Seq(Byte) /\ Len(sent) <= MaxStream
      /\ writes \in Seq(PieceSet) /\ InPieces(sent, writes)
  BY DEF PacketsInv
<1>1. CASE UNCHANGED sending
  <2>1. Len(sent) \in Nat /\ Len(writes) \in Nat
    BY <1>0
  <2>2. Extends(sent, writes, sent, writes)
    BY <2>1 DEF Extends
  <2>3. QED
    BY <1>0, <1>1, <2>2 DEF sending
<1>2. CASE \E packet \in Payload : \E n \in 1 .. MAX_FRAME_SIZE + 1 : SendPacket(packet, n)
  <2>1. PICK packet \in Payload : \E n \in 1 .. MAX_FRAME_SIZE + 1 : SendPacket(packet, n)
    BY <1>2
  <2>2. PICK n \in 1 .. MAX_FRAME_SIZE + 1 : SendPacket(packet, n)
    BY <2>1
  <2> DEFINE code == Encode(packet)
             encoded == Piece("body", packet, Len(sent) + Len(code))
             body == Append(writes, encoded)
             bytes == sent \o code
             cut == Piece("cut", <<>>, Len(sent) + n)
  <2>3. /\ code \in Seq(Byte \ {0}) /\ code # <<>>
        /\ code \in Seq(Byte) /\ Len(code) \in Nat
        /\ \A k \in 1 .. Len(code) : code[k] # 0
    <3>1. code \in Seq(Byte \ {0}) /\ code # <<>>
      BY RoundTripAssumption
    <3>2. QED
      BY <3>1
  <2>4. encoded \in PieceSet /\ encoded.kind = "body" /\ encoded.packet = packet
        /\ encoded.to = Len(sent) + Len(code)
    BY <1>0, <2>3 DEF Piece, PieceSet
  <2>5. /\ bytes \in Seq(Byte) /\ body \in Seq(PieceSet) /\ InPieces(bytes, body)
        /\ Extends(sent, writes, bytes, body)
    <3> HIDE DEF encoded
    <3>1. encoded.kind # "delim"
      BY <2>4
    <3>2. code = Encode(encoded.packet) /\ encoded.packet \in Payload
      BY <2>4
    <3> HIDE DEF code
    <3>3. QED
      BY <1>0, <2>3, <2>4, <3>1, <3>2, OneMore
  <2>6. CASE /\ n = Len(code) + 1
             /\ Transmit(sent \o code \o <<0>>,
                         Append(body, Piece("delim", <<>>, Len(sent) + Len(code) + 1)))
    <3>1. Len(bytes) = Len(sent) + Len(code)
      BY <1>0, <2>3, ConcatProperties
    <3>2. sent' = bytes \o <<0>> /\ Len(sent') <= MaxStream
      BY <2>6 DEF Transmit
    <3>3. writes' = Append(body, Piece("delim", <<>>, Len(bytes) + 1))
      BY <2>6, <3>1 DEF Transmit
    <3> HIDE DEF bytes, body
    <3>4. /\ sent' \in Seq(Byte) /\ writes' \in Seq(PieceSet) /\ InPieces(sent', writes')
          /\ Extends(bytes, body, sent', writes')
      BY <2>5, <3>2, <3>3, DelimMore
    <3>5. QED
      BY <1>0, <2>5, <3>2, <3>4, ExtendsTwice
  <2>7. CASE n = Len(code) /\ Transmit(sent \o code, body)
    BY <2>5, <2>7 DEF Transmit
  <2>8. CASE /\ n \in 1 .. Len(code) - 1
             /\ Transmit(sent \o SubSeq(code, 1, n), Append(writes, cut))
    <3> DEFINE part == SubSeq(code, 1, n)
    <3>1. \A i \in 1 .. n : code[i] \in Byte \ {0}
      BY <2>3, <2>8
    <3>2. /\ part \in Seq(Byte \ {0}) /\ Len(part) = n
      BY <2>3, <2>8, <3>1, SubSeqProperties
    <3>3. part \in Seq(Byte) /\ part # <<>> /\ \A k \in 1 .. Len(part) : part[k] # 0
      BY <2>8, <3>2
    <3>4. cut \in PieceSet /\ cut.kind = "cut" /\ cut.to = Len(sent) + Len(part)
      BY <1>0, <3>2 DEF Piece, PieceSet
    <3>5. sent' = sent \o part /\ writes' = Append(writes, cut) /\ Len(sent') <= MaxStream
      BY <2>8 DEF Transmit
    <3>6. cut.kind # "delim" /\ cut.kind # "body"
      BY <3>4
    <3> HIDE DEF part, cut
    <3>7. QED
      BY <1>0, <3>3, <3>4, <3>5, <3>6, OneMore
  <2>9. QED
    BY <2>2, <2>6, <2>7, <2>8 DEF SendPacket
<1>3. CASE \E n \in 1 .. 2 : SendReset(n)
  <2> DEFINE bytes == sent \o <<0>>
             first == Append(writes, Piece("delim", <<>>, Len(sent) + 1))
  <2>1. /\ bytes \in Seq(Byte) /\ first \in Seq(PieceSet) /\ InPieces(bytes, first)
        /\ Extends(sent, writes, bytes, first) /\ Len(bytes) = Len(sent) + 1
    BY <1>0, DelimMore
  <2>2. CASE Transmit(bytes, first)
    BY <2>1, <2>2 DEF Transmit
  <2>3. CASE Transmit(bytes \o <<0>>, Append(first, Piece("delim", <<>>, Len(sent) + 2)))
    <3>1. Len(sent) + 2 = Len(bytes) + 1
      BY <1>0, <2>1
    <3>2. sent' = bytes \o <<0>> /\ Len(sent') <= MaxStream
      BY <2>3 DEF Transmit
    <3>3. writes' = Append(first, Piece("delim", <<>>, Len(bytes) + 1))
      BY <2>3, <3>1 DEF Transmit
    <3> HIDE DEF bytes, first
    <3>4. /\ sent' \in Seq(Byte) /\ writes' \in Seq(PieceSet) /\ InPieces(sent', writes')
          /\ Extends(bytes, first, sent', writes')
      BY <2>1, <3>2, <3>3, DelimMore
    <3>5. QED
      BY <1>0, <2>1, <3>2, <3>4, ExtendsTwice
  <2>4. QED
    BY <1>3, <2>2, <2>3 DEF SendReset
<1>4. QED
  BY <1>1, <1>2, <1>3
     DEF PacketNext, NextPacket, KeepReading, ReadSent, ReadError, packetVars

-----------------------------------------------------------------------------
(* Where pieces begin and end.                                             *)
LEMMA FromTo ==
  ASSUME sent \in Seq(Byte), writes \in Seq(PieceSet), InPieces(sent, writes),
         NEW i \in 1 .. Len(writes)
  PROVE  /\ i \in Nat /\ From(writes, i) \in Nat /\ writes[i].to \in 1 .. Len(sent)
         /\ From(writes, i) < writes[i].to
         /\ IsPiece(sent, writes, i)
         /\ i = 1 => From(writes, i) = 0
         /\ i # 1 => i - 1 \in 1 .. Len(writes) /\ From(writes, i) = writes[i - 1].to
<1>1. Len(writes) \in Nat /\ Len(sent) \in Nat /\ writes[i].to \in Nat /\ IsPiece(sent, writes, i)
  <2>1. writes[i] \in PieceSet /\ DOMAIN writes = 1 .. Len(writes)
    OBVIOUS
  <2>2. writes[i].to \in Nat
    BY <2>1 DEF PieceSet
  <2>3. IsPiece(sent, writes, i)
    BY <2>1 DEF InPieces
  <2>4. QED
    BY <2>2, <2>3
<1>2. CASE i = 1
  BY <1>1, <1>2, PieceFacts DEF From
<1>3. CASE i # 1
  <2>1. i - 1 \in 1 .. Len(writes)
    BY <1>1, <1>3
  <2>2. writes[i - 1] \in PieceSet
    BY <2>1
  <2>3. From(writes, i) = writes[i - 1].to /\ From(writes, i) \in Nat
    BY <1>3, <2>2 DEF From, PieceSet
  <2>4. QED
    BY <1>1, <1>3, <2>1, <2>3, PieceFacts
<1>4. QED
  BY <1>2, <1>3

(* The frame that ends with the i-th piece, by what precedes that one.     *)
LEMMA FrameIsPiece ==
  ASSUME sent \in Seq(Byte), writes \in Seq(PieceSet), InPieces(sent, writes),
         received \in Seq(Byte), SentMirrored,
         NEW i \in 1 .. Len(writes), NEW p, IsFrame(received, p, writes[i].to)
  PROVE  /\ EndsPacket(i) => /\ writes[i - 1].packet \in Payload
                             /\ Content(received, p, writes[i].to) = Encode(writes[i - 1].packet)
         /\ EndsNothing(i) <=> p = writes[i].to - 1
<1> DEFINE e == writes[i].to
<1>1. /\ p \in Nat /\ e \in Nat /\ p < e /\ e <= Len(received)
      /\ Len(received) \in Nat /\ Len(sent) \in Nat /\ Len(received) <= Len(sent)
      /\ \A k \in 1 .. Len(received) : received[k] = sent[k]
      /\ p > 0 => received[p] = 0
      /\ \A k \in p + 1 .. e - 1 : received[k] # 0
      /\ received[e] = 0
  <2>1. e \in Nat
    BY FromTo
  <2>2. QED
    BY <2>1 DEF IsFrame, IsBoundary, ZeroFree, SentMirrored
<1> HIDE DEF e
<1>2. /\ p > 0 => sent[p] = 0
      /\ \A k \in p + 1 .. e - 1 : sent[k] # 0
      /\ sent[e] = 0
  <2>1. \A k \in p + 1 .. e - 1 : k \in 1 .. Len(received)
    BY <1>1
  <2>2. p > 0 => p \in 1 .. Len(received)
    BY <1>1
  <2>3. e \in 1 .. Len(received)
    BY <1>1
  <2>4. \A k \in p + 1 .. e - 1 : sent[k] # 0
    BY <1>1, <2>1
  <2>5. QED
    BY <1>1, <2>2, <2>3, <2>4
<1>3. writes[i].kind = "delim" /\ From(writes, i) = e - 1
  <2>1. writes[i].kind # "delim" =>
          \A k \in From(writes, i) + 1 .. writes[i].to : sent[k] # 0
    BY FromTo, PieceFacts
  <2>2. writes[i].kind = "delim"
    <3>1. e \in From(writes, i) + 1 .. e
      BY <1>1, FromTo DEF e
    <3>2. QED
      BY <1>2, <2>1, <3>1 DEF e
  <2>3. QED
    BY <2>2, FromTo, PieceFacts DEF e
<1>4. ASSUME EndsPacket(i)
      PROVE  /\ writes[i - 1].packet \in Payload
             /\ Content(received, p, e) = Encode(writes[i - 1].packet)
  <2> DEFINE j == i - 1
             code == Encode(writes[j].packet)
             f == From(writes, j)
  <2>1. i # 1 /\ j \in 1 .. Len(writes) /\ writes[j].kind = "body" /\ writes[j].to = e - 1
    BY <1>3, <1>4, FromTo DEF EndsPacket
  <2> HIDE DEF j
  <2>2. /\ f \in Nat /\ f < e - 1 /\ IsPiece(sent, writes, j)
        /\ j = 1 => f = 0
        /\ j # 1 => f = writes[j - 1].to /\ j - 1 \in 1 .. Len(writes)
    BY <2>1, FromTo
  <2>3. /\ writes[j].packet \in Payload
        /\ Len(code) = e - 1 - f
        /\ \A k \in 1 .. Len(code) : sent[f + k] = code[k]
        /\ \A k \in f + 1 .. e - 1 : sent[k] # 0
    <3>1. writes[j].kind # "delim"
      BY <2>1
    <3>2. /\ writes[j].packet \in Payload
          /\ Len(code) = writes[j].to - f
          /\ \A k \in 1 .. Len(code) : sent[f + k] = code[k]
      BY <2>1, <2>2, PieceFacts, Zenon
    <3>3. \A k \in f + 1 .. writes[j].to : sent[k] # 0
      BY <2>2, <3>1, PieceFacts, Zenon
    <3>4. QED
      BY <2>1, <3>2, <3>3
  <2>4. f > 0 => sent[f] = 0
    <3>1. SUFFICES ASSUME f > 0 PROVE sent[f] = 0
      OBVIOUS
    <3>2. j # 1 /\ f = writes[j - 1].to /\ j - 1 \in 1 .. Len(writes)
      BY <2>2, <3>1
    <3>3. j - 1 = i - 2 /\ i > 2
      BY <2>1, <3>2, FromTo DEF j
    <3>4. writes[j - 1].kind = "delim"
      BY <1>4, <3>3 DEF EndsPacket
    <3>5. sent[writes[j - 1].to] = 0
      BY <3>2, <3>4, FromTo, PieceFacts
    <3>6. QED
      BY <3>2, <3>5
  <2> HIDE DEF f
  <2>5. p = f
    <3>1. ~(p < f)
      BY <1>1, <1>2, <2>2, <2>4
    <3>2. ~(p > f)
      <4>1. SUFFICES ASSUME p > f PROVE FALSE
        OBVIOUS
      <4>2. p \in f + 1 .. e - 1 /\ p > 0
        BY <1>1, <2>2, <4>1
      <4>3. QED
        BY <1>2, <2>3, <4>2
    <3>3. QED
      BY <1>1, <2>2, <3>1, <3>2
  <2>6. code \in Seq(Byte)
    <3>1. code \in Seq(Byte \ {0})
      BY <2>3, RoundTripAssumption
    <3>2. QED
      BY <3>1
  <2> HIDE DEF code
  <2>7. Content(received, p, e) = code
    <3> DEFINE n == e - 1 - p
               c == SubSeq(received, p + 1, p + n)
    <3>1. n \in Nat /\ p + n <= Len(received) /\ p + n = e - 1
      BY <1>1
    <3> HIDE DEF n
    <3>2. c \in Seq(Byte) /\ Len(c) = n /\ \A k \in 1 .. n : c[k] = received[p + k]
      BY <1>1, <3>1, Slice
    <3>3. Len(code) = n
      BY <2>3, <2>5 DEF n
    <3>4. \A k \in 1 .. n : received[p + k] = code[k]
      <4>1. SUFFICES ASSUME NEW k \in 1 .. n PROVE received[p + k] = code[k]
        OBVIOUS
      <4>2. p + k \in 1 .. Len(received)
        BY <1>1, <3>1
      <4>3. QED
        BY <1>1, <2>3, <2>5, <3>3, <4>2
    <3> HIDE DEF c
    <3>5. c = code
      BY <2>6, <3>2, <3>3, <3>4, SeqEqual
    <3>6. QED
      BY <3>1, <3>5 DEF Content, c
  <2>8. QED
    BY <2>3, <2>7 DEF j, code
<1>5. ASSUME EndsNothing(i) PROVE p = e - 1
  <2>1. CASE i = 1
    BY <1>1, <1>3, <2>1, FromTo
  <2>2. CASE i # 1
    <3>1. i - 1 \in 1 .. Len(writes) /\ writes[i - 1].to = e - 1
      BY <1>3, <2>2, FromTo
    <3>2. writes[i - 1].kind = "delim"
      BY <1>5, <2>2, FromTo DEF EndsNothing
    <3>3. sent[e - 1] = 0 /\ e - 1 \in Nat
      BY <3>1, <3>2, FromTo, PieceFacts
    <3>4. QED
      BY <1>1, <1>2, <3>3
  <2>3. QED
    BY <2>1, <2>2
<1>6. ASSUME p = e - 1 PROVE EndsNothing(i)
  <2>1. CASE i = 1
    BY <1>3, <2>1 DEF EndsNothing
  <2>2. CASE i # 1
    <3>1. i - 1 \in 1 .. Len(writes) /\ writes[i - 1].to = p
      BY <1>3, <1>6, <2>2, FromTo
    <3>2. p > 0 /\ sent[p] = 0
      <4>1. PICK j \in 1 .. Len(writes) : j = i - 1
        BY <3>1
      <4>2. writes[j].to \in 1 .. Len(sent)
        BY FromTo
      <4>3. QED
        BY <1>1, <1>2, <3>1, <4>1, <4>2
    <3>3. writes[i - 1].kind = "delim"
      <4>1. writes[i - 1].kind # "delim" =>
              \A k \in From(writes, i - 1) + 1 .. writes[i - 1].to : sent[k] # 0
        BY <3>1, FromTo, PieceFacts
      <4>2. From(writes, i - 1) \in Nat /\ From(writes, i - 1) < writes[i - 1].to
        BY <3>1, FromTo
      <4>3. QED
        BY <1>1, <3>1, <3>2, <4>1, <4>2
    <3>4. QED
      BY <1>3, <3>3 DEF EndsNothing
  <2>3. QED
    BY <2>1, <2>2
<1>7. QED
  BY <1>4, <1>5, <1>6 DEF e

-----------------------------------------------------------------------------
LEMMA MirroredStep ==
  ASSUME PacketsInv, [PacketNext]_packetVars
  PROVE  SentMirrored'
<1>1. /\ received \in Seq(Byte) /\ Len(received) \in Nat
      /\ received' \in Seq(Byte)
      /\ sent \in Seq(Byte) /\ Len(sent) \in Nat /\ SentMirrored
  BY FramerKeepsInv DEF PacketsInv, FramingInv, TypeOK
<1>2. CASE UNCHANGED received
  <2>1. Len(sent) <= Len(sent') /\ \A k \in 1 .. Len(sent) : sent'[k] = sent[k]
    BY WritesStep DEF Extends
  <2>2. Len(sent') \in Nat
    BY WritesStep
  <2>3. QED
    BY <1>1, <1>2, <2>1, <2>2 DEF SentMirrored
<1>3. CASE ReadSent
  <2>1. PICK n \in 1 .. BufferSize - reader_filled :
          /\ Len(received) + n <= Len(sent)
          /\ Ingest(SubSeq(sent, Len(received) + 1, Len(received) + n))
    BY <1>3 DEF ReadSent
  <2> DEFINE chunk == SubSeq(sent, Len(received) + 1, Len(received) + n)
  <2>2. n \in Nat
    <3>1. reader_filled \in Nat
      BY SizeAssumption DEF PacketsInv, FramingInv, TypeOK, BufferSize
    <3>2. QED
      BY <2>1, <3>1, SizeAssumption DEF BufferSize
  <2>3. /\ chunk \in Seq(Byte) /\ Len(chunk) = n
        /\ \A k \in 1 .. n : chunk[k] = sent[Len(received) + k]
    BY <1>1, <2>1, <2>2, Slice
  <2>4. received' = received \o chunk /\ sent' = sent
    BY <1>3, <2>1 DEF Ingest, ReadSent, sending
  <2> HIDE DEF chunk
  <2>5. /\ Len(received') = Len(received) + n
        /\ \A k \in 1 .. Len(received) + n :
             received'[k] = IF k <= Len(received) THEN received[k] ELSE chunk[k - Len(received)]
    BY <1>1, <2>3, <2>4, ConcatProperties
  <2>6. ASSUME NEW k \in 1 .. Len(received') PROVE received'[k] = sent[k]
    <3>1. CASE k <= Len(received)
      BY <1>1, <2>2, <2>5, <3>1 DEF SentMirrored
    <3>2. CASE k > Len(received)
      <4>1. PICK j \in 1 .. n : k = Len(received) + j
        <5>1. k - Len(received) \in 1 .. n /\ k = Len(received) + (k - Len(received))
          BY <1>1, <2>2, <2>5, <3>2
        <5>2. QED
          BY <5>1
      <4>2. received'[k] = chunk[j]
        <5>1. k - Len(received) = j /\ ~(k <= Len(received)) /\ k \in 1 .. Len(received) + n
          BY <1>1, <2>2, <2>5, <4>1
        <5>2. QED
          BY <2>5, <5>1
      <4>3. QED
        BY <2>3, <4>1, <4>2
    <3>3. QED
      BY <1>1, <2>2, <2>5, <3>1, <3>2
  <2>7. QED
    BY <2>1, <2>4, <2>5, <2>6 DEF SentMirrored
<1>4. QED
  BY <1>2, <1>3
     DEF PacketNext, SendPacket, SendReset, Transmit, NextPacket, KeepReading, ReadError,
         ReturnFrame, Call, DropFrame, Compact, Overflow, DropFragment, ReadFails,
         packetVars, vars, history

(* The outcome of a frame that was written as one packet, or as nothing.   *)
LEMMA OutcomeRight ==
  /\ \A p \in Payload : OutcomeOf(Encode(p)) = Some(p)
  /\ OutcomeOf(<<>>) = None
  /\ \A f : OutcomeOf(f) = None <=> f = <<>>
  /\ \A p \in Payload : Encode(p) # <<>>
BY RoundTripAssumption DEF OutcomeOf, Some, None, Failed, Outcome

(* A frame is empty when its delimiter follows another one.                *)
LEMMA EmptyFrame ==
  ASSUME NEW s \in Seq(Byte), NEW e \in Nat, NEW p \in 0 .. e - 1, IsFrame(s, p, e)
  PROVE  p = e - 1 <=> Content(s, p, e) = <<>>
<1>1. p \in Nat /\ p <= e - 1 /\ e <= Len(s) /\ Len(s) \in Nat
  BY DEF IsFrame
<1> DEFINE n == e - 1 - p
<1>2. n \in Nat /\ p + n <= Len(s) /\ p + n = e - 1 /\ (n = 0 <=> p = e - 1)
  BY <1>1
<1> HIDE DEF n
<1>3. SubSeq(s, p + 1, p + n) \in Seq(Byte) /\ Len(SubSeq(s, p + 1, p + n)) = n
  BY <1>1, <1>2, Slice
<1>4. Content(s, p, e) \in Seq(Byte) /\ Len(Content(s, p, e)) = n
  BY <1>2, <1>3 DEF Content
<1>5. QED
  BY <1>2, <1>4, EmptySeq

LEMMA IntactStep ==
  ASSUME PacketsInv, [PacketNext]_packetVars
  PROVE  PacketsIntact'
<1>1. CASE NextPacket
  <2>1. SUFFICES ASSUME whole', ended' > 0, NEW i \in DOMAIN writes', writes'[i].to = ended'
                 PROVE  /\ EndsPacket(i)' => outcome' = Some(writes'[i - 1].packet)
                        /\ EndsNothing(i)' <=> outcome' = None
    BY DEF PacketsIntact
  <2>2. /\ UNCHANGED <<sent, writes, received>> /\ outcome' = OutcomeOf(frame')
    BY <1>1 DEF NextPacket, ReturnFrame, sending
  <2>3. /\ sent \in Seq(Byte) /\ writes \in Seq(PieceSet) /\ InPieces(sent, writes)
        /\ received \in Seq(Byte) /\ SentMirrored
    BY DEF PacketsInv, FramingInv, TypeOK
  <2>4. i \in 1 .. Len(writes) /\ writes[i].to = ended'
    BY <2>1, <2>2, <2>3
  <2>5. PICK p \in 0 .. ended' - 1 :
          IsFrame(received, p, ended') /\ frame' = Content(received, p, ended')
    <3>1. ReturnedIsFrame'
      BY <2>1, FramerKeepsInv DEF FramingInv, FramesAreWhole
    <3>2. QED
      BY <2>1, <2>2, <3>1 DEF ReturnedIsFrame
  <2>6. /\ EndsPacket(i) => /\ writes[i - 1].packet \in Payload
                            /\ frame' = Encode(writes[i - 1].packet)
        /\ EndsNothing(i) <=> p = ended' - 1
    BY <2>3, <2>4, <2>5, FrameIsPiece
  <2>7. p = ended' - 1 <=> frame' = <<>>
    <3>1. PICK e \in Nat : e = ended'
      <4>1. writes[i].to \in 1 .. Len(sent) /\ Len(sent) \in Nat
        BY <2>3, <2>4, FromTo
      <4>2. writes[i].to \in Nat
        BY <4>1
      <4>3. QED
        BY <2>4, <4>2, Zenon
    <3>2. p \in 0 .. e - 1 /\ IsFrame(received, p, e) /\ frame' = Content(received, p, e)
      BY <2>5, <3>1
    <3>3. p = e - 1 <=> frame' = <<>>
      BY <2>3, <3>2, EmptyFrame
    <3>4. QED
      BY <3>1, <3>3, Zenon
  <2>8. EndsPacket(i)' = EndsPacket(i) /\ EndsNothing(i)' = EndsNothing(i)
    BY <2>2 DEF EndsPacket, EndsNothing
  <2>9. QED
    BY <2>2, <2>6, <2>7, <2>8, OutcomeRight
<1>2. CASE UNCHANGED <<ended, outcome, whole>>
  <2>1. SUFFICES ASSUME whole', ended' > 0, NEW i \in DOMAIN writes', writes'[i].to = ended'
                 PROVE  /\ EndsPacket(i)' => outcome' = Some(writes'[i - 1].packet)
                        /\ EndsNothing(i)' <=> outcome' = None
    BY DEF PacketsIntact
  <2>2. /\ sent \in Seq(Byte) /\ writes \in Seq(PieceSet) /\ writes' \in Seq(PieceSet)
        /\ Len(writes) \in Nat /\ Len(writes') \in Nat
        /\ Extends(sent, writes, sent', writes')
    BY WritesStep DEF PacketsInv
  <2>3. ended <= Len(sent)
    BY DEF PacketsInv, FramingInv, TypeOK, SentMirrored
  <2>4. i \in 1 .. Len(writes)
    <3>1. i \in 1 .. Len(writes') /\ ~(writes'[i].to > Len(sent))
      <4>1. ended \in Nat /\ Len(sent) \in Nat
        BY <2>2 DEF PacketsInv, FramingInv, TypeOK
      <4>2. QED
        BY <1>2, <2>1, <2>2, <2>3, <4>1
    <3>2. QED
      BY <2>2, <3>1 DEF Extends
  <2>5. /\ writes'[i] = writes[i]
        /\ i # 1 => writes'[i - 1] = writes[i - 1]
        /\ i > 2 => writes'[i - 2] = writes[i - 2]
    <3>1. \A k \in 1 .. Len(writes) : writes'[k] = writes[k]
      BY <2>2 DEF Extends
    <3>2. i # 1 => i - 1 \in 1 .. Len(writes)
      BY <2>2, <2>4
    <3>3. i > 2 => i - 2 \in 1 .. Len(writes)
      BY <2>2, <2>4
    <3>4. QED
      BY <2>4, <3>1, <3>2, <3>3, Zenon
  <2>6. (EndsPacket(i)' <=> EndsPacket(i)) /\ (EndsNothing(i)' <=> EndsNothing(i))
    <3>1. DOMAIN writes = 1 .. Len(writes) /\ DOMAIN writes' = 1 .. Len(writes')
      BY <2>2
    <3>2. i \in 1 .. Len(writes')
      BY <2>1, <3>1
    <3>3. QED
      BY <2>2, <2>4, <2>5, <3>1, <3>2 DEF EndsPacket, EndsNothing
  <2>7. /\ EndsPacket(i) => outcome = Some(writes[i - 1].packet)
        /\ EndsNothing(i) <=> outcome = None
    <3>1. whole /\ ended > 0 /\ i \in DOMAIN writes /\ writes[i].to = ended
      BY <1>2, <2>1, <2>2, <2>4, <2>5
    <3>2. PacketsIntact
      BY DEF PacketsInv
    <3>3. QED
      BY <3>1, <3>2 DEF PacketsIntact
  <2>8. EndsPacket(i) => i # 1
    BY DEF EndsPacket
  <2>9. QED
    BY <1>2, <2>5, <2>6, <2>7, <2>8
<1>3. CASE \E packet \in Payload : \E n \in 1 .. MAX_FRAME_SIZE + 1 : SendPacket(packet, n)
  BY <1>2, <1>3 DEF SendPacket, Transmit, vars, history
<1>4. CASE \E n \in 1 .. 2 : SendReset(n)
  BY <1>2, <1>4 DEF SendReset, Transmit, vars, history
<1>5. CASE KeepReading
  <2>1. UNCHANGED <<ended, outcome>>
    BY <1>5 DEF KeepReading, Call, DropFrame, Compact, Overflow, DropFragment, history
  <2>2. whole' = whole
    BY <1>5, Zenon DEF KeepReading, Call, DropFrame, Compact, Overflow, DropFragment, history
  <2>3. QED
    BY <1>2, <2>1, <2>2, Zenon
<1>6. CASE ReadSent
  BY <1>2, <1>6 DEF ReadSent, Ingest
<1>7. CASE ReadError
  BY <1>2, <1>7 DEF ReadError, ReadFails, history
<1>8. CASE UNCHANGED packetVars
  BY <1>2, <1>8 DEF packetVars, vars, history
<1>9. QED
  BY <1>1, <1>3, <1>4, <1>5, <1>6, <1>7, <1>8 DEF PacketNext

(* One more piece that fits.                                               *)
LEMMA FitMore ==
  ASSUME NEW w \in Seq(PieceSet), NEW to \in Nat, to = From(w, Len(w) + 1),
         \A i \in DOMAIN w : w[i].kind # "delim" => w[i].to - From(w, i) <= MAX_FRAME_SIZE,
         NEW piece \in PieceSet, piece.kind # "delim" => piece.to - to <= MAX_FRAME_SIZE,
         NEW v, v = Append(w, piece)
  PROVE  \A i \in DOMAIN v : v[i].kind # "delim" => v[i].to - From(v, i) <= MAX_FRAME_SIZE
<1>1. /\ v \in Seq(PieceSet) /\ Len(v) = Len(w) + 1 /\ Len(w) \in Nat
      /\ \A i \in 1 .. Len(w) : v[i] = w[i]
      /\ v[Len(w) + 1] = piece /\ DOMAIN v = 1 .. Len(v) /\ DOMAIN w = 1 .. Len(w)
  BY AppendProperties
<1>2. SUFFICES ASSUME NEW i \in 1 .. Len(v), v[i].kind # "delim"
               PROVE  v[i].to - From(v, i) <= MAX_FRAME_SIZE
  BY <1>1
<1>3. i # 1 => i - 1 \in 1 .. Len(w) /\ v[i - 1] = w[i - 1]
  BY <1>1
<1>4. From(v, i) = From(w, i)
  BY <1>3 DEF From
<1>5. CASE i \in 1 .. Len(w)
  BY <1>1, <1>2, <1>4, <1>5
<1>6. CASE i = Len(w) + 1
  BY <1>1, <1>2, <1>4, <1>6
<1>7. QED
  BY <1>1, <1>5, <1>6

LEMMA FitStep ==
  ASSUME PacketsInv, [PacketNext]_packetVars
  PROVE  PiecesFit'
<1>1. /\ sent \in Seq(Byte) /\ Len(sent) \in Nat /\ writes \in Seq(PieceSet)
      /\ Len(sent) = From(writes, Len(writes) + 1)
      /\ \A i \in DOMAIN writes :
           writes[i].kind # "delim" => writes[i].to - From(writes, i) <= MAX_FRAME_SIZE
  BY DEF PacketsInv, InPieces, PiecesFit
<1>2. CASE UNCHANGED writes
  BY <1>1, <1>2 DEF PiecesFit, From
<1>3. ASSUME NEW to \in Nat, NEW v \in Seq(PieceSet), to = From(v, Len(v) + 1),
             \A i \in DOMAIN v : v[i].kind # "delim" => v[i].to - From(v, i) <= MAX_FRAME_SIZE,
             writes' = Append(v, Piece("delim", <<>>, to + 1))
      PROVE  PiecesFit'
  <2>1. /\ Piece("delim", <<>>, to + 1) \in PieceSet
        /\ Piece("delim", <<>>, to + 1).kind = "delim"
    BY <1>3 DEF Piece, PieceSet
  <2>2. \A i \in DOMAIN writes' :
          writes'[i].kind # "delim" => writes'[i].to - From(writes', i) <= MAX_FRAME_SIZE
    BY <1>3, <2>1, FitMore
  <2>3. QED
    BY <2>2 DEF PiecesFit, From
<1>4. CASE \E packet \in Payload : \E n \in 1 .. MAX_FRAME_SIZE + 1 : SendPacket(packet, n)
  <2>1. PICK packet \in Payload, n \in 1 .. MAX_FRAME_SIZE + 1 : SendPacket(packet, n)
    BY <1>4
  <2> DEFINE size == Len(Encode(packet))
             to == Len(sent) + size
             encoded == Piece("body", packet, to)
             body == Append(writes, encoded)
             cut == Piece("cut", <<>>, Len(sent) + n)
  <2>2. size \in Nat /\ size <= MAX_FRAME_SIZE /\ to \in Nat
    <3>1. Encode(packet) \in Seq(Byte \ {0}) /\ Bound(Len(packet)) \in Nat
            /\ size <= Bound(Len(packet)) /\ Bound(Len(packet)) <= MAX_FRAME_SIZE
      BY <2>1, RoundTripAssumption DEF SendPacket, FitsFrame
    <3>2. QED
      BY <1>1, <3>1, SizeAssumption
  <2>3. \/ writes' = Append(body, Piece("delim", <<>>, to + 1))
        \/ writes' = body
        \/ n \in 1 .. size - 1 /\ writes' = Append(writes, cut)
    BY <2>1 DEF SendPacket, Transmit
  <2>4. encoded \in PieceSet /\ encoded.to = to
    BY <2>2 DEF Piece, PieceSet
  <2>5. encoded.to - Len(sent) <= MAX_FRAME_SIZE
    BY <1>1, <2>2, <2>4, SizeAssumption
  <2>6. n \in 1 .. size - 1 =>
          cut \in PieceSet /\ cut.to - Len(sent) <= MAX_FRAME_SIZE
    BY <1>1, <2>2, SizeAssumption DEF Piece, PieceSet
  <2> HIDE DEF encoded, cut
  <2>7. \A i \in DOMAIN body : body[i].kind # "delim" => body[i].to - From(body, i) <= MAX_FRAME_SIZE
    BY <1>1, <2>4, <2>5, FitMore
  <2>8. body \in Seq(PieceSet) /\ to = From(body, Len(body) + 1)
    <3>1. body \in Seq(PieceSet) /\ Len(body) = Len(writes) + 1 /\ Len(writes) \in Nat
            /\ body[Len(writes) + 1] = encoded
      BY <1>1, <2>4, AppendProperties
    <3>2. Len(body) + 1 # 1 /\ Len(body) + 1 - 1 = Len(writes) + 1
      BY <3>1
    <3>3. QED
      BY <2>4, <3>1, <3>2 DEF From
  <2>9. CASE writes' = Append(body, Piece("delim", <<>>, to + 1))
    BY <1>3, <2>2, <2>7, <2>8, <2>9
  <2>10. CASE writes' = body
    BY <2>7, <2>10 DEF PiecesFit, From
  <2>11. CASE n \in 1 .. size - 1 /\ writes' = Append(writes, cut)
    <3>1. \A i \in DOMAIN writes' :
            writes'[i].kind # "delim" => writes'[i].to - From(writes', i) <= MAX_FRAME_SIZE
      BY <1>1, <2>6, <2>11, FitMore
    <3>2. QED
      BY <3>1 DEF PiecesFit, From
  <2>12. QED
    BY <2>3, <2>9, <2>10, <2>11
<1>5. CASE \E n \in 1 .. 2 : SendReset(n)
  <2> DEFINE first == Append(writes, Piece("delim", <<>>, Len(sent) + 1))
  <2>1. \/ writes' = first
        \/ writes' = Append(first, Piece("delim", <<>>, Len(sent) + 2))
    BY <1>5 DEF SendReset, Transmit
  <2>2. CASE writes' = first
    BY <1>1, <1>3, <2>2
  <2>3. CASE writes' = Append(first, Piece("delim", <<>>, Len(sent) + 2))
    <3> DEFINE delim == Piece("delim", <<>>, Len(sent) + 1)
    <3>a. delim \in PieceSet /\ delim.kind = "delim" /\ delim.to = Len(sent) + 1
      <4>1. Len(sent) + 1 \in Nat
        BY <1>1
      <4>2. QED
        BY <4>1 DEF Piece, PieceSet
    <3>b. first = Append(writes, delim)
      OBVIOUS
    <3> HIDE DEF delim
    <3>1. PICK piece \in PieceSet : piece = delim
                                      /\ piece.kind = "delim" /\ piece.to = Len(sent) + 1
      BY <3>a
    <3>2. first = Append(writes, piece)
      BY <3>b, <3>1
    <3> HIDE DEF first
    <3>3. \A i \in DOMAIN first : first[i].kind # "delim" => first[i].to - From(first, i) <= MAX_FRAME_SIZE
      BY <1>1, <3>1, <3>2, FitMore
    <3>4. first \in Seq(PieceSet) /\ Len(first) = Len(writes) + 1 /\ Len(writes) \in Nat
            /\ first[Len(writes) + 1] = piece
      BY <1>1, <3>2, AppendProperties
    <3>5. Len(first) + 1 # 1 /\ Len(first) + 1 - 1 = Len(writes) + 1
      BY <3>4
    <3>6. From(first, Len(first) + 1) = Len(sent) + 1
      BY <3>1, <3>4, <3>5 DEF From
    <3>7. Len(sent) + 1 \in Nat /\ Len(sent) + 2 = (Len(sent) + 1) + 1
      BY <1>1
    <3>8. QED
      BY <1>3, <2>3, <3>3, <3>4, <3>6, <3>7
  <2>4. QED
    BY <2>1, <2>2, <2>3
<1>6. CASE NextPacket \/ KeepReading \/ ReadSent \/ ReadError
  BY <1>2, <1>6 DEF NextPacket, KeepReading, ReadSent, ReadError, sending
<1>7. CASE UNCHANGED packetVars
  BY <1>2, <1>7 DEF packetVars, sending
<1>8. QED
  BY <1>4, <1>5, <1>6, <1>7 DEF PacketNext

(* The inductive invariant of one direction at byte grain.                 *)
THEOREM PacketsInvariant == PacketSpec => []PacketsInv
<1>1. PacketInit => PacketsInv
  <2>1. SUFFICES ASSUME PacketInit PROVE PacketsInv
    OBVIOUS
  <2> DEFINE nothing == <<>>
  <2>2. /\ sent = nothing /\ writes = nothing /\ received = nothing /\ ended = 0
    BY <2>1 DEF PacketInit, Init
  <2>3. /\ nothing \in Seq(Byte) /\ nothing \in Seq(PieceSet) /\ Len(nothing) = 0
        /\ DOMAIN nothing = {}
    OBVIOUS
  <2> HIDE DEF nothing
  <2>4. FramingInv
    BY <2>1, InitInv DEF PacketInit
  <2>5. InPieces(sent, writes)
    BY <2>2, <2>3 DEF InPieces, From
  <2>6. PiecesFit /\ SentMirrored /\ PacketsIntact
    BY <2>2, <2>3 DEF PiecesFit, SentMirrored, PacketsIntact
  <2>7. QED
    BY <2>2, <2>3, <2>4, <2>5, <2>6, BoundAssumption DEF PacketsInv
<1>2. PacketsInv /\ [PacketNext]_packetVars => PacketsInv'
  BY FramerKeepsInv, WritesStep, FitStep, MirroredStep, IntactStep DEF PacketsInv
<1>3. QED
  BY <1>1, <1>2, PTL DEF PacketSpec

(* A packet that was written whole is what next_packet returns of it, the  *)
(* empty one included, and a reset is never made up: the property          *)
(* PacketsIntact of next_packet, send_packet and send_reset.               *)
THEOREM PacketsReturnedIntact == PacketSpec => []PacketsIntact
<1>1. PacketsInv => PacketsIntact
  BY DEF PacketsInv
<1>2. QED
  BY <1>1, PacketsInvariant, PTL

-----------------------------------------------------------------------------
(* Pieces as tokens: where a frame lies among the pieces.                  *)

(* The n-th piece is the first to end after position f.                    *)
FirstIs(w, f, n) == n \in 1 .. Len(w) + 1 /\ \A i \in 1 .. Len(w) : i >= n <=> w[i].to > f

Increasing(w) == \A i, j \in 1 .. Len(w) : i < j => w[i].to < w[j].to

(* A set of naturals has a least element.                                  *)
LEMMA LeastOf ==
  ASSUME NEW T \in SUBSET Nat, T # {}
  PROVE  \E x \in T : \A y \in T : x <= y
<1>1. IsWellFoundedOn(OpToRel(<, Nat), Nat)
  BY NatLessThanWellFounded
<1>2. PICK x \in T : \A y \in T : ~ (<<y, x>> \in OpToRel(<, Nat))
  BY <1>1, WFMin
<1>3. ASSUME NEW y \in T PROVE x <= y
  <2>1. x \in Nat /\ y \in Nat
    OBVIOUS
  <2>2. ~ (y < x)
    BY <1>2, <2>1 DEF OpToRel
  <2>3. QED
    BY <2>1, <2>2
<1>4. QED
  BY <1>3

(* A piece ends after those before it.                                     *)
LEMMA EndsIncrease ==
  ASSUME sent \in Seq(Byte), writes \in Seq(PieceSet), InPieces(sent, writes)
  PROVE  Increasing(writes)
<1>1. SUFFICES ASSUME NEW i \in 1 .. Len(writes), NEW j \in 1 .. Len(writes), i < j,
                      ~ (writes[i].to < writes[j].to)
               PROVE  FALSE
  BY DEF Increasing
<1>2. \A k \in 1 .. Len(writes) : k \in Nat /\ writes[k].to \in Nat
  BY FromTo
<1> DEFINE late == {k \in 1 .. Len(writes) : i < k /\ ~ (writes[i].to < writes[k].to)}
<1>3. late \in SUBSET Nat /\ late # {}
  BY <1>1, <1>2
<1>4. PICK k \in late : \A l \in late : k <= l
  BY <1>3, LeastOf
<1>5. k \in 1 .. Len(writes) /\ i < k /\ ~ (writes[i].to < writes[k].to)
  BY <1>4
<1>6. k # 1 /\ k \in Nat /\ i \in Nat
  BY <1>2, <1>5
<1>7. k - 1 \in 1 .. Len(writes) /\ writes[k - 1].to < writes[k].to
  BY <1>5, <1>6, FromTo
<1>8. CASE k - 1 = i
  BY <1>5, <1>7, <1>8
<1>9. CASE k - 1 # i
  <2>1. i < k - 1 /\ ~ (k <= k - 1)
    BY <1>5, <1>6, <1>9
  <2>2. k - 1 \notin late
    BY <1>4, <2>1
  <2>3. writes[i].to < writes[k - 1].to
    BY <1>7, <2>1, <2>2
  <2>4. QED
    BY <1>2, <1>5, <1>7, <2>3
<1>10. QED
  BY <1>8, <1>9

LEMMA FirstExists ==
  ASSUME NEW w \in Seq(PieceSet), Increasing(w), NEW f \in Nat
  PROVE  \E n : FirstIs(w, f, n)
<1> DEFINE after == {k \in 1 .. Len(w) + 1 : k = Len(w) + 1 \/ w[k].to > f}
<1>1. Len(w) \in Nat /\ \A i \in 1 .. Len(w) : i \in Nat /\ w[i].to \in Nat
  <2>1. \A i \in 1 .. Len(w) : w[i] \in PieceSet
    OBVIOUS
  <2>2. QED
    BY <2>1 DEF PieceSet
<1>2. after \in SUBSET Nat /\ Len(w) + 1 \in after
  BY <1>1
<1>3. PICK n \in after : \A k \in after : n <= k
  BY <1>2, LeastOf
<1>4. n \in 1 .. Len(w) + 1 /\ (n = Len(w) + 1 \/ w[n].to > f)
  BY <1>3
<1>5. ASSUME NEW i \in 1 .. Len(w) PROVE i >= n <=> w[i].to > f
  <2>1. w[i].to > f => i >= n
    <3>1. w[i].to > f => i \in after
      BY <1>1
    <3>2. QED
      BY <1>1, <1>3, <1>4, <3>1
  <2>2. ASSUME i >= n PROVE w[i].to > f
    <3>1. n \in 1 .. Len(w) /\ w[n].to > f
      BY <1>1, <1>4, <2>2
    <3>2. n = i \/ w[n].to < w[i].to
      BY <1>1, <2>2, <3>1 DEF Increasing
    <3>3. QED
      BY <1>1, <3>1, <3>2
  <2>3. QED
    BY <2>1, <2>2
<1>6. QED
  BY <1>4, <1>5 DEF FirstIs

LEMMA FirstUnique ==
  ASSUME NEW w \in Seq(PieceSet), NEW f, NEW n, FirstIs(w, f, n)
  PROVE  FirstAfter(w, f) = n
<1> DEFINE OK(m) == \A i \in DOMAIN w : i >= m <=> w[i].to > f
<1>1. DOMAIN w = 1 .. Len(w) /\ Len(w) \in Nat
  OBVIOUS
<1>2. n \in 1 .. Len(w) + 1 /\ OK(n)
  BY <1>1 DEF FirstIs
<1>3. ASSUME NEW m \in 1 .. Len(w) + 1, OK(m) PROVE m = n
  <2>1. CASE m < n
    <3>1. m \in DOMAIN w /\ m >= m /\ ~ (m >= n)
      BY <1>1, <1>2, <2>1
    <3>2. QED
      BY <1>2, <1>3, <3>1
  <2>2. CASE n < m
    <3>1. n \in DOMAIN w /\ n >= n /\ ~ (n >= m)
      BY <1>1, <1>2, <2>2
    <3>2. QED
      BY <1>2, <1>3, <3>1
  <2>3. QED
    BY <1>1, <1>2, <2>1, <2>2
<1>4. FirstAfter(w, f) = CHOOSE m \in 1 .. Len(w) + 1 : OK(m)
  BY DEF FirstAfter
<1> HIDE DEF OK
<1>5. QED
  BY <1>2, <1>3, <1>4

(* The first piece to end after f begins no later.                         *)
LEMMA FirstFrom ==
  ASSUME sent \in Seq(Byte), writes \in Seq(PieceSet), InPieces(sent, writes),
         NEW f \in Nat, NEW n, FirstIs(writes, f, n)
  PROVE  /\ n \in Nat /\ n \in 1 .. Len(writes) + 1
         /\ From(writes, n) \in Nat /\ From(writes, n) <= f
         /\ n # 1 => n - 1 \in 1 .. Len(writes) /\ From(writes, n) = writes[n - 1].to
         /\ n \in 1 .. Len(writes) => f < writes[n].to
         /\ n \notin 1 .. Len(writes) => From(writes, n) = Len(sent)
<1>1. n \in 1 .. Len(writes) + 1 /\ n \in Nat /\ Len(writes) \in Nat /\ Len(sent) \in Nat
  BY DEF FirstIs
<1>2. CASE n = 1
  BY <1>1, <1>2 DEF From, FirstIs, InPieces
<1>3. CASE n # 1
  <2>1. n - 1 \in 1 .. Len(writes) /\ ~ (n - 1 >= n)
    BY <1>1, <1>3
  <2>2. writes[n - 1].to \in Nat /\ ~ (writes[n - 1].to > f)
    <3>1. writes[n - 1].to \in 1 .. Len(sent)
      BY <2>1, FromTo
    <3>2. QED
      BY <1>1, <2>1, <3>1 DEF FirstIs
  <2>3. From(writes, n) = writes[n - 1].to
    BY <1>3 DEF From
  <2>4. n \in 1 .. Len(writes) => f < writes[n].to
    <3>1. ASSUME n \in 1 .. Len(writes) PROVE writes[n].to > f /\ writes[n].to \in Nat
      <4>1. writes[n].to \in 1 .. Len(sent)
        BY <3>1, FromTo
      <4>2. n >= n
        BY <1>1
      <4>3. QED
        BY <1>1, <3>1, <4>1, <4>2 DEF FirstIs
    <3>2. QED
      BY <3>1
  <2>5. n \notin 1 .. Len(writes) => n = Len(writes) + 1
    BY <1>1
  <2>6. QED
    BY <1>1, <2>1, <2>2, <2>3, <2>4, <2>5 DEF InPieces
<1>4. QED
  BY <1>2, <1>3

(* A zero ends a piece that is a delimiter, and lies in no other.          *)
LEMMA ZeroIsDelim ==
  ASSUME sent \in Seq(Byte), writes \in Seq(PieceSet), InPieces(sent, writes),
         NEW i \in 1 .. Len(writes), NEW e \in Nat,
         From(writes, i) < e, e <= writes[i].to, sent[e] = 0
  PROVE  writes[i].kind = "delim" /\ e = writes[i].to /\ From(writes, i) = e - 1
<1>1. /\ From(writes, i) \in Nat /\ writes[i].to \in Nat
      /\ IsPiece(sent, writes, i)
  <2>1. writes[i].to \in 1 .. Len(sent) /\ Len(sent) \in Nat
    BY FromTo
  <2>2. QED
    BY <2>1, FromTo
<1>2. writes[i].kind = "delim"
  <2>1. e \in From(writes, i) + 1 .. writes[i].to
    BY <1>1
  <2>2. QED
    BY <1>1, <2>1, PieceFacts
<1>3. QED
  BY <1>1, <1>2, PieceFacts

(* A frame of the stream begins where a piece does.                        *)
LEMMA BoundaryAtPiece ==
  ASSUME sent \in Seq(Byte), writes \in Seq(PieceSet), InPieces(sent, writes),
         NEW f \in 0 .. Len(sent), IsBoundary(sent, f),
         NEW n, FirstIs(writes, f, n)
  PROVE  /\ From(writes, n) = f
         /\ n # 1 => writes[n - 1].kind = "delim"
<1>1. f \in Nat /\ Len(sent) \in Nat
  OBVIOUS
<1>2. From(writes, n) = f
  <2>1. CASE n \notin 1 .. Len(writes)
    <3>1. From(writes, n) \in Nat /\ From(writes, n) <= f /\ From(writes, n) = Len(sent)
      BY <1>1, <2>1, FirstFrom
    <3>2. f <= Len(sent)
      OBVIOUS
    <3>3. QED
      BY <1>1, <3>1, <3>2
  <2>2. CASE n \in 1 .. Len(writes)
    <3>1. From(writes, n) \in Nat /\ From(writes, n) <= f /\ f < writes[n].to
      BY <1>1, <2>2, FirstFrom
    <3>2. SUFFICES ASSUME From(writes, n) < f PROVE FALSE
      BY <1>1, <3>1
    <3>3. sent[f] = 0
      BY <1>1, <3>1, <3>2 DEF IsBoundary
    <3>4. writes[n].to \in Nat
      BY <1>1, <2>2, FromTo
    <3>5. f = writes[n].to
      <4>1. f <= writes[n].to
        BY <1>1, <3>1, <3>4
      <4>2. QED
        BY <1>1, <2>2, <3>2, <3>3, <4>1, ZeroIsDelim
    <3>6. QED
      BY <1>1, <3>1, <3>5
  <2>3. QED
    BY <2>1, <2>2
<1>3. ASSUME n # 1 PROVE writes[n - 1].kind = "delim"
  <2>1. n - 1 \in 1 .. Len(writes) /\ writes[n - 1].to = f
    BY <1>1, <1>2, <1>3, FirstFrom
  <2>2. From(writes, n - 1) < f /\ From(writes, n - 1) \in Nat
    BY <2>1, FromTo
  <2>3. sent[f] = 0 /\ f <= writes[n - 1].to
    BY <1>1, <2>1, <2>2 DEF IsBoundary
  <2>4. QED
    BY <1>1, <2>1, <2>2, <2>3, ZeroIsDelim
<1>4. QED
  BY <1>2, <1>3

(* A frame of the stream is some pieces and the first delimiter after them.*)
LEMMA FrameInPieces ==
  ASSUME sent \in Seq(Byte), writes \in Seq(PieceSet), InPieces(sent, writes),
         NEW f, NEW e, IsFrame(sent, f, e),
         NEW n, FirstIs(writes, f, n)
  PROVE  \E m \in n .. Len(writes) :
           /\ m \in 1 .. Len(writes)
           /\ writes[m].kind = "delim" /\ writes[m].to = e /\ From(writes, m) = e - 1
           /\ \A k \in n .. m - 1 : writes[k].kind # "delim"
           /\ FirstIs(writes, e, m + 1)
<1>1. /\ f \in Nat /\ e \in Nat /\ Len(sent) \in Nat /\ f < e /\ e <= Len(sent)
      /\ sent[e] = 0 /\ \A k \in f + 1 .. e - 1 : sent[k] # 0
  BY DEF IsFrame, ZeroFree
<1>2. Increasing(writes) /\ Len(writes) \in Nat
  BY EndsIncrease
<1>3. \A i \in 1 .. Len(writes) : i \in Nat /\ writes[i].to \in Nat
  BY FromTo
<1>4. e - 1 \in Nat
  BY <1>1
<1>5. PICK m : FirstIs(writes, e - 1, m)
  BY <1>2, <1>4, FirstExists
<1>6. /\ m \in Nat /\ From(writes, m) \in Nat /\ From(writes, m) <= e - 1
      /\ m \in 1 .. Len(writes) => e - 1 < writes[m].to
      /\ m \notin 1 .. Len(writes) => From(writes, m) = Len(sent)
  BY <1>4, <1>5, FirstFrom
<1>7. m \in 1 .. Len(writes)
  BY <1>1, <1>6
<1>8. writes[m].kind = "delim" /\ e = writes[m].to /\ From(writes, m) = e - 1
  <2>1. From(writes, m) < e /\ e <= writes[m].to
    BY <1>1, <1>3, <1>6, <1>7
  <2>2. QED
    BY <1>1, <1>7, <2>1, ZeroIsDelim
<1>9. m >= n /\ n \in Nat /\ n >= 1
  <2>1. n \in Nat /\ n >= 1
    BY <1>2 DEF FirstIs
  <2>2. writes[m].to > f
    BY <1>1, <1>8
  <2>3. QED
    BY <1>7, <2>1, <2>2 DEF FirstIs
<1>10. ASSUME NEW k \in n .. m - 1 PROVE writes[k].kind # "delim"
  <2>1. k \in 1 .. Len(writes) /\ k >= n /\ ~ (k >= m) /\ k \in Nat
    BY <1>2, <1>7, <1>9
  <2>2. writes[k].to > f
    BY <2>1 DEF FirstIs
  <2>3. ~ (writes[k].to > e - 1)
    BY <1>5, <2>1 DEF FirstIs
  <2>4. writes[k].to \in f + 1 .. e - 1
    BY <1>1, <1>3, <2>1, <2>2, <2>3
  <2>5. sent[writes[k].to] # 0
    BY <1>1, <2>4
  <2>6. IsPiece(sent, writes, k)
    BY <2>1, FromTo
  <2>7. QED
    BY <2>5, <2>6, PieceFacts
<1>11. FirstIs(writes, e, m + 1)
  <2>1. ASSUME NEW i \in 1 .. Len(writes) PROVE i >= m + 1 <=> writes[i].to > e
    <3>1. i \in Nat /\ m \in Nat /\ writes[i].to \in Nat /\ writes[m].to = e
      BY <1>3, <1>7, <1>8, <2>1
    <3>2. m < i => writes[m].to < writes[i].to
      BY <1>2, <1>7, <2>1 DEF Increasing
    <3>3. i < m => writes[i].to < writes[m].to
      BY <1>2, <1>7, <2>1 DEF Increasing
    <3>4. QED
      BY <1>1, <3>1, <3>2, <3>3
  <2>2. m + 1 \in 1 .. Len(writes) + 1
    BY <1>2, <1>7
  <2>3. QED
    BY <2>1, <2>2 DEF FirstIs
<1>12. m \in n .. Len(writes)
  BY <1>2, <1>7, <1>9
<1>13. QED
  BY <1>7, <1>8, <1>10, <1>11, <1>12

-----------------------------------------------------------------------------
(* The tokens of pieces.                                                   *)
TokenSet == {Token(piece) : piece \in PieceSet}

LEMMA TokenKinds ==
  ASSUME NEW piece
  PROVE  /\ Token(piece) = TokenGrain!Delim <=> piece.kind = "delim"
         /\ piece.kind = "body" => Token(piece) = TokenGrain!Body(Message(piece.packet))
         /\ piece.kind = "cut" => Token(piece) = TokenGrain!Cut
         /\ Token(piece).kind = "body" /\ piece.kind # "delim" => piece.kind # "cut"
  BY DEF Token, Grain!Delim, Grain!Cut, Grain!Body, Grain!Empty, Grain!Junk, Grain!Sealed,
         TokenGrain!Delim, TokenGrain!Cut, TokenGrain!Body, TokenGrain!Empty,
         TokenGrain!Junk, TokenGrain!Sealed

LEMMA TokensAre ==
  ASSUME NEW w \in Seq(PieceSet), NEW n \in 1 .. Len(w) + 1
  PROVE  /\ TokensFrom(w, n) \in Seq(TokenSet)
         /\ Len(TokensFrom(w, n)) = Len(w) + 1 - n
         /\ DOMAIN TokensFrom(w, n) = 1 .. Len(w) + 1 - n
         /\ \A k \in 1 .. Len(w) + 1 - n :
              n + k - 1 \in 1 .. Len(w) /\ TokensFrom(w, n)[k] = Token(w[n + k - 1])
<1>1. PICK count \in Nat : count = Len(w) + 1 - n
  OBVIOUS
<1>2. \A k \in 1 .. count : n + k - 1 \in 1 .. Len(w)
  BY <1>1
<1>3. \A k \in 1 .. count : Token(w[n + k - 1]) \in TokenSet
  <2>1. \A i \in 1 .. Len(w) : w[i] \in PieceSet
    OBVIOUS
  <2>2. QED
    BY <1>2, <2>1 DEF TokenSet
<1>4. TokensFrom(w, n) = [k \in 1 .. count |-> Token(w[n + k - 1])]
  BY <1>1 DEF TokensFrom
<1>5. TokensFrom(w, n) \in Seq(TokenSet) /\ Len(TokensFrom(w, n)) = count
  BY <1>3, <1>4
<1>6. QED
  BY <1>1, <1>2, <1>4, <1>5

(* The tokens of a frame, and what is left after it.                       *)
LEMMA TokensRest ==
  ASSUME NEW w \in Seq(PieceSet), NEW n \in 1 .. Len(w) + 1, NEW m \in n .. Len(w),
         w[m].kind = "delim", \A k \in n .. m - 1 : w[k].kind # "delim",
         NEW d, d = m - n + 1
  PROVE  /\ d \in DOMAIN TokensFrom(w, n)
         /\ TokenGrain!IsFirstDelim(TokensFrom(w, n), d)
         /\ TokenGrain!Rest(TokensFrom(w, n)) = TokensFrom(w, m + 1)
<1> DEFINE stream == TokensFrom(w, n)
<1>0. Len(w) \in Nat /\ n \in Nat /\ n >= 1 /\ m \in Nat /\ n <= m /\ m <= Len(w)
  OBVIOUS
<1>1. /\ stream \in Seq(TokenSet) /\ Len(stream) = Len(w) + 1 - n
      /\ DOMAIN stream = 1 .. Len(w) + 1 - n
      /\ \A k \in 1 .. Len(w) + 1 - n :
           n + k - 1 \in 1 .. Len(w) /\ stream[k] = Token(w[n + k - 1])
  BY TokensAre
<1> HIDE DEF stream
<1>2. d \in Nat /\ d \in 1 .. Len(w) + 1 - n /\ n + d - 1 = m
  BY <1>0
<1>3. d \in DOMAIN stream /\ stream[d] = TokenGrain!Delim
  BY <1>1, <1>2, TokenKinds
<1>4. ASSUME NEW k \in 1 .. d - 1 PROVE stream[k] # TokenGrain!Delim
  <2>1. k \in 1 .. Len(w) + 1 - n /\ n + k - 1 \in n .. m - 1
    BY <1>0, <1>2
  <2>2. w[n + k - 1].kind # "delim"
    BY <2>1
  <2>3. QED
    BY <1>1, <2>1, <2>2, TokenKinds
<1>5. TokenGrain!IsFirstDelim(stream, d)
  BY <1>3, <1>4 DEF TokenGrain!IsFirstDelim
<1>6. ASSUME NEW e \in DOMAIN stream, TokenGrain!IsFirstDelim(stream, e) PROVE e = d
  <2>1. e \in Nat /\ e >= 1
    BY <1>0, <1>1
  <2>2. stream[e] = TokenGrain!Delim /\ \A k \in 1 .. e - 1 : stream[k] # TokenGrain!Delim
    BY <1>6 DEF TokenGrain!IsFirstDelim
  <2>3. ~ (e \in 1 .. d - 1)
    BY <1>4, <2>2
  <2>4. ~ (d \in 1 .. e - 1)
    BY <1>3, <2>2
  <2>5. QED
    BY <1>2, <2>1, <2>3, <2>4
<1>7. TokenGrain!Rest(stream) = SubSeq(stream, d + 1, Len(stream))
  <2>1. d = CHOOSE e \in DOMAIN stream : TokenGrain!IsFirstDelim(stream, e)
    BY <1>3, <1>5, <1>6
  <2>2. QED
    BY <2>1 DEF TokenGrain!Rest
<1>8. SubSeq(stream, d + 1, Len(stream)) = TokensFrom(w, m + 1)
  <2> DEFINE rest == TokensFrom(w, m + 1)
             slice == SubSeq(stream, d + 1, Len(stream))
  <2>1. m + 1 \in 1 .. Len(w) + 1
    BY <1>0
  <2>2. /\ rest \in Seq(TokenSet) /\ Len(rest) = Len(w) + 1 - (m + 1)
        /\ \A k \in 1 .. Len(w) + 1 - (m + 1) : rest[k] = Token(w[m + 1 + k - 1])
    BY <2>1, TokensAre
  <2>3. PICK r \in Nat : r = Len(w) - m
    <3>1. Len(w) - m \in Nat
      BY <1>0
    <3>2. QED
      BY <3>1
  <2>4. d + r = Len(stream) /\ Len(rest) = r
    BY <1>0, <1>1, <1>2, <2>2, <2>3
  <2>5. /\ slice \in Seq(TokenSet) /\ Len(slice) = r
        /\ \A k \in 1 .. r : slice[k] = stream[d + k]
    <3>1. d + r <= Len(stream)
      BY <1>1, <1>2, <2>3, <2>4
    <3>2. SubSeq(stream, d + 1, Len(stream)) = SubSeq(stream, d + 1, d + r)
      BY <2>4
    <3> HIDE DEF slice
    <3>3. QED
      BY <1>1, <1>2, <2>3, <3>1, <3>2, Slice DEF slice
  <2> HIDE DEF rest, slice
  <2>6. ASSUME NEW k \in 1 .. r PROVE slice[k] = rest[k]
    <3>1. d + k \in 1 .. Len(w) + 1 - n /\ n + (d + k) - 1 = m + k /\ m + 1 + k - 1 = m + k
      BY <1>0, <1>2, <2>3
    <3>2. stream[d + k] = Token(w[m + k])
      BY <1>1, <3>1
    <3>3. k \in 1 .. Len(w) + 1 - (m + 1)
      BY <1>0, <2>3
    <3>4. rest[k] = Token(w[m + k])
      BY <2>2, <3>1, <3>3
    <3>5. QED
      BY <2>5, <3>2, <3>4
  <2>7. slice = rest
    BY <2>2, <2>4, <2>5, <2>6, SeqEqual
  <2>8. QED
    BY <2>7 DEF slice, rest
<1>9. QED
  BY <1>3, <1>5, <1>7, <1>8 DEF stream

(* One more piece is one more token.                                       *)
LEMMA TokensGrow ==
  ASSUME NEW w \in Seq(PieceSet), NEW f \in Nat, NEW n, FirstIs(w, f, n),
         NEW piece \in PieceSet, piece.to > f
  PROVE  /\ Append(w, piece) \in Seq(PieceSet) /\ FirstIs(Append(w, piece), f, n)
         /\ TokensFrom(Append(w, piece), n) = TokensFrom(w, n) \o << Token(piece) >>
         /\ TokensFrom(w, n) \in Seq(TokenSet) /\ Token(piece) \in TokenSet
<1> DEFINE v == Append(w, piece)
<1>1. /\ v \in Seq(PieceSet) /\ Len(v) = Len(w) + 1 /\ Len(w) \in Nat
      /\ \A i \in 1 .. Len(w) : v[i] = w[i]
      /\ v[Len(w) + 1] = piece
  BY AppendProperties
<1> HIDE DEF v
<1>2. n \in 1 .. Len(w) + 1 /\ n \in Nat /\ n \in 1 .. Len(v) + 1
  BY <1>1 DEF FirstIs
<1>3. FirstIs(v, f, n)
  <2>1. ASSUME NEW i \in 1 .. Len(v) PROVE i >= n <=> v[i].to > f
    <3>1. CASE i \in 1 .. Len(w)
      BY <1>1, <3>1 DEF FirstIs
    <3>2. CASE i = Len(w) + 1
      BY <1>1, <1>2, <3>2
    <3>3. QED
      BY <1>1, <3>1, <3>2
  <2>2. QED
    BY <1>2, <2>1 DEF FirstIs
<1>4. Token(piece) \in TokenSet
  BY DEF TokenSet
<1> DEFINE old == TokensFrom(w, n)
           new == TokensFrom(v, n)
<1>5. /\ old \in Seq(TokenSet) /\ Len(old) = Len(w) + 1 - n
      /\ \A k \in 1 .. Len(w) + 1 - n :
           n + k - 1 \in 1 .. Len(w) /\ old[k] = Token(w[n + k - 1])
  BY <1>2, TokensAre
<1>6. /\ new \in Seq(TokenSet) /\ Len(new) = Len(v) + 1 - n
      /\ \A k \in 1 .. Len(v) + 1 - n :
           n + k - 1 \in 1 .. Len(v) /\ new[k] = Token(v[n + k - 1])
  BY <1>1, <1>2, TokensAre
<1> HIDE DEF old, new
<1>7. /\ Append(old, Token(piece)) \in Seq(TokenSet)
      /\ Len(Append(old, Token(piece))) = Len(old) + 1
      /\ \A k \in 1 .. Len(old) : Append(old, Token(piece))[k] = old[k]
      /\ Append(old, Token(piece))[Len(old) + 1] = Token(piece)
  BY <1>4, <1>5, AppendProperties
<1>8. Len(new) = Len(old) + 1
  BY <1>1, <1>2, <1>5, <1>6
<1>9. ASSUME NEW k \in 1 .. Len(new) PROVE new[k] = Append(old, Token(piece))[k]
  <2>1. CASE k \in 1 .. Len(old)
    <3>1. n + k - 1 \in 1 .. Len(w) /\ old[k] = Token(w[n + k - 1])
      BY <1>5, <2>1
    <3>2. new[k] = Token(v[n + k - 1])
      BY <1>6, <1>9
    <3>3. QED
      BY <1>1, <1>7, <2>1, <3>1, <3>2
  <2>2. CASE k = Len(old) + 1
    <3>1. n + k - 1 = Len(w) + 1
      BY <1>1, <1>2, <1>5, <2>2
    <3>2. new[k] = Token(v[n + k - 1])
      BY <1>6, <1>9
    <3>3. QED
      BY <1>1, <1>7, <2>2, <3>1, <3>2
  <2>3. QED
    BY <1>5, <1>8, <2>1, <2>2
<1>10. new = Append(old, Token(piece))
  BY <1>6, <1>7, <1>8, <1>9, SeqEqual
<1>11. new = old \o << Token(piece) >>
  BY <1>4, <1>5, <1>10, AppendIsConcat
<1>12. QED
  BY <1>1, <1>3, <1>4, <1>5, <1>11 DEF old, new, v

-----------------------------------------------------------------------------
(* The stream as Link sees it, step by step.                               *)

(* A caller that gives up after a failed read forgets no discard.          *)
LEMMA NothingTorn ==
  ASSUME FramingInv, ~Retry
  PROVE  BeganAt(FrameStart) /\ IsBoundary(received, FrameStart)
<1>1. PICK p : p \in ended .. FrameStart /\ BeganAt(p)
  BY DEF FramingInv, ReceivingFrame
<1>2. ~torn
  BY DEF FramingInv
<1>3. FrameStart = p
  BY <1>1, <1>2, Zenon DEF BeganAt
<1>4. BeganAt(FrameStart)
  BY <1>1, <1>3, Zenon
<1>5. QED
  BY <1>4 DEF BeganAt

(* The frame being received begins with a piece, after a delimiter.        *)
LEMMA StartInPieces ==
  ASSUME PacketsInv, ~Retry
  PROVE  /\ FrameStart \in Nat /\ FrameStart <= Len(received) /\ FrameStart <= Len(sent)
         /\ \E n : /\ n \in 1 .. Len(writes) + 1
                   /\ FirstIs(writes, FrameStart, n) /\ From(writes, n) = FrameStart
                   /\ n # 1 => writes[n - 1].kind = "delim"
                   /\ Tokens = TokensFrom(writes, n)
<1>1. /\ FramingInv /\ ReceivingFrame
      /\ sent \in Seq(Byte) /\ writes \in Seq(PieceSet) /\ InPieces(sent, writes) /\ SentMirrored
  BY DEF PacketsInv, FramingInv
<1>2. FrameStart \in Nat /\ FrameStart <= Len(received) /\ Len(received) \in Nat
  BY <1>1, SizeAssumption
     DEF FramingInv, TypeOK, RoomToRead, BufferMirrorsStream, ReceivingFrame, FrameStart, Base, BufferSize
<1>3. PICK f \in Nat : f = FrameStart
  BY <1>2
<1>4. Len(sent) \in Nat /\ f <= Len(received) /\ f <= Len(sent) /\ f \in 0 .. Len(sent)
  BY <1>1, <1>2, <1>3 DEF SentMirrored
<1>5. IsBoundary(sent, f)
  <2>1. ASSUME f > 0 PROVE sent[f] = 0
    <3>1. received[f] = 0
      BY <1>1, <1>3, <2>1, NothingTorn DEF IsBoundary
    <3>2. f \in 1 .. Len(received)
      BY <1>2, <1>4, <2>1
    <3>3. QED
      BY <1>1, <3>1, <3>2 DEF SentMirrored
  <2>2. QED
    BY <2>1 DEF IsBoundary
<1>6. PICK n : FirstIs(writes, f, n)
  BY <1>1, EndsIncrease, FirstExists
<1>7. FirstAfter(writes, f) = n
  BY <1>1, <1>6, FirstUnique
<1>8. From(writes, n) = f /\ (n # 1 => writes[n - 1].kind = "delim")
  BY <1>1, <1>4, <1>5, <1>6, BoundaryAtPiece
<1>9. n \in 1 .. Len(writes) + 1
  BY <1>6 DEF FirstIs
<1>10. Tokens = TokensFrom(writes, n)
  BY <1>3, <1>7 DEF Tokens
<1>11. QED
  BY <1>2, <1>3, <1>4, <1>6, <1>8, <1>9, <1>10

(* Where it begins moves when a delimiter is found, and only then.         *)
LEMMA StartStays ==
  ASSUME PacketsInv, ~Retry,
         \/ Call \/ Compact \/ Overflow \/ DropFragment \/ ReadFails
         \/ ReadSent \/ UNCHANGED vars
  PROVE  FrameStart' = FrameStart
<1>1. /\ received \in Seq(Byte) /\ Len(received) \in Nat /\ sent \in Seq(Byte)
      /\ reader_filled \in Nat /\ reader_offset \in Nat /\ discard \in Nat
      /\ discard > 0 => reader_offset = 0
      /\ pc = "idle" => discard = 0
  BY SizeAssumption DEF PacketsInv, FramingInv, TypeOK, ReceivingFrame, BufferSize
<1>2. CASE Call
  BY <1>1, <1>2 DEF Call, indices, FrameStart, Base
<1>3. CASE Compact
  BY <1>1, <1>3 DEF Compact, history, FrameStart, Base
<1>4. CASE Overflow
  <2>1. /\ received' = received /\ reader_filled' = 0 /\ reader_offset' = 0 /\ discard' = BufferSize
        /\ reader_filled = BufferSize /\ reader_offset = 0 /\ discard = 0
    BY <1>4 DEF Overflow, BufferExhausted, EmptyBuffer, history
  <2>2. BufferSize \in Nat
    BY SizeAssumption DEF BufferSize
  <2>3. QED
    BY <1>1, <2>1, <2>2 DEF FrameStart, Base
<1>5. CASE DropFragment
  <2>1. /\ received' = received /\ reader_filled' = 0 /\ reader_offset' = 0
        /\ discard' = discard + reader_filled /\ discard > 0
    BY <1>5 DEF DropFragment, EmptyBuffer, history
  <2>2. QED
    BY <1>1, <2>1 DEF FrameStart, Base
<1>6. CASE ReadFails
  BY <1>1, <1>6 DEF ReadFails, indices, history, FrameStart, Base
<1>7. CASE ReadSent
  <2>1. PICK n \in 1 .. BufferSize - reader_filled :
          /\ Len(received) + n <= Len(sent)
          /\ Ingest(SubSeq(sent, Len(received) + 1, Len(received) + n))
    BY <1>7 DEF ReadSent
  <2>2. n \in Nat
    BY <1>1, <2>1, SizeAssumption DEF BufferSize
  <2> DEFINE chunk == SubSeq(sent, Len(received) + 1, Len(received) + n)
  <2>3. chunk \in Seq(Byte) /\ Len(chunk) = n
    BY <1>1, <2>1, <2>2, Slice
  <2>4. /\ received' = received \o chunk /\ reader_filled' = reader_filled + Len(chunk)
        /\ UNCHANGED <<reader_offset, discard>>
    BY <2>1 DEF Ingest
  <2> HIDE DEF chunk
  <2>5. Len(received') = Len(received) + n
    BY <1>1, <2>3, <2>4, ConcatProperties
  <2>6. QED
    BY <1>1, <2>2, <2>3, <2>4, <2>5 DEF FrameStart, Base
<1>8. CASE UNCHANGED vars
  BY <1>8 DEF vars, indices, history, FrameStart, Base
<1>9. QED
  BY <1>2, <1>3, <1>4, <1>5, <1>6, <1>7, <1>8

(* What was returned is seen as the same packet whatever is written after. *)
LEMMA GotStays ==
  ASSUME PacketsInv, [PacketNext]_packetVars, UNCHANGED <<ended, outcome>>
  PROVE  Got' = Got
<1>1. /\ sent \in Seq(Byte) /\ writes \in Seq(PieceSet) /\ writes' \in Seq(PieceSet)
      /\ Len(writes) \in Nat /\ Len(writes') \in Nat
      /\ Extends(sent, writes, sent', writes')
      /\ DOMAIN writes = 1 .. Len(writes) /\ DOMAIN writes' = 1 .. Len(writes')
  BY WritesStep DEF PacketsInv
<1>2. ended \in Nat /\ ended <= Len(sent) /\ Len(sent) \in Nat
  BY <1>1 DEF PacketsInv, FramingInv, TypeOK, SentMirrored
<1>3. ASSUME NEW i \in 1 .. Len(writes') PROVE writes'[i].to = ended => i \in 1 .. Len(writes)
  BY <1>1, <1>2 DEF Extends
<1>4. /\ Len(writes) <= Len(writes')
      /\ \A k \in 1 .. Len(writes) : writes'[k] = writes[k]
  BY <1>1 DEF Extends
<1>5. ASSUME NEW i \in 1 .. Len(writes)
      PROVE  i \in 1 .. Len(writes') /\ (EndsPacket(i)' <=> EndsPacket(i))
  <2>1. i \in 1 .. Len(writes')
    BY <1>1, <1>4
  <2>2. i # 1 => i - 1 \in 1 .. Len(writes)
    BY <1>1
  <2>3. i > 2 => i - 2 \in 1 .. Len(writes)
    BY <1>1
  <2>4. /\ writes'[i] = writes[i]
        /\ i # 1 => writes'[i - 1] = writes[i - 1]
        /\ i > 2 => writes'[i - 2] = writes[i - 2]
    BY <1>4, <2>2, <2>3, Zenon
  <2>5. EndsPacket(i)' <=> EndsPacket(i)
    BY <1>1, <2>1, <2>4 DEF EndsPacket
  <2>6. QED
    BY <2>1, <2>5
<1>6. (\E i \in DOMAIN writes' : writes'[i].to = ended /\ EndsPacket(i)') <=>
      (\E i \in DOMAIN writes : writes[i].to = ended /\ EndsPacket(i))
  <2>1. ASSUME NEW i \in DOMAIN writes', writes'[i].to = ended, EndsPacket(i)'
        PROVE  i \in DOMAIN writes /\ writes[i].to = ended /\ EndsPacket(i)
    BY <1>1, <1>3, <1>4, <1>5, <2>1
  <2>2. ASSUME NEW i \in DOMAIN writes, writes[i].to = ended, EndsPacket(i)
        PROVE  i \in DOMAIN writes' /\ writes'[i].to = ended /\ EndsPacket(i)'
    BY <1>1, <1>4, <1>5, <2>2
  <2>3. QED
    BY <2>1, <2>2
<1>7. QED
  BY <1>6 DEF Got

LEMMA StutterStep ==
  ASSUME PacketsInv, [PacketNext]_packetVars, UNCHANGED <<writes, ended, outcome>>,
         FrameStart' = FrameStart
  PROVE  UNCHANGED TokenGrain!vars
<1>1. Got' = Got
  BY GotStays
<1>2. Tokens' = Tokens
  BY DEF Tokens
<1>3. QED
  BY <1>1, <1>2 DEF TokenGrain!vars

(* The pieces n to m of a frame of the stream, and its tokens.             *)
FrameAt(e, n, m) ==
  /\ n \in 1 .. Len(writes) /\ m \in 1 .. Len(writes) /\ n <= m
  /\ From(writes, n) = FrameStart /\ (n # 1 => writes[n - 1].kind = "delim")
  /\ writes[m].kind = "delim" /\ writes[m].to = e /\ From(writes, m) = e - 1
  /\ \A k \in n .. m - 1 : writes[k].kind # "delim"
  /\ m - n + 1 \in DOMAIN Tokens
  /\ TokenGrain!IsFirstDelim(Tokens, m - n + 1)
  /\ TokenGrain!Rest(Tokens) = TokensFrom(writes, FirstAfter(writes, e))
  /\ Tokens[1] = Token(writes[n])

LEMMA FrameTokens ==
  ASSUME PacketsInv, ~Retry, NEW e \in Nat, IsFrame(received, FrameStart, e)
  PROVE  \E n, m : FrameAt(e, n, m)
<1>1. /\ sent \in Seq(Byte) /\ writes \in Seq(PieceSet) /\ InPieces(sent, writes)
      /\ SentMirrored /\ Len(sent) \in Nat /\ Len(received) \in Nat /\ Len(writes) \in Nat
  BY DEF PacketsInv, FramingInv, TypeOK
<1>2. PICK n : /\ n \in 1 .. Len(writes) + 1
               /\ FirstIs(writes, FrameStart, n) /\ From(writes, n) = FrameStart
               /\ n # 1 => writes[n - 1].kind = "delim"
               /\ Tokens = TokensFrom(writes, n)
  BY StartInPieces
<1>3. IsFrame(sent, FrameStart, e)
  <2>1. FrameStart \in Nat /\ FrameStart <= Len(sent)
    BY StartInPieces
  <2>2. /\ e \in FrameStart + 1 .. Len(received)
        /\ FrameStart > 0 => received[FrameStart] = 0
        /\ \A k \in FrameStart + 1 .. e - 1 : received[k] # 0
        /\ received[e] = 0
    BY DEF IsFrame, IsBoundary, ZeroFree
  <2>3. Len(received) <= Len(sent) /\ \A k \in 1 .. Len(received) : received[k] = sent[k]
    BY <1>1 DEF SentMirrored
  <2>4. PICK f \in Nat : f = FrameStart
    BY <2>1
  <2>5. IsFrame(sent, f, e)
    BY <1>1, <2>1, <2>2, <2>3, <2>4 DEF IsFrame, IsBoundary, ZeroFree
  <2>6. QED
    BY <2>4, <2>5
<1>4. PICK m \in n .. Len(writes) :
        /\ m \in 1 .. Len(writes)
        /\ writes[m].kind = "delim" /\ writes[m].to = e /\ From(writes, m) = e - 1
        /\ \A k \in n .. m - 1 : writes[k].kind # "delim"
        /\ FirstIs(writes, e, m + 1)
  BY <1>1, <1>2, <1>3, FrameInPieces
<1>5. FirstAfter(writes, e) = m + 1
  BY <1>1, <1>4, FirstUnique
<1>6. /\ m - n + 1 \in DOMAIN Tokens
      /\ TokenGrain!IsFirstDelim(Tokens, m - n + 1)
      /\ TokenGrain!Rest(Tokens) = TokensFrom(writes, m + 1)
  BY <1>1, <1>2, <1>4, TokensRest
<1>7. n \in 1 .. Len(writes) /\ n <= m /\ n \in Nat
  BY <1>1, <1>2, <1>4
<1>8. Tokens[1] = Token(writes[n])
  <2>1. 1 \in 1 .. Len(writes) + 1 - n /\ n + 1 - 1 = n
    BY <1>1, <1>7
  <2>2. Tokens[1] = Token(writes[n + 1 - 1])
    BY <1>1, <1>2, <2>1, TokensAre
  <2>3. QED
    BY <2>1, <2>2
<1>9. QED
  BY <1>2, <1>4, <1>5, <1>6, <1>7, <1>8 DEF FrameAt

(* What next_packet passes over, Link drops as glued.                      *)
LEMMA DropStep ==
  ASSUME PacketsInv, [PacketNext]_packetVars, ~Retry, DropFrame, UNCHANGED <<sending, outcome>>
  PROVE  TokenGrain!Drop
<1>1. /\ FramingInv /\ ReceivingFrame /\ PiecesFit
      /\ sent \in Seq(Byte) /\ writes \in Seq(PieceSet) /\ InPieces(sent, writes)
      /\ Len(received) \in Nat /\ reader_filled \in Nat /\ reader_search \in Nat /\ discard \in Nat
      /\ DOMAIN writes = 1 .. Len(writes)
  BY SizeAssumption DEF PacketsInv, FramingInv, TypeOK, BufferSize
<1>2. PICK end \in reader_search .. reader_filled - 1 : Found(end) /\ Consume(end)
  BY DEF DropFrame
<1>3. pc = "scan" /\ discard > 0 /\ discard > MAX_FRAME_SIZE /\ reader_offset = 0
  BY <1>1 DEF DropFrame, ReceivingFrame
<1>4. /\ FrameStart \in 0 .. Len(received)
      /\ Base + end + 1 \in FrameStart + 1 .. Len(received)
      /\ IsFrame(received, FrameStart, Base + end + 1)
  BY <1>1, <1>2, <1>3, NothingTorn, FoundEndsFrame
<1>5. FrameStart' = Base + end + 1
  <2>1. /\ received' = received /\ reader_filled' = reader_filled
        /\ reader_offset' = end + 1 /\ discard' = 0
    BY <1>2 DEF DropFrame, Consume, history
  <2>2. Base \in Int /\ end \in Int
    BY <1>1, <1>2 DEF Base
  <2>3. QED
    BY <1>1, <2>1, <2>2 DEF FrameStart, Base
<1>6. PICK e \in Nat : e = Base + end + 1
  <2>1. Base + end + 1 \in Nat
    BY <1>1, <1>4
  <2>2. QED
    BY <2>1
<1>7. PICK n, m : FrameAt(e, n, m)
  BY <1>4, <1>6, FrameTokens
<1>8. e - 1 - FrameStart > MAX_FRAME_SIZE /\ FrameStart \in Nat
  <2>1. FrameStart = Base - discard /\ Base \in Int /\ end \in Nat
    BY <1>1, <1>2, <1>3 DEF FrameStart, Base
  <2>2. QED
    BY <1>1, <1>3, <1>4, <1>6, <2>1, SizeAssumption
<1>9. m - n + 1 > 2
  <2>1. n \in Nat /\ m \in Nat /\ n <= m /\ Len(writes) \in Nat
    BY <1>1, <1>7 DEF FrameAt
  <2>2. m # n
    BY <1>7, <1>8, SizeAssumption DEF FrameAt
  <2>3. ASSUME m = n + 1 PROVE FALSE
    <3>1. n \in n .. m - 1 /\ n \in 1 .. Len(writes)
      BY <1>7, <2>1, <2>3 DEF FrameAt
    <3>2. writes[n].kind # "delim"
      BY <1>7, <3>1 DEF FrameAt
    <3>3. writes[n].to - FrameStart <= MAX_FRAME_SIZE
      BY <1>1, <1>7, <3>1, <3>2 DEF FrameAt, PiecesFit
    <3>4. writes[n].to = e - 1
      <4>1. m # 1 /\ m - 1 = n
        BY <2>1, <2>3, <3>1
      <4>2. From(writes, m) = writes[n].to
        BY <4>1 DEF From
      <4>3. QED
        BY <1>7, <4>2 DEF FrameAt
    <3>5. QED
      BY <1>8, <3>3, <3>4, SizeAssumption
  <2>4. QED
    BY <2>1, <2>2, <2>3
<1>10. TokenGrain!Glued(Tokens)
  BY <1>7, <1>9 DEF FrameAt, TokenGrain!Glued
<1>11. Tokens' = TokenGrain!Rest(Tokens)
  <2>1. Tokens' = TokensFrom(writes, FirstAfter(writes, e))
    BY <1>5, <1>6 DEF Tokens, sending
  <2>2. QED
    BY <1>7, <2>1 DEF FrameAt
<1>12. Got' = Got
  BY GotStays DEF DropFrame, history
<1>13. QED
  BY <1>10, <1>11, <1>12 DEF TokenGrain!Drop

(* The outcomes of next_packet are those Link expects of the tokens.       *)
GotFits ==
  ended > 0 /\ (\E f : outcome = OutcomeOf(f)) =>
    \A n, m \in 1 .. Len(writes) : \A tokens :
      /\ n <= m
      /\ n # 1 => writes[n - 1].kind = "delim"
      /\ writes[m].kind = "delim" /\ writes[m].to = ended
      /\ \A k \in n .. m - 1 : writes[k].kind # "delim"
      /\ tokens[1] = Token(writes[n])
      => Got \in TokenGrain!Decodings(tokens, m - n + 1)

LEMMA GotRight ==
  ASSUME PacketsInv, ~Retry
  PROVE  GotFits
<1> SUFFICES ASSUME ended > 0, NEW f, outcome = OutcomeOf(f),
                    NEW n \in 1 .. Len(writes), NEW m \in 1 .. Len(writes), NEW tokens, n <= m,
                    n # 1 => writes[n - 1].kind = "delim",
                    writes[m].kind = "delim", writes[m].to = ended,
                    \A k \in n .. m - 1 : writes[k].kind # "delim",
                    tokens[1] = Token(writes[n])
             PROVE  Got \in TokenGrain!Decodings(tokens, m - n + 1)
  BY DEF GotFits
<1> DEFINE d == m - n + 1
<1>1. /\ sent \in Seq(Byte) /\ writes \in Seq(PieceSet) /\ InPieces(sent, writes)
      /\ Len(writes) \in Nat /\ DOMAIN writes = 1 .. Len(writes)
      /\ n \in Nat /\ m \in Nat /\ whole
  BY DEF PacketsInv, FramingInv
<1>2. /\ EndsPacket(m) => outcome = Some(writes[m - 1].packet)
      /\ EndsNothing(m) <=> outcome = None
  BY <1>1 DEF PacketsInv, PacketsIntact
<1>3. outcome = None \/ outcome = Failed \/ \E p : outcome = Some(p)
  BY DEF OutcomeOf
<1>4. CASE d = 1
  <2>1. m = n
    BY <1>1, <1>4
  <2>2. EndsNothing(m)
    BY <1>1, <2>1 DEF EndsNothing
  <2>3. outcome = None
    BY <1>2, <2>2
  <2>4. Got = TokenGrain!Empty
    BY <2>3 DEF Got, Grain!Empty, TokenGrain!Empty, Grain!Sealed, TokenGrain!Sealed
  <2>5. QED
    BY <1>4, <2>4 DEF TokenGrain!Decodings
<1>5. CASE d = 2 /\ writes[n].kind = "body"
  <2>1. m = n + 1 /\ m - 1 = n /\ m - 2 = n - 1
    BY <1>1, <1>5
  <2>2. EndsPacket(m)
    BY <1>1, <1>5, <2>1 DEF EndsPacket
  <2>3. outcome = Some(writes[n].packet)
    BY <1>2, <2>1, <2>2
  <2>4. \E i \in DOMAIN writes : writes[i].to = ended /\ EndsPacket(i)
    BY <1>1, <2>2
  <2>5. outcome \notin {Nothing, None} /\ outcome # Failed /\ outcome.packet = writes[n].packet
    BY <2>3 DEF Some, None, Failed, Nothing, Outcome
  <2>6. Got = Message(writes[n].packet)
    BY <2>4, <2>5 DEF Got
  <2>7. tokens[1] = TokenGrain!Body(Message(writes[n].packet))
    BY <1>5, TokenKinds
  <2>8. tokens[1].kind = "body" /\ tokens[1].packet = Got
    BY <2>6, <2>7 DEF TokenGrain!Body
  <2>9. QED
    BY <1>5, <2>8 DEF TokenGrain!Decodings
<1>6. CASE d # 1 /\ ~ (d = 2 /\ writes[n].kind = "body")
  <2>1. m - 1 \in n .. m - 1 /\ m - 1 \in 1 .. Len(writes) /\ m > 1
    BY <1>1, <1>6
  <2>2. writes[m - 1].kind # "delim"
    BY <2>1
  <2>3. ~ EndsNothing(m)
    BY <2>1, <2>2 DEF EndsNothing
  <2>4. ~ EndsPacket(m)
    <3>1. SUFFICES ASSUME EndsPacket(m) PROVE FALSE
      OBVIOUS
    <3>2. CASE d = 2
      BY <1>1, <1>6, <3>1, <3>2 DEF EndsPacket
    <3>3. CASE d > 2
      <4>1. m - 2 \in n .. m - 1 /\ m > 2
        BY <1>1, <3>3
      <4>2. QED
        BY <3>1, <4>1 DEF EndsPacket
    <3>4. QED
      BY <1>1, <1>6, <3>2, <3>3
  <2>5. outcome \notin {Nothing, None}
    BY <1>2, <1>3, <2>3 DEF Some, None, Failed, Nothing, Outcome
  <2>6. ASSUME NEW i \in DOMAIN writes, writes[i].to = ended, EndsPacket(i) PROVE FALSE
    <3>1. i \in 1 .. Len(writes) /\ i \in Nat /\ writes[i].to = writes[m].to
      BY <1>1, <2>6
    <3>2. Increasing(writes) /\ writes[m].to \in Nat
      <4>1. writes[m] \in PieceSet
        BY <1>1
      <4>2. QED
        BY <1>1, <4>1, EndsIncrease DEF PieceSet
    <3>3. i = m
      <4>1. ~ (writes[i].to < writes[m].to) /\ ~ (writes[m].to < writes[i].to)
        BY <3>1, <3>2
      <4>2. ~ (i < m) /\ ~ (m < i)
        BY <3>1, <3>2, <4>1 DEF Increasing
      <4>3. QED
        BY <1>1, <3>1, <4>2
    <3>4. QED
      BY <2>4, <2>6, <3>3
  <2>7. Got \in {TokenGrain!Undecodable, TokenGrain!Junk}
    BY <2>5, <2>6 DEF Got, Grain!Undecodable, Grain!Junk, Grain!Sealed,
                      TokenGrain!Undecodable, TokenGrain!Junk, TokenGrain!Sealed
  <2>8. tokens[1].kind # "body" \/ d # 2
    <3>1. ASSUME d = 2 PROVE tokens[1].kind # "body"
      <4>1. writes[n].kind # "delim" /\ writes[n].kind # "body" /\ writes[n] \in PieceSet
        <5>1. n \in n .. m - 1
          BY <1>1, <3>1
        <5>2. QED
          BY <1>1, <1>6, <3>1, <5>1
      <4>2. writes[n].kind = "cut"
        BY <4>1 DEF PieceSet
      <4>3. tokens[1] = TokenGrain!Cut
        BY <4>2, TokenKinds
      <4>4. QED
        BY <4>3 DEF TokenGrain!Cut
    <3>2. QED
      BY <3>1
  <2>9. QED
    BY <1>6, <2>7, <2>8 DEF TokenGrain!Decodings
<1>7. QED
  BY <1>4, <1>5, <1>6

LEMMA TakeStep ==
  ASSUME PacketsInv, GotFits', ~Retry, NextPacket
  PROVE  TokenGrain!Take
<1>1. /\ FramingInv /\ ReceivingFrame
      /\ Len(received) \in Nat /\ reader_filled \in Nat /\ reader_search \in Nat
  BY SizeAssumption DEF PacketsInv, FramingInv, TypeOK, BufferSize
<1>2. PICK end \in reader_search .. reader_filled - 1 :
        Found(end) /\ Consume(end) /\ ended' = Base + end + 1
  BY DEF NextPacket, ReturnFrame
<1>3. /\ pc = "scan" /\ discard = 0
      /\ UNCHANGED <<writes, received, reader_filled, discard>>
      /\ outcome' = OutcomeOf(frame')
  BY DEF NextPacket, ReturnFrame, sending
<1>4. /\ FrameStart \in 0 .. Len(received)
      /\ Base + end + 1 \in FrameStart + 1 .. Len(received)
      /\ IsFrame(received, FrameStart, Base + end + 1)
  BY <1>1, <1>2, <1>3, NothingTorn, FoundEndsFrame
<1>5. FrameStart' = Base + end + 1
  <2>1. reader_offset' = end + 1
    BY <1>2 DEF Consume
  <2>2. Base \in Int /\ end \in Int
    BY <1>1, <1>2 DEF Base
  <2>3. QED
    BY <1>1, <1>3, <2>1, <2>2 DEF FrameStart, Base
<1>6. PICK e \in Nat : e = Base + end + 1 /\ e > 0
  <2>1. Base + end + 1 \in Nat /\ Base + end + 1 > 0
    BY <1>1, <1>4
  <2>2. QED
    BY <2>1
<1>7. PICK n, m : FrameAt(e, n, m)
  BY <1>4, <1>6, FrameTokens
<1> DEFINE d == m - n + 1
<1>8. Got' \in TokenGrain!Decodings(Tokens, d)
  <2>1. ended' > 0 /\ (\E f : outcome' = OutcomeOf(f)) /\ e = ended'
    BY <1>2, <1>3, <1>6
  <2>2. /\ n \in 1 .. Len(writes') /\ m \in 1 .. Len(writes') /\ n <= m
        /\ n # 1 => writes'[n - 1].kind = "delim"
        /\ writes'[m].kind = "delim" /\ writes'[m].to = ended'
        /\ \A k \in n .. m - 1 : writes'[k].kind # "delim"
        /\ Tokens[1] = Token(writes'[n])
    BY <1>3, <1>7, <2>1 DEF FrameAt
  <2>3. QED
    BY <2>1, <2>2 DEF GotFits
<1>9. d \in DOMAIN Tokens /\ TokenGrain!IsFirstDelim(Tokens, d)
  BY <1>7 DEF FrameAt
<1>10. Got' \in TokenGrain!NextPackets(Tokens)
  BY <1>8, <1>9 DEF TokenGrain!NextPackets
<1>11. Tokens' = TokenGrain!Rest(Tokens)
  <2>1. Tokens' = TokensFrom(writes, FirstAfter(writes, e))
    BY <1>3, <1>5, <1>6 DEF Tokens
  <2>2. QED
    BY <1>7, <2>1 DEF FrameAt
<1>12. QED
  BY <1>10, <1>11 DEF TokenGrain!Take

(* What send_packet and send_reset write is a write of Link's.             *)
LEMMA WriteIsWrite ==
  ASSUME PacketsInv, [PacketNext]_packetVars, UNCHANGED <<vars, outcome>>,
         NEW tokens, Tokens' = Tokens \o tokens,
         tokens \in (UNION {TokenGrain!SendPacket(Message(packet), FALSE) : packet \in Payload})
                    \cup TokenGrain!SendReset(FALSE)
  PROVE  TokenGrain!Write
<1>1. Got' = Got
  BY GotStays DEF vars, history
<1> DEFINE Sendable == {Message(packet) : packet \in Payload}
<1>2. tokens \in (UNION {TokenGrain!SendPacket(p, FALSE) : p \in Sendable})
                 \cup TokenGrain!SendReset(FALSE)
  OBVIOUS
<1>3. \E ok \in BOOLEAN :
        \E t \in (UNION {TokenGrain!SendPacket(p, ok) : p \in Sendable})
                 \cup TokenGrain!SendReset(ok) :
          Tokens' = Tokens \o t
  BY <1>2
<1>4. QED
  BY <1>1, <1>3 DEF TokenGrain!Write

(* Pieces added to the stream, one or two, are tokens added.               *)
LEMMA PieceAdded ==
  ASSUME PacketsInv, ~Retry, FrameStart' = FrameStart,
         NEW piece \in PieceSet, piece.to > Len(sent), writes' = Append(writes, piece)
  PROVE  Tokens' = Tokens \o << Token(piece) >>
<1>1. /\ sent \in Seq(Byte) /\ writes \in Seq(PieceSet) /\ Len(sent) \in Nat /\ piece.to \in Nat
  BY DEF PacketsInv, PieceSet
<1>2. PICK f \in Nat : f = FrameStart /\ f <= Len(sent)
  BY StartInPieces
<1>3. PICK n : FirstIs(writes, f, n) /\ Tokens = TokensFrom(writes, n)
  BY <1>2, StartInPieces
<1>4. piece.to > f
  BY <1>1, <1>2
<1>5. PICK v : v = writes' /\ v = Append(writes, piece)
  OBVIOUS
<1>6. /\ v \in Seq(PieceSet) /\ FirstIs(v, f, n)
      /\ TokensFrom(v, n) = TokensFrom(writes, n) \o << Token(piece) >>
  BY <1>1, <1>3, <1>4, <1>5, TokensGrow
<1>7. FirstAfter(v, f) = n
  BY <1>6, FirstUnique
<1>8. QED
  BY <1>2, <1>3, <1>5, <1>6, <1>7 DEF Tokens

(* Two elements one after the other.                                       *)
LEMMA TwoAsOne ==
  ASSUME NEW S, NEW a \in S, NEW b \in S
  PROVE  << a >> \o << b >> = << a, b >>
<1> DEFINE left == << a >>
           right == << b >>
           both == << a, b >>
<1>1. /\ left \in Seq(S) /\ Len(left) = 1 /\ left[1] = a
      /\ right \in Seq(S) /\ Len(right) = 1 /\ right[1] = b
  OBVIOUS
<1>2. both \in Seq(S) /\ Len(both) = 2 /\ both[1] = a /\ both[2] = b
  OBVIOUS
<1> HIDE DEF left, right, both
<1>3. /\ left \o right \in Seq(S)
      /\ Len(left \o right) = Len(left) + Len(right)
      /\ \A i \in 1 .. Len(left) + Len(right) :
           (left \o right)[i] = IF i <= Len(left) THEN left[i] ELSE right[i - Len(left)]
  BY <1>1, ConcatProperties
<1>4. Len(left \o right) = 2 /\ (left \o right)[1] = a /\ (left \o right)[2] = b
  BY <1>1, <1>3
<1>5. \A i \in 1 .. 2 : i = 1 \/ i = 2
  OBVIOUS
<1>6. \A i \in 1 .. Len(both) : (left \o right)[i] = both[i]
  BY <1>2, <1>4, <1>5
<1>7. left \o right = both
  BY <1>2, <1>3, <1>4, <1>6, SeqEqual
<1>8. QED
  BY <1>7 DEF left, right, both

LEMMA PiecesAdded ==
  ASSUME PacketsInv, ~Retry, FrameStart' = FrameStart,
         NEW one \in PieceSet, one.to > Len(sent),
         NEW two \in PieceSet, two.to > Len(sent),
         writes' = Append(Append(writes, one), two)
  PROVE  Tokens' = Tokens \o << Token(one), Token(two) >>
<1>1. /\ sent \in Seq(Byte) /\ writes \in Seq(PieceSet) /\ Len(sent) \in Nat
      /\ one.to \in Nat /\ two.to \in Nat
  BY DEF PacketsInv, PieceSet
<1>2. PICK f \in Nat : f = FrameStart /\ f <= Len(sent)
  BY StartInPieces
<1>3. PICK n : FirstIs(writes, f, n) /\ Tokens = TokensFrom(writes, n)
  BY <1>2, StartInPieces
<1>4. one.to > f /\ two.to > f
  BY <1>1, <1>2
<1>5. PICK w : w = Append(writes, one)
  OBVIOUS
<1>6. PICK v : v = writes' /\ v = Append(w, two)
  BY <1>5
<1>7. /\ w \in Seq(PieceSet) /\ FirstIs(w, f, n)
      /\ TokensFrom(w, n) = TokensFrom(writes, n) \o << Token(one) >>
      /\ TokensFrom(writes, n) \in Seq(TokenSet) /\ Token(one) \in TokenSet
  <2>1. /\ Append(writes, one) \in Seq(PieceSet) /\ FirstIs(Append(writes, one), f, n)
        /\ TokensFrom(Append(writes, one), n) = TokensFrom(writes, n) \o << Token(one) >>
        /\ TokensFrom(writes, n) \in Seq(TokenSet) /\ Token(one) \in TokenSet
    BY <1>1, <1>3, <1>4, TokensGrow
  <2>2. QED
    BY <1>5, <2>1
<1>8. /\ v \in Seq(PieceSet) /\ FirstIs(v, f, n)
      /\ TokensFrom(v, n) = TokensFrom(w, n) \o << Token(two) >>
      /\ Token(two) \in TokenSet
  BY <1>4, <1>6, <1>7, TokensGrow
<1>9. FirstAfter(v, f) = n
  BY <1>8, FirstUnique
<1>10. Tokens' = (Tokens \o << Token(one) >>) \o << Token(two) >>
  BY <1>2, <1>3, <1>6, <1>7, <1>8, <1>9 DEF Tokens
<1>11. (Tokens \o << Token(one) >>) \o << Token(two) >>
         = Tokens \o (<< Token(one) >> \o << Token(two) >>)
  <2>1. << Token(one) >> \in Seq(TokenSet) /\ << Token(two) >> \in Seq(TokenSet)
    BY <1>7, <1>8
  <2>2. Tokens \in Seq(TokenSet)
    BY <1>3, <1>7
  <2>3. QED
    BY <2>1, <2>2, ConcatAssociative
<1>12. << Token(one) >> \o << Token(two) >> = << Token(one), Token(two) >>
  <2>1. PICK a \in TokenSet : a = Token(one)
    BY <1>7
  <2>2. PICK b \in TokenSet : b = Token(two)
    BY <1>8
  <2>3. << a >> \o << b >> = << a, b >>
    BY TwoAsOne
  <2>4. QED
    BY <2>1, <2>2, <2>3
<1>13. QED
  BY <1>10, <1>11, <1>12

LEMMA SendStep ==
  ASSUME PacketsInv, [PacketNext]_packetVars, ~Retry,
         NEW packet \in Payload, NEW n \in 1 .. MAX_FRAME_SIZE + 1, SendPacket(packet, n)
  PROVE  TokenGrain!Write
<1> DEFINE code == Encode(packet)
           body == Piece("body", packet, Len(sent) + Len(code))
           delim == Piece("delim", <<>>, Len(sent) + Len(code) + 1)
           cut == Piece("cut", <<>>, Len(sent) + n)
           p == Message(packet)
<1>1. UNCHANGED <<vars, outcome>>
  BY DEF SendPacket, Transmit
<1>2. FrameStart' = FrameStart
  BY <1>1, StartStays
<1>3. Len(sent) \in Nat /\ Len(code) \in Nat /\ Len(code) > 0 /\ n \in Nat /\ n > 0
  <2>1. code \in Seq(Byte \ {0}) /\ code # <<>>
    BY RoundTripAssumption
  <2>2. sent \in Seq(Byte)
    BY DEF PacketsInv
  <2>3. Len(code) \in Nat /\ Len(code) # 0
    BY <2>1, EmptySeq
  <2>4. n \in Nat /\ n > 0
    BY SizeAssumption
  <2>5. QED
    BY <2>2, <2>3, <2>4
<1> HIDE DEF code
<1>4. /\ body \in PieceSet /\ body.to > Len(sent)
      /\ body.kind = "body" /\ body.packet = packet
  BY <1>3 DEF Piece, PieceSet
<1>5. delim \in PieceSet /\ delim.to > Len(sent) /\ delim.kind = "delim"
  BY <1>3 DEF Piece, PieceSet
<1>6. cut \in PieceSet /\ cut.to > Len(sent) /\ cut.kind = "cut"
  BY <1>3 DEF Piece, PieceSet
<1>7. \/ writes' = Append(Append(writes, body), delim)
      \/ writes' = Append(writes, body)
      \/ writes' = Append(writes, cut)
  BY DEF SendPacket, Transmit, code
<1> HIDE DEF body, delim, cut
<1>8. /\ Token(body) = TokenGrain!Body(p)
      /\ Token(delim) = TokenGrain!Delim
      /\ Token(cut) = TokenGrain!Cut
  BY <1>4, <1>5, <1>6, TokenKinds
<1>9. /\ TokenGrain!Frame(p) \in TokenGrain!SendPacket(p, FALSE)
      /\ << TokenGrain!Body(p) >> \in TokenGrain!SendPacket(p, FALSE)
      /\ << TokenGrain!Cut >> \in TokenGrain!SendPacket(p, FALSE)
  BY DEF TokenGrain!SendPacket
<1> DEFINE written == UNION {TokenGrain!SendPacket(Message(q), FALSE) : q \in Payload}
<1>10. ASSUME NEW t \in TokenGrain!SendPacket(p, FALSE) PROVE t \in written
  OBVIOUS
<1> HIDE DEF written
<1>11. ASSUME NEW t \in TokenGrain!SendPacket(p, FALSE), Tokens' = Tokens \o t
       PROVE  TokenGrain!Write
  <2>1. t \in written \cup TokenGrain!SendReset(FALSE)
    BY <1>10
  <2>2. QED
    BY <1>1, <1>11, <2>1, WriteIsWrite DEF written
<1>12. CASE writes' = Append(Append(writes, body), delim)
  <2>1. Tokens' = Tokens \o << Token(body), Token(delim) >>
    BY <1>2, <1>4, <1>5, <1>12, PiecesAdded
  <2>2. << Token(body), Token(delim) >> = TokenGrain!Frame(p)
    BY <1>8 DEF TokenGrain!Frame
  <2>3. QED
    BY <1>9, <1>11, <2>1, <2>2
<1>13. CASE writes' = Append(writes, body)
  <2>1. Tokens' = Tokens \o << Token(body) >>
    BY <1>2, <1>4, <1>13, PieceAdded
  <2>2. QED
    BY <1>8, <1>9, <1>11, <2>1
<1>14. CASE writes' = Append(writes, cut)
  <2>1. Tokens' = Tokens \o << Token(cut) >>
    BY <1>2, <1>6, <1>14, PieceAdded
  <2>2. QED
    BY <1>8, <1>9, <1>11, <2>1
<1>15. QED
  BY <1>7, <1>12, <1>13, <1>14

LEMMA ResetStep ==
  ASSUME PacketsInv, [PacketNext]_packetVars, ~Retry, NEW n \in 1 .. 2, SendReset(n)
  PROVE  TokenGrain!Write
<1> DEFINE one == Piece("delim", <<>>, Len(sent) + 1)
           two == Piece("delim", <<>>, Len(sent) + 2)
<1>1. UNCHANGED <<vars, outcome>>
  BY DEF SendReset, Transmit
<1>2. FrameStart' = FrameStart
  BY <1>1, StartStays
<1>3. Len(sent) \in Nat
  BY DEF PacketsInv
<1>4. one \in PieceSet /\ one.to > Len(sent) /\ one.kind = "delim"
  BY <1>3 DEF Piece, PieceSet
<1>5. two \in PieceSet /\ two.to > Len(sent) /\ two.kind = "delim"
  BY <1>3 DEF Piece, PieceSet
<1>6. writes' = Append(writes, one) \/ writes' = Append(Append(writes, one), two)
  BY DEF SendReset, Transmit
<1> HIDE DEF one, two
<1>7. Token(one) = TokenGrain!Delim /\ Token(two) = TokenGrain!Delim
  BY <1>4, <1>5, TokenKinds
<1>8. ASSUME NEW t \in TokenGrain!SendReset(FALSE), Tokens' = Tokens \o t
      PROVE  TokenGrain!Write
  <2>1. t \in (UNION {TokenGrain!SendPacket(Message(packet), FALSE) : packet \in Payload})
               \cup TokenGrain!SendReset(FALSE)
    OBVIOUS
  <2>2. QED
    BY <1>1, <1>8, <2>1, WriteIsWrite
<1>9. /\ << TokenGrain!Delim >> \in TokenGrain!SendReset(FALSE)
      /\ << TokenGrain!Delim, TokenGrain!Delim >> \in TokenGrain!SendReset(FALSE)
  BY DEF TokenGrain!SendReset, TokenGrain!Reset
<1>10. CASE writes' = Append(writes, one)
  <2>1. Tokens' = Tokens \o << Token(one) >>
    BY <1>2, <1>4, <1>10, PieceAdded
  <2>2. QED
    BY <1>7, <1>8, <1>9, <2>1
<1>11. CASE writes' = Append(Append(writes, one), two)
  <2>1. Tokens' = Tokens \o << Token(one), Token(two) >>
    BY <1>2, <1>4, <1>5, <1>11, PiecesAdded
  <2>2. QED
    BY <1>7, <1>8, <1>9, <2>1
<1>12. QED
  BY <1>6, <1>10, <1>11

(* Every step of a direction is a step of Link's stream or none.           *)
LEMMA LinkStep ==
  ASSUME PacketsInv, [PacketNext]_packetVars, GotFits', ~Retry
  PROVE  [TokenGrain!Next]_(TokenGrain!vars)
<1>1. CASE \E packet \in Payload : \E n \in 1 .. MAX_FRAME_SIZE + 1 : SendPacket(packet, n)
  BY <1>1, SendStep DEF TokenGrain!Next
<1>2. CASE \E n \in 1 .. 2 : SendReset(n)
  BY <1>2, ResetStep DEF TokenGrain!Next
<1>3. CASE NextPacket
  BY <1>3, TakeStep DEF TokenGrain!Next
<1>4. CASE DropFrame /\ UNCHANGED <<sending, outcome>>
  BY <1>4, DropStep DEF TokenGrain!Next
<1>5. CASE (Call \/ Compact \/ Overflow \/ DropFragment) /\ UNCHANGED <<sending, outcome>>
  <2>1. UNCHANGED <<writes, ended, outcome>>
    BY <1>5 DEF Call, Compact, Overflow, DropFragment, history, sending
  <2>2. FrameStart' = FrameStart
    BY <1>5, StartStays
  <2>3. QED
    BY <2>1, <2>2, StutterStep
<1>6. CASE ReadSent
  <2>1. UNCHANGED <<writes, ended, outcome>>
    BY <1>6 DEF ReadSent, Ingest, sending
  <2>2. QED
    BY <1>6, <2>1, StartStays, StutterStep
<1>7. CASE ReadError
  <2>1. ReadFails /\ UNCHANGED <<writes, ended, outcome>>
    BY <1>7 DEF ReadError, ReadFails, history, sending
  <2>2. QED
    BY <2>1, StartStays, StutterStep
<1>8. CASE UNCHANGED packetVars
  <2>1. UNCHANGED vars /\ UNCHANGED <<writes, ended, outcome>>
    BY <1>8 DEF packetVars, vars, history, sending
  <2>2. QED
    BY <2>1, StartStays, StutterStep
<1>9. QED
  BY <1>1, <1>2, <1>3, <1>4, <1>5, <1>6, <1>7, <1>8 DEF PacketNext, KeepReading

(* At the start nothing is written and nothing was returned.               *)
LEMMA LinkInit ==
  ASSUME PacketInit
  PROVE  TokenGrain!Init
<1>1. writes = <<>> /\ outcome = Nothing /\ FrameStart = 0
  BY DEF PacketInit, Init, FrameStart, Base
<1>2. Got = TokenGrain!Empty
  BY <1>1 DEF Got, Grain!Empty, Grain!Sealed, TokenGrain!Empty, TokenGrain!Sealed
<1> DEFINE none == <<>>
<1>3. none \in Seq(PieceSet) /\ Len(none) = 0 /\ none \in Seq(TokenSet)
  OBVIOUS
<1>4. writes = none
  BY <1>1
<1> HIDE DEF none
<1>5. FirstIs(none, 0, 1)
  BY <1>3 DEF FirstIs
<1>6. FirstAfter(none, 0) = 1
  BY <1>3, <1>5, FirstUnique
<1>7. Tokens = TokensFrom(none, 1)
  BY <1>1, <1>4, <1>6 DEF Tokens
<1>8. TokensFrom(none, 1) \in Seq(TokenSet) /\ Len(TokensFrom(none, 1)) = 0
  <2>1. 1 \in 1 .. Len(none) + 1 /\ Len(none) + 1 - 1 = 0
    BY <1>3
  <2>2. QED
    BY <1>3, <2>1, TokensAre
<1>9. Tokens = <<>>
  BY <1>7, <1>8, EmptySeq
<1>10. QED
  BY <1>2, <1>9 DEF TokenGrain!Init

(* The bytes of one direction, its framing, its COBS and its failing       *)
(* writes, are what Link takes a stream to be, as long as no call follows  *)
(* a failed read (the property ImplementsLink of next_packet, send_packet  *)
(* and send_reset): packets written whole are returned as they are, empty  *)
(* frames as nothing, other frames as an error or junk, in their order,    *)
(* and nothing is passed over but pieces of packets glued together.        *)
THEOREM PacketsImplementLink == ASSUME ~Retry PROVE PacketSpec => ImplementsLink
<1>1. PacketInit => TokenGrain!Init
  BY LinkInit
<1>2. PacketsInv => GotFits
  BY GotRight
<1>3. PacketsInv /\ GotFits' /\ [PacketNext]_packetVars => [TokenGrain!Next]_(TokenGrain!vars)
  BY LinkStep
<1>4. QED
  BY <1>1, <1>2, <1>3, PacketsInvariant, PTL DEF PacketSpec, ImplementsLink, TokenGrain!Spec

(* What next_packet calls is the framer of Framing, whatever was written:  *)
(* the framer's theorems are theorems of a direction too (next_packet on   *)
(* top of next_frame).                                                     *)
THEOREM PacketsRunTheFramer == PacketSpec => Spec
<1>1. PacketInit => Init
  BY DEF PacketInit
<1>2. PacketsInv /\ [PacketNext]_packetVars => [Next]_vars
  BY FramerSteps
<1>3. QED
  BY <1>1, <1>2, PacketsInvariant, PTL DEF PacketSpec, Spec

(* With no call after a failed read, next_packet is given the frames of    *)
(* the stream that fit, each once and in order, and no others: the safety  *)
(* part of ImplementsStream for next_frame under next_packet.              *)
THEOREM PacketsFollowStream == ASSUME ~Retry PROVE PacketSpec => Stream!Spec
BY PacketsRunTheFramer, RefinesStream, PTL
=============================================================================
