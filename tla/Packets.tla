------------------------------- MODULE Packets ------------------------------
(***************************************************************************)
(* One direction of the wire at byte grain: send_packet and send_reset of  *)
(* one framer, with writes that fail half way, and next_packet of the      *)
(* other on top of next_frame.                                             *)
(***************************************************************************)
EXTENDS Framing

CONSTANTS
  Payload,       (* the packets sent                                       *)
  Encode(_),     (* COBS                                                   *)
  Decodable(_),
  Decode(_),
  Bound(_),      (* encode_buffer, by the size of a packet                 *)
  MaxWrites      (* bound on the writes                                    *)

(* An encoding is not empty, holds no zero, decodes to its packet and is   *)
(* no larger than its bound.                                               *)
ASSUME RoundTripAssumption ==
  \A p \in Payload :
    /\ Encode(p) \in Seq(Byte \ {0}) /\ Encode(p) # <<>>
    /\ Decodable(Encode(p)) /\ Decode(Encode(p)) = p
    /\ Bound(Len(p)) \in Nat /\ Len(Encode(p)) <= Bound(Len(p))

VARIABLES
  sent,     (* history: every byte the transport has taken                 *)
  writes,   (* history: what those bytes are, see Piece                    *)
  outcome   (* what next_packet returned last                              *)

sending == <<sent, writes>>
packetVars == <<vars, sending, outcome>>

(* Outcomes: nothing yet, None, an error of COBS, a packet.                *)
Outcome(kind, packet) == [kind |-> kind, packet |-> packet]
Some(packet) == Outcome("some", packet)
None == Outcome("none", <<>>)
Failed == Outcome("failed", <<>>)
Nothing == Outcome("nothing", <<>>)

PacketInit ==
  /\ Init
  /\ sent = <<>> /\ writes = <<>>
  /\ outcome = Nothing

-----------------------------------------------------------------------------
(* Sending.  A piece of the stream is a delimiter, the whole encoding of a *)
(* packet or some first bytes of one, and ends at a position of sent.      *)
Piece(kind, packet, to) == [kind |-> kind, packet |-> packet, to |-> to]

Transmit(bytes, pieces) ==
  /\ Len(bytes) <= MaxStream
  /\ sent' = bytes
  /\ writes' = pieces
  /\ UNCHANGED <<vars, outcome>>

(* send_packet's check, by the bound and not by the encoding.              *)
FitsFrame(packet) == Bound(Len(packet)) <= MAX_FRAME_SIZE

(* send_packet and send_frame: the first n bytes of the encoding and its   *)
(* delimiter are written.  All of them are when the call succeeds, and may *)
(* be when it fails, as the flush is what failed.                          *)
SendPacket(packet, n) ==
  /\ Len(writes) < MaxWrites /\ FitsFrame(packet)
  /\ LET code == Encode(packet)
         body == Append(writes, Piece("body", packet, Len(sent) + Len(code)))
         delim == Piece("delim", <<>>, Len(sent) + Len(code) + 1)
     IN  \/ n = Len(code) + 1 /\ Transmit(sent \o code \o <<0>>, Append(body, delim))
         \/ n = Len(code) /\ Transmit(sent \o code, body)
         \/ /\ n \in 1 .. Len(code) - 1
            /\ Transmit(sent \o SubSeq(code, 1, n),
                        Append(writes, Piece("cut", <<>>, Len(sent) + n)))

(* send_reset, both zeros or the first.                                    *)
SendReset(n) ==
  /\ Len(writes) < MaxWrites
  /\ LET first == Append(writes, Piece("delim", <<>>, Len(sent) + 1))
     IN  \/ n = 1 /\ Transmit(sent \o <<0>>, first)
         \/ /\ n = 2
            /\ Transmit(sent \o <<0>> \o <<0>>,
                        Append(first, Piece("delim", <<>>, Len(sent) + 2)))

-----------------------------------------------------------------------------
(* Receiving.                                                              *)
(* Mutant: an empty packet is taken for a reset.                           *)
OutcomeOfPacket(f) ==
  IF ~Decodable(f) THEN Failed ELSE IF f = <<>> \/ Decode(f) = <<>> THEN None ELSE Some(Decode(f))

(* What next_packet makes of a frame.                                      *)
OutcomeOf(f) ==
  IF f = <<>> THEN None ELSE IF Decodable(f) THEN Some(Decode(f)) ELSE Failed

(* next_packet returns what next_frame returned, decoded.                  *)
NextPacket ==
  /\ ReturnFrame
  /\ outcome' = OutcomeOf(frame')
  /\ UNCHANGED sending

(* The rest of next_frame.                                                 *)
KeepReading ==
  /\ Call \/ DropFrame \/ Compact \/ Overflow \/ DropFragment
  /\ UNCHANGED <<sending, outcome>>

ReadError == ReadFails /\ UNCHANGED <<sending, outcome>>

(* The transport delivers some of the bytes it has taken, in their order.  *)
ReadSent ==
  /\ pc = "read"
  /\ \E n \in 1 .. BufferSize - reader_filled :
       /\ Len(received) + n <= Len(sent)
       /\ Ingest(SubSeq(sent, Len(received) + 1, Len(received) + n))
  /\ UNCHANGED <<sending, outcome>>

PacketNext ==
  \/ \E packet \in Payload : \E n \in 1 .. MAX_FRAME_SIZE + 1 : SendPacket(packet, n)
  \/ \E n \in 1 .. 2 : SendReset(n)
  \/ NextPacket
  \/ KeepReading
  \/ ReadSent
  \/ ReadError

PacketSpec == PacketInit /\ [][PacketNext]_packetVars

(* The receiver asks for packets until it gives up, and the transport      *)
(* delivers what it has taken.                                             *)
PacketFairSpec ==
  PacketSpec /\ WF_packetVars(NextPacket \/ KeepReading \/ ReadSent)

-----------------------------------------------------------------------------
(* Where the i-th of some pieces begins: after the piece before it.        *)
From(pieces, i) == IF i = 1 THEN 0 ELSE pieces[i - 1].to

(* The delimiter at i is preceded by a packet written whole, and that one  *)
(* by a delimiter or nothing.                                              *)
EndsPacket(i) ==
  /\ i \in 2 .. Len(writes)
  /\ writes[i].kind = "delim" /\ writes[i - 1].kind = "body"
  /\ i > 2 => writes[i - 2].kind = "delim"

(* The delimiter at i is preceded by a delimiter or nothing.               *)
EndsNothing(i) ==
  /\ i \in DOMAIN writes
  /\ writes[i].kind = "delim"
  /\ i > 1 => writes[i - 1].kind = "delim"

(* What next_packet returns of bytes that were written as one packet is    *)
(* that packet, the empty one included, and what it returns of an empty    *)
(* frame, and of nothing else, is None: a reset is never made up.          *)
PacketsIntact ==
  whole /\ ended > 0 =>
    \A i \in DOMAIN writes : writes[i].to = ended =>
      /\ EndsPacket(i) => outcome = Some(writes[i - 1].packet)
      /\ EndsNothing(i) <=> outcome = None

(* The inductive strengthening: what was read is the beginning of what was *)
(* sent, and that is what its pieces say.                                  *)
SentMirrored ==
  /\ Len(received) <= Len(sent)
  /\ \A k \in 1 .. Len(received) : received[k] = sent[k]

IsPiece(bytes, pieces, i) ==
  LET from == From(pieces, i)
      to == pieces[i].to
      code == Encode(pieces[i].packet)
  IN  /\ from < to /\ to <= Len(bytes)
      /\ IF pieces[i].kind = "delim" THEN from = to - 1 /\ bytes[to] = 0
                                     ELSE ZeroFree(bytes, from + 1, to)
      /\ pieces[i].kind = "body" =>
           /\ pieces[i].packet \in Payload
           /\ Len(code) = to - from
           /\ \A k \in 1 .. Len(code) : bytes[from + k] = code[k]

InPieces(bytes, pieces) ==
  /\ \A i \in DOMAIN pieces : IsPiece(bytes, pieces, i)
  /\ Len(bytes) = From(pieces, Len(pieces) + 1)

(* No packet that was sent, whole or in part, is too large to be received. *)
PiecesFit ==
  \A i \in DOMAIN writes :
    writes[i].kind # "delim" => writes[i].to - From(writes, i) <= MAX_FRAME_SIZE

PieceSet == [kind : {"delim", "cut", "body"}, packet : Payload \cup {<<>>}, to : Nat]

PacketsInv ==
  /\ FramingInv
  /\ sent \in Seq(Byte) /\ Len(sent) <= MaxStream
  /\ writes \in Seq(PieceSet) /\ InPieces(sent, writes)
  /\ PiecesFit
  /\ SentMirrored
  /\ PacketsIntact

(* Link's view: the pieces not yet consumed as tokens, and the outcome as  *)
(* one of its packets.  Bytes not written as one packet are junk, whatever *)
(* they decode to.                                                         *)
Grain == INSTANCE Link WITH h2a <- <<>>, a2h <- <<>>, Capacity <- MaxStream

Message(packet) == [type |-> "message", bytes |-> packet]

Token(piece) ==
  IF piece.kind = "delim" THEN Grain!Delim
  ELSE IF piece.kind = "cut" THEN Grain!Cut
  ELSE Grain!Body(Message(piece.packet))

(* The first of some pieces to end after position p.                       *)
FirstAfter(pieces, p) ==
  CHOOSE n \in 1 .. Len(pieces) + 1 : \A i \in DOMAIN pieces : i >= n <=> pieces[i].to > p

TokensFrom(pieces, first) ==
  [k \in 1 .. Len(pieces) + 1 - first |-> Token(pieces[first + k - 1])]

Tokens == TokensFrom(writes, FirstAfter(writes, FrameStart))

Got ==
  IF outcome \in {Nothing, None} THEN Grain!Empty
  ELSE IF outcome = Failed THEN Grain!Undecodable
  ELSE IF \E i \in DOMAIN writes : writes[i].to = ended /\ EndsPacket(i)
    THEN Message(outcome.packet)
  ELSE Grain!Junk

TokenGrain ==
  INSTANCE TokenStream
    WITH h2a <- Tokens, a2h <- <<>>, got <- Got, Capacity <- MaxStream,
         Sendable <- {Message(packet) : packet \in Payload}

(* Framing, COBS and failing writes below give what Link takes the streams *)
(* to be: next_packet returns a packet written whole, nothing for an empty *)
(* frame and an error or junk for anything else, or passes over pieces     *)
(* that were glued together, and no delimiter is ever lost.                *)
ImplementsLink == TokenGrain!Spec

(* As long as the receiver goes on, it gets to every frame (the loop of    *)
(* next_frame).                                                            *)
FramesTaken == []<>(pc = "closed" \/ ~Grain!HasFrame(Tokens))
=============================================================================
