-------------------------------- MODULE Link --------------------------------
(***************************************************************************)
(* The two byte streams that join a host and an Ark, at the grain the      *)
(* session layer sees: delimiters, whole encoded packets and pieces of     *)
(* packets.  What next_packet makes of the bytes up to a delimiter follows *)
(* Framing, which is checked against FrameStream on its own; the streams   *)
(* carry frames that fit.                                                  *)
(***************************************************************************)
EXTENDS Naturals, Sequences

CONSTANTS
  Capacity  (* tokens a stream holds before a write blocks                 *)

ASSUME CapacityAssumption == Capacity \in Nat

VARIABLES
  h2a,  (* written by the host and not yet read by the Ark                 *)
  a2h   (* written by the Ark and not yet read by the host                 *)

-----------------------------------------------------------------------------
(* Packets.  A key is named by the number of the handshake it was made     *)
(* for: host keys by the host's attempt, Ark keys by the hello answered.   *)
(* What is sealed to a pair of keys or in the contexts derived from it     *)
(* names both; seq is the position in the context's HPKE sequence.         *)
Sealed(type, host, ark, seq) ==
  [type |-> type, host |-> host, ark |-> ark, seq |-> seq]

HostHello(host) == Sealed("hello", host, 0, 0)
ArkHello(host, ark) == Sealed("arkhello", host, ark, 0)
HostAck(host, ark) == Sealed("ack", host, ark, 0)
Message(host, ark, seq) == Sealed("message", host, ark, seq)

(* What next_packet may return beside a packet that was sent.              *)
Empty == Sealed("empty", 0, 0, 0)              (* None, the reset signal   *)
Undecodable == Sealed("undecodable", 0, 0, 0)  (* FrameDecodingFailed      *)
Junk == Sealed("junk", 0, 0, 0)                (* bytes nobody sealed      *)

PacketType == {"hello", "arkhello", "ack", "message", "empty", "undecodable", "junk"}
Packet == [type : PacketType, host : Nat, ark : Nat, seq : Nat]

-----------------------------------------------------------------------------
(* Tokens of a stream: a zero byte, a whole encoded packet without its     *)
(* zero, and some of the bytes of one.                                     *)
Delim == [kind |-> "delim", packet |-> Empty]
Cut == [kind |-> "cut", packet |-> Junk]
Body(p) == [kind |-> "body", packet |-> p]

Token == [kind : {"delim", "cut", "body"}, packet : Packet]

Frame(p) == <<Body(p), Delim>>
(* Mutant: the first delimiter ends an interrupted frame and no reset      *)
(* follows.                                                                *)
ResetOnce == <<Delim>>

Reset == <<Delim, Delim>>

(* What send_packet and send_reset write: all of it, or any part when they *)
(* fail, all of it too as the flush after the write may be what fails.     *)
SendPacket(p, ok) ==
  IF ok THEN {Frame(p)} ELSE {<<>>, <<Cut>>, <<Body(p)>>, Frame(p)}

SendReset(ok) ==
  IF ok THEN {Reset} ELSE {<<>>, <<Delim>>, Reset}

(* A write blocks until the stream takes it.                               *)
Fits(stream, tokens) == Len(stream) + Len(tokens) <= Capacity

-----------------------------------------------------------------------------
(* Reading.  next_packet blocks until the stream holds a delimiter.        *)
HasFrame(stream) == \E d \in DOMAIN stream : stream[d] = Delim

IsFirstDelim(stream, d) ==
  /\ stream[d] = Delim
  /\ \A k \in 1 .. d - 1 : stream[k] # Delim

(* What next_packet may return: the tokens up to the first delimiter are   *)
(* nothing, one whole packet, or bytes that COBS decodes to junk or not at *)
(* all, depending on where its blocks happen to end.                       *)
Decodings(stream, d) ==
  IF d = 1 THEN {Empty}
  ELSE IF d = 2 /\ stream[1].kind = "body" THEN {stream[1].packet}
  ELSE {Undecodable, Junk}

NextPackets(stream) ==
  UNION {Decodings(stream, d) : d \in {e \in DOMAIN stream : IsFirstDelim(stream, e)}}

(* Pieces of more than one packet were glued together: with whole packets  *)
(* among them they may be more than a frame, and next_frame discards them. *)
Glued(stream) == \E d \in DOMAIN stream : IsFirstDelim(stream, d) /\ d > 2

(* The stream after that packet.                                           *)
Rest(stream) ==
  LET d == CHOOSE e \in DOMAIN stream : IsFirstDelim(stream, e)
  IN  SubSeq(stream, d + 1, Len(stream))

-----------------------------------------------------------------------------
(* A session is a pair of contexts, one per direction, with the number of  *)
(* messages sealed (sent) and opened (got) so far.                         *)
Session == [host : Nat, ark : Nat, sent : Nat, got : Nat]
NewSession(host, ark) == [host |-> host, ark |-> ark, sent |-> 0, got |-> 0]
NoSession == NewSession(0, 0)

(* Mutant: the session outlives a failed send.                             *)
SessionKept(session, ok) == [session EXCEPT !.sent = @ + 1]

(* The session after send_message: a failure after sealing drops it.       *)
AfterSend(session, ok) ==
  IF ok THEN [session EXCEPT !.sent = @ + 1] ELSE NoSession

SameContexts(s, t) == s.host = t.host /\ s.ark = t.ark
=============================================================================
