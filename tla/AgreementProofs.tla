-------------------------- MODULE AgreementProofs ---------------------------
(***************************************************************************)
(* The two ends agree on the session of an attempt, a reset ends an old    *)
(* one and the Ark hears every hello, however many attempts, messages and  *)
(* disturbances there are.  First types on the composed wire, and the      *)
(* facts about its streams the other proofs rest on.                       *)
(***************************************************************************)
EXTENDS Wire, SequenceTheorems, TLAPS

-----------------------------------------------------------------------------
(* The steps of the wire, one per operation of the code.                   *)
HostOp ==
  \/ \E ok \in BOOLEAN : HostReset(ok)
  \/ \E ok \in BOOLEAN : HostSendHello(ok)
  \/ \E ok \in BOOLEAN : HostSendAck(ok)
  \/ \E ok \in BOOLEAN : HostSendMessage(ok)
  \/ HostReject \/ HostSkipStale \/ HostAbort \/ HostReadFails \/ HostNextMessage
  \/ "oversize" \in Disturbances /\ HostDiscards

ArkOp ==
  \/ \E ok \in BOOLEAN : ArkSendHello(ok)
  \/ \E ok \in BOOLEAN : ArkSendMessage(ok)
  \/ ArkReset \/ ArkNextMessage \/ ArkStartOver \/ ArkEstablish \/ ArkHandshakeFails
  \/ ArkReadFails
  \/ "oversize" \in Disturbances /\ ArkDiscards

LEMMA StepCases ==
  ASSUME Next, faults \in 0 .. MaxFaults
  PROVE  /\ faults' \in 0 .. MaxFaults
         /\ \/ HostOp /\ UNCHANGED arkVars
            \/ ArkOp /\ UNCHANGED hostVars
            \/ HostRestart \/ ArkRestart \/ Noise
<1>1. ASSUME NEW kind, Disturbed(kind) PROVE faults' \in 0 .. MaxFaults
  BY <1>1, WireAssumption DEF Disturbed
<1>2. CASE HostStep
  BY <1>2 DEF HostStep, HostOp
<1>3. CASE ArkStep
  BY <1>3 DEF ArkStep, ArkOp
<1>4. CASE Timeout
  <2>1. faults' \in 0 .. MaxFaults
    BY <1>1, <1>4 DEF Timeout
  <2>2. \/ HostReadFails /\ UNCHANGED arkVars
        \/ ArkReadFails /\ UNCHANGED hostVars
    BY <1>4 DEF Timeout
  <2>3. QED
    BY <2>1, <2>2 DEF HostOp, ArkOp
<1>5. CASE Torn
  <2>1. faults' \in 0 .. MaxFaults
    BY <1>1, <1>5 DEF Torn
  <2>2. \/ HostOp /\ UNCHANGED arkVars
        \/ ArkOp /\ UNCHANGED hostVars
    BY <1>5, Zenon DEF Torn, HostOp, ArkOp
  <2>3. QED
    BY <2>1, <2>2
<1>6. CASE Reconnect
  <2>1. faults' \in 0 .. MaxFaults
    BY <1>1, <1>6 DEF Reconnect
  <2>2. HostOp /\ UNCHANGED arkVars
    BY <1>6, Zenon DEF Reconnect, HostOp
  <2>3. QED
    BY <2>1, <2>2
<1>7. CASE HostRestart
  BY <1>1, <1>7 DEF HostRestart
<1>8. CASE ArkRestart
  BY <1>1, <1>8 DEF ArkRestart
<1>9. CASE Noise
  BY <1>1, <1>9 DEF Noise
<1>10. CASE Oversize
  <2>1. faults' \in 0 .. MaxFaults
    BY <1>10 DEF Oversize
  <2>2. \/ HostOp /\ UNCHANGED arkVars
        \/ ArkOp /\ UNCHANGED hostVars
    BY <1>10 DEF Oversize, HostOp, ArkOp
  <2>3. QED
    BY <2>1, <2>2
<1>11. QED
  BY <1>2, <1>3, <1>4, <1>5, <1>6, <1>7, <1>8, <1>9, <1>10 DEF Next

-----------------------------------------------------------------------------
(* Facts about the streams.                                                *)

LEMMA PacketTypes ==
  /\ Empty \in Packet /\ Junk \in Packet /\ Undecodable \in Packet
  /\ \A h \in Nat : HostHello(h) \in Packet
  /\ \A h, a \in Nat : ArkHello(h, a) \in Packet /\ HostAck(h, a) \in Packet
  /\ \A h, a, n \in Nat : Message(h, a, n) \in Packet
BY DEF Empty, Junk, Undecodable, HostHello, ArkHello, HostAck, Message, Sealed, Packet, PacketType

LEMMA TokenTypes ==
  /\ Delim \in Token /\ Cut \in Token
  /\ \A p \in Packet : Body(p) \in Token
BY PacketTypes DEF Delim, Cut, Body, Token

LEMMA WriteTypes ==
  /\ \A ok \in BOOLEAN : SendReset(ok) \subseteq Seq(Token)
  /\ \A p \in Packet : \A ok \in BOOLEAN : SendPacket(p, ok) \subseteq Seq(Token)
<1>1. <<>> \in Seq(Token)
  OBVIOUS
<1>2. \A t \in Token : <<t>> \in Seq(Token)
  OBVIOUS
<1>3. \A t, u \in Token : <<t, u>> \in Seq(Token)
  OBVIOUS
<1>4. ASSUME NEW ok \in BOOLEAN PROVE SendReset(ok) \subseteq Seq(Token)
  BY <1>1, <1>2, <1>3, TokenTypes DEF SendReset, Reset
<1>5. ASSUME NEW p \in Packet, NEW ok \in BOOLEAN PROVE SendPacket(p, ok) \subseteq Seq(Token)
  <2>1. Body(p) \in Token
    BY TokenTypes
  <2>2. QED
    BY <1>1, <1>2, <1>3, <2>1, TokenTypes DEF SendPacket, Frame
<1>6. QED
  BY <1>4, <1>5

LEMMA Dropped ==
  ASSUME NEW s \in Seq(Token), NEW n \in 0 .. Len(s)
  PROVE  /\ SubSeq(s, n + 1, Len(s)) \in Seq(Token)
         /\ Len(SubSeq(s, n + 1, Len(s))) = Len(s) - n
         /\ \A k \in 1 .. Len(s) - n : SubSeq(s, n + 1, Len(s))[k] = s[k + n]
<1>1. \A i \in n + 1 .. Len(s) : s[i] \in Token
  OBVIOUS
<1>2. n + 1 \in Int /\ Len(s) \in Int
  OBVIOUS
<1>3. /\ SubSeq(s, n + 1, Len(s)) \in Seq(Token)
      /\ Len(SubSeq(s, n + 1, Len(s))) = IF n + 1 <= Len(s) THEN Len(s) - (n + 1) + 1 ELSE 0
      /\ \A i \in 1 .. Len(s) - (n + 1) + 1 : SubSeq(s, n + 1, Len(s))[i] = s[(n + 1) + i - 1]
  BY <1>1, <1>2, SubSeqProperties
<1>4. QED
  BY <1>3

(* r is what follows the first n tokens of s, maybe with its first token   *)
(* damaged.                                                                *)
IsTail(r, s, n) ==
  /\ Len(r) = Len(s) - n
  /\ \A k \in 1 .. Len(r) : r[k] = s[k + n] \/ (k = 1 /\ r[k] = Cut)

(* The damage spares the delimiters.                                       *)
SameDelims(r, s, n) == \A k \in 1 .. Len(r) : s[k + n] = Delim => r[k] = Delim

LEMMA RestIsTail ==
  ASSUME NEW s \in Seq(Token), NEW p \in NextPackets(s)
  PROVE  /\ Rest(s) \in Seq(Token)
         /\ \E d \in 1 .. Len(s) :
              IsFirstDelim(s, d) /\ IsTail(Rest(s), s, d) /\ p \in Decodings(s, d)
                /\ (\A k \in 1 .. Len(Rest(s)) : Rest(s)[k] = s[k + d])
<1>1. PICK e \in DOMAIN s : IsFirstDelim(s, e) /\ p \in Decodings(s, e)
  BY DEF NextPackets
<1> DEFINE d == CHOOSE f \in DOMAIN s : IsFirstDelim(s, f)
<1>2. d \in 1 .. Len(s) /\ IsFirstDelim(s, d)
  BY <1>1
<1>3. d = e
  BY <1>1, <1>2 DEF IsFirstDelim
<1>4. Rest(s) = SubSeq(s, d + 1, Len(s))
  BY DEF Rest
<1> HIDE DEF d
<1>5. /\ Rest(s) \in Seq(Token) /\ Len(Rest(s)) = Len(s) - d
      /\ \A k \in 1 .. Len(Rest(s)) : Rest(s)[k] = s[k + d]
  BY <1>2, <1>4, Dropped
<1>6. QED
  BY <1>1, <1>2, <1>3, <1>5 DEF IsTail

(* What is glued together may be read as well as discarded.                *)
LEMMA GluedRead ==
  ASSUME NEW s \in Seq(Token), Glued(s)
  PROVE  Undecodable \in NextPackets(s) /\ Undecodable # Empty
<1>1. PICK d \in DOMAIN s : IsFirstDelim(s, d) /\ d > 2
  BY DEF Glued
<1>2. Undecodable \in Decodings(s, d)
  BY <1>1 DEF Decodings
<1>3. Undecodable # Empty
  BY DEF Undecodable, Empty, Sealed
<1>4. QED
  BY <1>1, <1>2, <1>3 DEF NextPackets

LEMMA Joined ==
  ASSUME NEW s \in Seq(Token), NEW t \in Seq(Token)
  PROVE  /\ s \o t \in Seq(Token) /\ Len(s \o t) = Len(s) + Len(t)
         /\ \A k \in 1 .. Len(s) : (s \o t)[k] = s[k]
         /\ \A k \in Len(s) + 1 .. Len(s) + Len(t) : (s \o t)[k] = t[k - Len(s)]
OBVIOUS

LEMMA RemainsIsTail ==
  ASSUME NEW s \in Seq(Token), NEW r \in Remains(s)
  PROVE  /\ r \in Seq(Token)
         /\ \E n \in 0 .. Len(s) : IsTail(r, s, n) /\ SameDelims(r, s, n)
<1>1. CASE \E k \in 1 .. Len(s) + 1 : r = SubSeq(s, k, Len(s))
  <2>1. PICK k \in 1 .. Len(s) + 1 : r = SubSeq(s, k, Len(s))
    BY <1>1
  <2>2. /\ r \in Seq(Token) /\ Len(r) = Len(s) - (k - 1)
        /\ \A j \in 1 .. Len(r) : r[j] = s[j + (k - 1)]
    <3>1. k - 1 \in 0 .. Len(s) /\ (k - 1) + 1 = k
      OBVIOUS
    <3>2. QED
      BY <2>1, <3>1, Dropped
  <2>3. k - 1 \in 0 .. Len(s)
    OBVIOUS
  <2>4. QED
    BY <2>2, <2>3 DEF IsTail, SameDelims
<1>2. CASE \E k \in DOMAIN s : s[k].kind = "body" /\ r = <<Cut>> \o SubSeq(s, k + 1, Len(s))
  <2>0. DOMAIN s = 1 .. Len(s)
    OBVIOUS
  <2>1. PICK k \in 1 .. Len(s) :
          s[k].kind = "body" /\ r = <<Cut>> \o SubSeq(s, k + 1, Len(s))
    BY <1>2, <2>0
  <2>1a. s[k] # Delim
    BY <2>1 DEF Delim
  <2> DEFINE t == SubSeq(s, k + 1, Len(s))
  <2>2. /\ t \in Seq(Token) /\ Len(t) = Len(s) - k
        /\ \A j \in 1 .. Len(t) : t[j] = s[j + k]
    BY Dropped
  <2> HIDE DEF t
  <2>3. <<Cut>> \in Seq(Token) /\ Len(<<Cut>>) = 1 /\ <<Cut>>[1] = Cut
    BY TokenTypes
  <2>4. r = <<Cut>> \o t
    BY <2>1 DEF t
  <2>5. r \in Seq(Token) /\ Len(r) = 1 + Len(t)
    BY <2>2, <2>3, <2>4, Joined
  <2>6. r[1] = Cut /\ \A j \in 2 .. Len(r) : r[j] = t[j - 1]
    BY <2>2, <2>3, <2>4, Joined
  <2>7. ASSUME NEW j \in 2 .. Len(r) PROVE r[j] = s[j + (k - 1)]
    <3>1. r[j] = t[j - 1] /\ j - 1 \in 1 .. Len(t)
      BY <2>2, <2>5, <2>6
    <3>2. t[j - 1] = s[(j - 1) + k]
      BY <2>2, <3>1
    <3>3. (j - 1) + k = j + (k - 1)
      BY <2>5
    <3>4. QED
      BY <3>1, <3>2, <3>3
  <2>8. Len(r) = Len(s) - (k - 1)
    BY <2>2, <2>5
  <2>9. k - 1 \in 0 .. Len(s)
    OBVIOUS
  <2>10. IsTail(r, s, k - 1)
    <3>1. ASSUME NEW j \in 1 .. Len(r), j # 1 PROVE r[j] = s[j + (k - 1)]
      BY <2>5, <2>7, <3>1
    <3>2. QED
      BY <2>6, <2>8, <3>1 DEF IsTail
  <2>11. SameDelims(r, s, k - 1)
    <3>1. ASSUME NEW j \in 1 .. Len(r), s[j + (k - 1)] = Delim PROVE r[j] = Delim
      <4>1. j # 1
        BY <2>1a, <3>1
      <4>2. j \in 2 .. Len(r)
        BY <2>5, <4>1
      <4>3. QED
        BY <2>7, <3>1, <4>2
    <3>2. QED
      BY <3>1 DEF SameDelims
  <2>12. QED
    BY <2>5, <2>9, <2>10, <2>11
<1>3. QED
  BY <1>1, <1>2 DEF Remains

LEMMA PacketsRead ==
  ASSUME NEW s \in Seq(Token), NEW p \in NextPackets(s)
  PROVE  p \in Packet
<1>1. PICK d \in DOMAIN s : p \in Decodings(s, d)
  BY DEF NextPackets
<1>2. s[1] \in Token
  BY <1>1
<1>3. s[1].packet \in Packet
  BY <1>2 DEF Token
<1>4. QED
  BY <1>1, <1>3, PacketTypes DEF Decodings

-----------------------------------------------------------------------------
(* Types.                                                                  *)

LEMMA SessionTypes ==
  /\ NoSession \in Session
  /\ \A h, a \in Nat : NewSession(h, a) \in Session
  /\ \A s \in Session : s.host \in Nat /\ s.ark \in Nat /\ s.sent \in Nat /\ s.got \in Nat
  /\ \A s \in Session : [s EXCEPT !.got = @ + 1] \in Session
  /\ \A s \in Session : [s EXCEPT !.sent = @ + 1] \in Session
BY DEF Session, NoSession, NewSession

LEMMA HostWriteTypes ==
  ASSUME h2a \in Seq(Token), NEW W, W \subseteq Seq(Token), HostWrites(W)
  PROVE  h2a' \in Seq(Token)
BY Joined DEF HostWrites

LEMMA ArkWriteTypes ==
  ASSUME a2h \in Seq(Token), NEW W, W \subseteq Seq(Token), ArkWrites(W)
  PROVE  a2h' \in Seq(Token)
BY Joined DEF ArkWrites

LEMMA HandshakeReturnTypes ==
  ASSUME NEW res \in HostResults, HandshakeReturns(res)
  PROVE  hostPc' \in {"idle", "hello", "ack"} /\ stale' \in 0 .. MAX_STALE_FRAMES /\ hostRes' \in HostResults
BY HostAssumption DEF HandshakeReturns

LEMMA HostOpTypes ==
  ASSUME h2a \in Seq(Token), a2h \in Seq(Token), HostTypeOK, HostOp
  PROVE  h2a' \in Seq(Token) /\ a2h' \in Seq(Token) /\ HostTypeOK'
<1> USE HostAssumption DEF HostTypeOK, HostResults
<1>1. ASSUME NEW ok \in BOOLEAN, HostReset(ok) PROVE h2a' \in Seq(Token) /\ a2h' \in Seq(Token) /\ HostTypeOK'
  <2>1. h2a' \in Seq(Token)
    BY <1>1, WriteTypes, HostWriteTypes DEF HostReset
  <2>2. hostKey' \in 0 .. MaxAttempts /\ hostSession' \in Session /\ a2h' = a2h
    BY <1>1, SessionTypes DEF HostReset
  <2>3. /\ hostPc' \in {"idle", "hello", "ack"} /\ stale' \in 0 .. MAX_STALE_FRAMES
        /\ hostRes' \in HostResults
    BY <1>1, HandshakeReturnTypes DEF HostReset
  <2>4. QED
    BY <2>1, <2>2, <2>3
<1>2. ASSUME NEW ok \in BOOLEAN, HostSendHello(ok) PROVE h2a' \in Seq(Token) /\ a2h' \in Seq(Token) /\ HostTypeOK'
  <2>1. hostKey \in Nat /\ HostHello(hostKey) \in Packet
    BY PacketTypes
  <2>2. h2a' \in Seq(Token)
    BY <1>2, <2>1, WriteTypes, HostWriteTypes DEF HostSendHello
  <2>3. UNCHANGED <<a2h, hostKey, hostSession>>
    BY <1>2 DEF HostSendHello
  <2>4. /\ hostPc' \in {"idle", "hello", "ack"} /\ stale' \in 0 .. MAX_STALE_FRAMES
        /\ hostRes' \in HostResults
    BY <1>2, HandshakeReturnTypes DEF HostSendHello
  <2>5. QED
    BY <2>2, <2>3, <2>4
<1>3. ASSUME NEW ok \in BOOLEAN, HostSendAck(ok) PROVE h2a' \in Seq(Token) /\ a2h' \in Seq(Token) /\ HostTypeOK'
  <2>1. PICK p \in NextPackets(a2h) :
          /\ HostWrites(SendPacket(HostAck(p.host, p.ark), ok))
          /\ hostSession' = IF ok THEN NewSession(p.host, p.ark) ELSE NoSession
    BY <1>3 DEF HostSendAck
  <2>2. p.host \in Nat /\ p.ark \in Nat
    BY PacketsRead DEF Packet
  <2>3. HostAck(p.host, p.ark) \in Packet
    BY <2>2, PacketTypes
  <2>4. h2a' \in Seq(Token)
    BY <2>1, <2>3, WriteTypes, HostWriteTypes
  <2>5. hostSession' \in Session
    BY <2>1, <2>2, SessionTypes
  <2>6. a2h' \in Seq(Token) /\ UNCHANGED hostKey
    BY <1>3, RestIsTail DEF HostSendAck
  <2>7. /\ hostPc' \in {"idle", "hello", "ack"} /\ stale' \in 0 .. MAX_STALE_FRAMES
        /\ hostRes' \in HostResults
    BY <1>3, HandshakeReturnTypes DEF HostSendAck
  <2>8. QED
    BY <2>4, <2>5, <2>6, <2>7
<1>4. ASSUME NEW ok \in BOOLEAN, HostSendMessage(ok) PROVE h2a' \in Seq(Token) /\ a2h' \in Seq(Token) /\ HostTypeOK'
  <2>1. Message(hostSession.host, hostSession.ark, hostSession.sent) \in Packet
    BY SessionTypes, PacketTypes
  <2>2. h2a' \in Seq(Token)
    BY <1>4, <2>1, WriteTypes, HostWriteTypes DEF HostSendMessage
  <2>3. UNCHANGED <<a2h, hostPc, hostKey, stale, hostRes>> /\ hostSession' \in Session
    BY <1>4, SessionTypes DEF HostSendMessage, AfterSend
  <2>4. QED
    BY <2>2, <2>3
<1>5. ASSUME \/ HostReject \/ HostSkipStale \/ HostAbort \/ HostReadFails \/ HostNextMessage
             \/ HostDiscards
      PROVE  h2a' \in Seq(Token) /\ a2h' \in Seq(Token) /\ HostTypeOK'
  <2>1. h2a' = h2a /\ a2h' \in Seq(Token) /\ hostKey' = hostKey
    BY <1>5, RestIsTail, GluedRead DEF HostReject, HostSkipStale, HostAbort, HostReadFails, HostNextMessage,
       HostDiscards, hostVars
  <2>2. hostSession' \in Session
    BY <1>5, SessionTypes DEF HostReject, HostSkipStale, HostAbort, HostReadFails, HostNextMessage,
       HostDiscards, hostVars
  <2>3. /\ hostPc' \in {"idle", "hello", "ack"} /\ stale' \in 0 .. MAX_STALE_FRAMES
        /\ hostRes' \in HostResults
    <3>1. ASSUME NEW res \in {"stale", "rejected", "undecodable", "recv"}, HandshakeReturns(res)
          PROVE  hostPc' = "idle" /\ stale' = 0 /\ hostRes' = res
      BY <3>1 DEF HandshakeReturns
    <3>2. CASE HostSkipStale
      <4>1. CASE stale + 1 > MAX_STALE_FRAMES
        BY <3>1, <3>2, <4>1 DEF HostSkipStale, TooManyStale
      <4>2. CASE ~(stale + 1 > MAX_STALE_FRAMES)
        <5>1. stale' = stale + 1 /\ UNCHANGED <<hostPc, hostRes>>
          BY <3>2, <4>2 DEF HostSkipStale, TooManyStale
        <5>2. stale' \in 0 .. MAX_STALE_FRAMES
          BY <4>2, <5>1
        <5>3. QED
          BY <5>1, <5>2
      <4>3. QED
        BY <4>1, <4>2
    <3>3a. CASE HostReject
      BY <3>1, <3>3a DEF HostReject
    <3>3b. CASE HostAbort
      BY <3>1, <3>3b DEF HostAbort
    <3>4. CASE HostReadFails
      BY <3>1, <3>4 DEF HostReadFails
    <3>5. CASE HostNextMessage
      BY <3>5 DEF HostNextMessage
    <3>6. CASE HostDiscards
      BY <3>6 DEF HostDiscards, hostVars
    <3>7. QED
      BY <1>5, <3>2, <3>3a, <3>3b, <3>4, <3>5, <3>6
  <2>4. QED
    BY <2>1, <2>2, <2>3
<1>6. QED
  BY <1>1, <1>2, <1>3, <1>4, <1>5 DEF HostOp

LEMMA ArkOpTypes ==
  ASSUME h2a \in Seq(Token), a2h \in Seq(Token), ArkTypeOK, ArkOp
  PROVE  h2a' \in Seq(Token) /\ a2h' \in Seq(Token) /\ ArkTypeOK'
<1> USE DEF ArkTypeOK
<1>1. ASSUME NEW ok \in BOOLEAN, ArkSendHello(ok) PROVE h2a' \in Seq(Token) /\ a2h' \in Seq(Token) /\ ArkTypeOK'
  <2>1. PICK p \in NextPackets(h2a) :
          arkHost' = p.host /\ ArkWrites(SendPacket(ArkHello(p.host, arkKey'), ok))
    BY <1>1 DEF ArkSendHello
  <2>2. p.host \in Nat /\ arkKey' \in Nat
    BY <1>1, PacketsRead DEF Packet, ArkSendHello
  <2>3. ArkHello(p.host, arkKey') \in Packet
    BY <2>2, PacketTypes
  <2>4. a2h' \in Seq(Token)
    BY <2>1, <2>3, WriteTypes, ArkWriteTypes
  <2>5. h2a' \in Seq(Token) /\ arkPc' \in {"serve", "hello", "ack"} /\ UNCHANGED <<arkSession, lapsed>>
    BY <1>1, RestIsTail DEF ArkSendHello
  <2>6. QED
    BY <2>1, <2>2, <2>4, <2>5
<1>2. ASSUME NEW ok \in BOOLEAN, ArkSendMessage(ok) PROVE h2a' \in Seq(Token) /\ a2h' \in Seq(Token) /\ ArkTypeOK'
  <2>1. Message(arkSession.host, arkSession.ark, arkSession.sent) \in Packet
    BY SessionTypes, PacketTypes
  <2>2. a2h' \in Seq(Token)
    BY <1>2, <2>1, WriteTypes, ArkWriteTypes DEF ArkSendMessage
  <2>3. UNCHANGED <<h2a, arkPc, arkKey, arkHost, lapsed>> /\ arkSession' \in Session
    BY <1>2, SessionTypes DEF ArkSendMessage, AfterSend
  <2>4. QED
    BY <2>2, <2>3
<1>3. ASSUME \/ ArkReset \/ ArkNextMessage \/ ArkStartOver \/ ArkEstablish \/ ArkHandshakeFails
             \/ ArkReadFails \/ ArkDiscards
      PROVE  h2a' \in Seq(Token) /\ a2h' \in Seq(Token) /\ ArkTypeOK'
  <2>1. a2h' = a2h /\ h2a' \in Seq(Token) /\ UNCHANGED <<arkKey, arkHost>>
    BY <1>3, RestIsTail, GluedRead DEF ArkReset, ArkNextMessage, ArkStartOver, ArkEstablish,
       ArkHandshakeFails, ArkReadFails, ArkDiscards, arkVars
  <2>2. arkSession' \in Session
    BY <1>3, SessionTypes DEF ArkReset, ArkNextMessage, ArkStartOver, ArkEstablish,
       ArkHandshakeFails, ArkReadFails, ArkDiscards, arkVars
  <2>3. arkPc' \in {"serve", "hello", "ack"} /\ lapsed' \in BOOLEAN
    BY <1>3 DEF ArkReset, ArkNextMessage, ArkStartOver, ArkEstablish, ArkHandshakeFails, ArkReadFails,
       ArkDiscards, arkVars
  <2>4. QED
    BY <2>1, <2>2, <2>3
<1>4. QED
  BY <1>1, <1>2, <1>3 DEF ArkOp

LEMMA TypeOKInit == Init => TypeOK
<1> SUFFICES ASSUME Init PROVE TypeOK
  OBVIOUS
<1>1. HostTypeOK
  BY SessionTypes, HostAssumption DEF Init, HostInit, HostTypeOK, HostResults
<1>2. ArkTypeOK
  BY SessionTypes DEF Init, ArkInit, ArkTypeOK
<1>3. h2a \in Seq(Token) /\ a2h \in Seq(Token)
  BY DEF Init
<1>4. faults \in 0 .. MaxFaults
  BY WireAssumption DEF Init
<1>5. QED
  BY <1>1, <1>2, <1>3, <1>4 DEF TypeOK

LEMMA TypeOKStep == TypeOK /\ [Next]_vars => TypeOK'
<1> SUFFICES ASSUME TypeOK, Next PROVE TypeOK'
  BY DEF TypeOK, HostTypeOK, ArkTypeOK, vars, hostVars, arkVars
<1> USE DEF TypeOK
<1>1. faults' \in 0 .. MaxFaults
  BY StepCases
<1>2. CASE HostOp /\ UNCHANGED arkVars
  BY <1>1, <1>2, HostOpTypes DEF arkVars, ArkTypeOK
<1>3. CASE ArkOp /\ UNCHANGED hostVars
  BY <1>1, <1>3, ArkOpTypes DEF hostVars, HostTypeOK
<1>4. CASE HostRestart
  <2>1. a2h' \in Seq(Token) /\ UNCHANGED <<h2a, hostKey, arkVars>>
    BY <1>4, RemainsIsTail DEF HostRestart
  <2>2. HostTypeOK'
    BY <1>4, SessionTypes, HostAssumption DEF HostRestart, HostTypeOK, HostResults
  <2>3. QED
    BY <1>1, <2>1, <2>2 DEF arkVars, ArkTypeOK
<1>5. CASE ArkRestart
  <2>1. h2a' \in Seq(Token) /\ UNCHANGED <<a2h, arkKey, arkHost, hostVars>>
    BY <1>5, RemainsIsTail DEF ArkRestart
  <2>2. ArkTypeOK'
    BY <1>5, <2>1, SessionTypes DEF ArkRestart, ArkTypeOK
  <2>3. QED
    BY <1>1, <2>1, <2>2 DEF hostVars, HostTypeOK
<1>6. CASE Noise
  <2>1. h2a' \in Seq(Token) /\ UNCHANGED <<a2h, hostVars, arkVars>>
    BY <1>6, TokenTypes DEF Noise
  <2>2. QED
    BY <1>1, <2>1 DEF hostVars, arkVars, HostTypeOK, ArkTypeOK
<1>7. QED
  BY <1>2, <1>3, <1>4, <1>5, <1>6, StepCases

(* The state of both ends and of the streams stays well formed, whatever   *)
(* disturbs them: the stale count within its limit, streams of tokens.     *)
THEOREM WireTypeCorrect == Spec => []TypeOK
BY TypeOKInit, TypeOKStep, PTL DEF Spec

-----------------------------------------------------------------------------
(* What a write adds to a stream.                                          *)

LEMMA PacketWritten ==
  ASSUME NEW p \in Packet, NEW ok \in BOOLEAN, NEW t \in SendPacket(p, ok)
  PROVE  /\ t \in Seq(Token)
         /\ \A k \in 1 .. Len(t) : \/ k = 1 /\ t[k].packet \in {p, Junk}
                                   \/ t[k] = Delim
<1>1. t \in Seq(Token)
  BY WriteTypes
<1>2. Body(p).packet = p /\ Cut.packet = Junk
  BY DEF Body, Cut
<1>3. t = <<>> \/ t = <<Cut>> \/ t = <<Body(p)>> \/ t = <<Body(p), Delim>>
  BY DEF SendPacket, Frame
<1>4. QED
  BY <1>1, <1>2, <1>3

LEMMA ResetWritten ==
  ASSUME NEW ok \in BOOLEAN, NEW t \in SendReset(ok)
  PROVE  /\ t \in Seq(Token)
         /\ \A k \in 1 .. Len(t) : t[k] = Delim
         /\ ok => t = <<Delim, Delim>>
<1>1. t \in Seq(Token)
  BY WriteTypes
<1>2. t = <<>> \/ t = <<Delim>> \/ t = <<Delim, Delim>>
  BY DEF SendReset, Reset
<1>3. QED
  BY <1>1, <1>2 DEF SendReset, Reset

LEMMA SpecialTypes ==
  /\ Delim.packet.type = "empty" /\ Cut.packet.type = "junk"
  /\ Empty.type = "empty" /\ Junk.type = "junk" /\ Undecodable.type = "undecodable"
BY DEF Delim, Cut, Empty, Junk, Undecodable, Sealed

(* A packet somebody sent is read from the first token.                    *)
LEMMA SentPacketRead ==
  ASSUME NEW s \in Seq(Token), NEW p \in NextPackets(s),
         p.type \notin {"empty", "junk", "undecodable"}
  PROVE  /\ Len(s) >= 2 /\ s[1].packet = p /\ s[2] = Delim
         /\ Rest(s) \in Seq(Token) /\ IsTail(Rest(s), s, 2)
         /\ \A k \in 1 .. Len(Rest(s)) : Rest(s)[k] = s[k + 2]
<1>1. PICK d \in 1 .. Len(s) :
        /\ IsFirstDelim(s, d) /\ IsTail(Rest(s), s, d) /\ p \in Decodings(s, d)
        /\ \A k \in 1 .. Len(Rest(s)) : Rest(s)[k] = s[k + d]
  BY RestIsTail
<1>2. d = 2 /\ p = s[1].packet
  BY <1>1, SpecialTypes DEF Decodings
<1>3. QED
  BY <1>1, <1>2, RestIsTail DEF IsFirstDelim

-----------------------------------------------------------------------------
(* How each part of the invariant fares when a stream is read from or      *)
(* written to.                                                             *)

LEMMA HellosRead ==
  ASSUME TypeOK, HellosInOrder, h2a' \in Seq(Token),
         NEW n \in 0 .. Len(h2a), IsTail(h2a', h2a, n),
         arkHost' = arkHost, hostKey' = hostKey,
         hostPc' = hostPc
  PROVE  HellosInOrder'
<1>1. h2a \in Seq(Token) /\ Len(h2a') = Len(h2a) - n
  BY DEF TypeOK, IsTail
<1>2. ASSUME NEW k \in 1 .. Len(h2a'), h2a'[k].packet.type = "hello"
      PROVE  k + n \in 1 .. Len(h2a) /\ h2a'[k] = h2a[k + n]
  BY <1>1, <1>2, SpecialTypes DEF IsTail
<1>3. DOMAIN h2a = 1 .. Len(h2a) /\ DOMAIN h2a' = 1 .. Len(h2a')
  BY <1>1
<1>4. ASSUME NEW k \in 1 .. Len(h2a'), h2a'[k].packet.type = "hello"
      PROVE  /\ arkHost' < h2a'[k].packet.host
             /\ h2a'[k].packet.host <= hostKey'
             /\ hostPc' = "hello" => h2a'[k].packet.host < hostKey'
  <2>1. k + n \in DOMAIN h2a /\ h2a'[k] = h2a[k + n] /\ h2a[k + n].packet.type = "hello"
    BY <1>2, <1>3, <1>4
  <2>2. /\ arkHost < h2a[k + n].packet.host
        /\ h2a[k + n].packet.host <= hostKey
        /\ hostPc = "hello" => h2a[k + n].packet.host < hostKey
    BY <2>1 DEF HellosInOrder
  <2>3. QED
    BY <2>1, <2>2
<1>5. ASSUME NEW k \in 1 .. Len(h2a'), NEW l \in 1 .. Len(h2a'), k < l,
             h2a'[k].packet.type = "hello", h2a'[l].packet.type = "hello"
      PROVE  h2a'[k].packet.host < h2a'[l].packet.host
  <2>1. k + n < l + n
    BY <1>5
  <2>2. /\ k + n \in DOMAIN h2a /\ h2a'[k] = h2a[k + n] /\ h2a[k + n].packet.type = "hello"
        /\ l + n \in DOMAIN h2a /\ h2a'[l] = h2a[l + n] /\ h2a[l + n].packet.type = "hello"
    BY <1>2, <1>3, <1>5
  <2>3. h2a[k + n].packet.host < h2a[l + n].packet.host
    BY <2>1, <2>2 DEF HellosInOrder
  <2>4. QED
    BY <2>2, <2>3
<1>6. arkHost' <= hostKey' /\ (hostPc' = "hello" => arkHost' < hostKey')
  BY DEF HellosInOrder
<1>7. QED
  BY <1>3, <1>4, <1>5, <1>6 DEF HellosInOrder

(* Nothing about the hellos changes when no hello is written.              *)
LEMMA HellosKept ==
  ASSUME TypeOK, HellosInOrder, NEW t \in Seq(Token), h2a' = h2a \o t,
         \A k \in 1 .. Len(t) : t[k].packet.type # "hello",
         arkHost' = arkHost,
         \/ hostKey' = hostKey /\ (hostPc' = "hello" => hostPc = "hello")
         \/ hostKey' = hostKey + 1
  PROVE  HellosInOrder'
<1>1. /\ h2a \in Seq(Token) /\ h2a' \in Seq(Token) /\ Len(h2a') = Len(h2a) + Len(t)
      /\ arkHost \in Nat /\ hostKey \in Nat
  BY Joined DEF TypeOK, HostTypeOK, ArkTypeOK
<1>2. ASSUME NEW k \in 1 .. Len(h2a'), h2a'[k].packet.type = "hello"
      PROVE  k \in 1 .. Len(h2a) /\ h2a'[k] = h2a[k] /\ h2a[k].packet.host \in Nat
  <2>1. k \in 1 .. Len(h2a) /\ h2a'[k] = h2a[k]
    BY <1>1, <1>2, Joined
  <2>2. h2a[k] \in Token
    BY <1>1, <2>1
  <2>3. QED
    BY <2>1, <2>2 DEF Token, Packet
<1>3. DOMAIN h2a = 1 .. Len(h2a) /\ DOMAIN h2a' = 1 .. Len(h2a')
  BY <1>1
<1>4. ASSUME NEW k \in 1 .. Len(h2a'), h2a'[k].packet.type = "hello"
      PROVE  /\ arkHost' < h2a'[k].packet.host
             /\ h2a'[k].packet.host <= hostKey'
             /\ hostPc' = "hello" => h2a'[k].packet.host < hostKey'
  <2>1. /\ arkHost < h2a[k].packet.host
        /\ h2a[k].packet.host <= hostKey
        /\ hostPc = "hello" => h2a[k].packet.host < hostKey
    BY <1>2, <1>3, <1>4 DEF HellosInOrder
  <2>2. QED
    BY <1>1, <1>2, <1>4, <2>1
<1>5. ASSUME NEW k \in 1 .. Len(h2a'), NEW l \in 1 .. Len(h2a'), k < l,
             h2a'[k].packet.type = "hello", h2a'[l].packet.type = "hello"
      PROVE  h2a'[k].packet.host < h2a'[l].packet.host
  BY <1>2, <1>3, <1>5 DEF HellosInOrder
<1>6. arkHost' <= hostKey' /\ (hostPc' = "hello" => arkHost' < hostKey')
  BY <1>1 DEF HellosInOrder
<1>7. QED
  BY <1>3, <1>4, <1>5, <1>6 DEF HellosInOrder

LEMMA AcksRead ==
  ASSUME TypeOK, AcksOvertaken, h2a' \in Seq(Token),
         NEW n \in 0 .. Len(h2a), IsTail(h2a', h2a, n), hostPc' = hostPc
  PROVE  AcksOvertaken'
<1> SUFFICES ASSUME hostPc # "idle", NEW k \in DOMAIN h2a', h2a'[k].packet.type = "ack"
             PROVE  \E l \in k + 2 .. Len(h2a') : h2a'[l] = Delim /\ h2a'[l - 1] = Delim
  BY DEF AcksOvertaken
<1>1. h2a \in Seq(Token) /\ Len(h2a') = Len(h2a) - n /\ k \in 1 .. Len(h2a')
  BY DEF TypeOK, IsTail
<1>2. k + n \in DOMAIN h2a /\ h2a[k + n].packet.type = "ack"
  BY <1>1, SpecialTypes DEF IsTail
<1>3. PICK l \in k + n + 2 .. Len(h2a) : h2a[l] = Delim /\ h2a[l - 1] = Delim
  BY <1>2 DEF AcksOvertaken
<1>4. /\ l - n \in k + 2 .. Len(h2a') /\ l - n \in 1 .. Len(h2a') /\ l - n # 1
      /\ (l - n) - 1 \in 1 .. Len(h2a') /\ (l - n) - 1 # 1
      /\ (l - n) + n = l /\ ((l - n) - 1) + n = l - 1
  BY <1>1, <1>3
<1>5. h2a'[l - n] = Delim /\ h2a'[(l - n) - 1] = Delim
  BY <1>3, <1>4 DEF IsTail
<1>6. QED
  BY <1>4, <1>5

LEMMA AcksKept ==
  ASSUME TypeOK, AcksOvertaken, NEW t \in Seq(Token), h2a' = h2a \o t,
         \A k \in 1 .. Len(t) : t[k].packet.type # "ack",
         hostPc' # "idle" => hostPc # "idle"
  PROVE  AcksOvertaken'
<1> SUFFICES ASSUME hostPc # "idle", NEW k \in DOMAIN h2a', h2a'[k].packet.type = "ack"
             PROVE  \E l \in k + 2 .. Len(h2a') : h2a'[l] = Delim /\ h2a'[l - 1] = Delim
  BY DEF AcksOvertaken
<1>1. h2a \in Seq(Token) /\ Len(h2a') = Len(h2a) + Len(t) /\ k \in 1 .. Len(h2a')
  BY Joined DEF TypeOK
<1>2. k \in DOMAIN h2a /\ h2a[k].packet.type = "ack"
  BY <1>1, Joined
<1>3. PICK l \in k + 2 .. Len(h2a) : h2a[l] = Delim /\ h2a[l - 1] = Delim
  BY <1>2 DEF AcksOvertaken
<1>4. l \in 1 .. Len(h2a) /\ l - 1 \in 1 .. Len(h2a) /\ l \in k + 2 .. Len(h2a')
  BY <1>1, <1>3
<1>5. h2a'[l] = Delim /\ h2a'[l - 1] = Delim
  BY <1>1, <1>3, <1>4, Joined
<1>6. QED
  BY <1>4, <1>5

LEMMA EmptyFrameKept ==
  ASSUME NEW s \in Seq(Token), NEW t \in Seq(Token), EmptyFrameIn(s)
  PROVE  EmptyFrameIn(s \o t)
<1>1. PICK k \in 1 .. Len(s) : s[k] = Delim /\ (k = 1 \/ s[k - 1] = Delim)
  BY DEF EmptyFrameIn
<1>2. k \in DOMAIN (s \o t) /\ (s \o t)[k] = Delim
  BY <1>1, Joined
<1>3. k = 1 \/ (s \o t)[k - 1] = Delim
  BY <1>1, Joined
<1>4. QED
  BY <1>2, <1>3 DEF EmptyFrameIn

-----------------------------------------------------------------------------
(* The steps of the host.                                                  *)

LEMMA NothingWritten == \A s \in Seq(Token) : s \o <<>> = s
OBVIOUS

LEMMA SessionFields ==
  /\ NoSession.host = 0 /\ NoSession.ark = 0
  /\ \A h, a \in Nat : NewSession(h, a).host = h /\ NewSession(h, a).ark = a
  /\ \A s \in Session : LET t == [s EXCEPT !.got = @ + 1] IN t.host = s.host /\ t.ark = s.ark
  /\ \A s \in Session : LET t == [s EXCEPT !.sent = @ + 1] IN t.host = s.host /\ t.ark = s.ark
BY DEF NoSession, NewSession, Session

LEMMA PacketTypesWritten ==
  /\ \A h : HostHello(h).type = "hello" /\ HostHello(h).host = h
  /\ \A h, a : ArkHello(h, a).type = "arkhello" /\ ArkHello(h, a).host = h /\ ArkHello(h, a).ark = a
  /\ \A h, a : HostAck(h, a).type = "ack"
  /\ \A h, a, n : Message(h, a, n).type = "message"
BY DEF HostHello, ArkHello, HostAck, Message, Sealed

(* What the host keeps of the answers while it reads.                      *)
LEMMA AnswersRead ==
  ASSUME TypeOK, AnswersKnown, a2h' \in Seq(Token),
         NEW n \in 0 .. Len(a2h), IsTail(a2h', a2h, n), UNCHANGED arkVars,
         hostSession' # NoSession =>
           hostPc' = "idle" /\ hostSession'.host = hostKey' /\ Answered(hostKey', hostSession'.ark)
  PROVE  AnswersKnown'
<1>1. a2h \in Seq(Token) /\ Len(a2h') = Len(a2h) - n
  BY DEF TypeOK, IsTail
<1>2. ASSUME NEW k \in DOMAIN a2h', a2h'[k].packet.type = "arkhello"
      PROVE  Answered(a2h'[k].packet.host, a2h'[k].packet.ark)
  <2>1. k + n \in DOMAIN a2h /\ a2h'[k] = a2h[k + n]
    BY <1>1, <1>2, SpecialTypes DEF IsTail
  <2>2. QED
    BY <1>2, <2>1 DEF AnswersKnown
<1>3. \A h, a : Answered(h, a) => Answered(h, a)'
  BY DEF Answered, arkVars
<1>4. arkSession' # NoSession =>
        arkPc' = "serve" /\ arkSession'.host = arkHost' /\ arkSession'.ark = arkKey'
  BY DEF AnswersKnown, arkVars
<1>5. QED
  BY <1>2, <1>3, <1>4 DEF AnswersKnown, Answered, arkVars

(* The parts of the invariant that a step of the host may disturb by what  *)
(* it writes.                                                              *)
StreamInv == HellosInOrder /\ AcksOvertaken /\ OldSessionsEnd

LEMMA HostQuietly ==
  ASSUME WireInv, UNCHANGED arkVars, NEW t \in Seq(Token), h2a' = h2a \o t, hostKey' = hostKey,
         \A k \in 1 .. Len(t) : t[k].packet.type \notin {"hello", "ack"},
         hostPc' = hostPc \/ hostPc' = "idle"
  PROVE  StreamInv'
<1>1. HellosInOrder'
  BY HellosKept DEF WireInv, arkVars
<1>2. AcksOvertaken'
  BY AcksKept DEF WireInv
<1>3. OldSessionsEnd'
  BY EmptyFrameKept DEF WireInv, TypeOK, OldSessionsEnd, arkVars
<1>4. QED
  BY <1>1, <1>2, <1>3 DEF StreamInv

LEMMA HostResetKeepsInv ==
  ASSUME WireInv, UNCHANGED arkVars, NEW ok \in BOOLEAN, HostReset(ok)
  PROVE  StreamInv' /\ AnswersKnown'
<1>1. PICK t \in SendReset(ok) : h2a' = h2a \o t
  BY DEF HostReset, HostWrites
<1>2. /\ t \in Seq(Token) /\ h2a \in Seq(Token)
      /\ \A k \in 1 .. Len(t) : t[k] = Delim
      /\ ok => t = <<Delim, Delim>>
  BY ResetWritten DEF WireInv, TypeOK
<1>3. hostKey' = hostKey + 1 /\ hostSession' = NoSession /\ a2h' = a2h
  BY DEF HostReset
<1>4. HellosInOrder'
  BY <1>1, <1>2, <1>3, SpecialTypes, HellosKept DEF WireInv, arkVars
<1>5. ~ok => hostPc' = "idle"
  BY DEF HostReset, HandshakeReturns
<1>6. ok => /\ Len(h2a') = Len(h2a) + 2 /\ DOMAIN h2a' = 1 .. Len(h2a')
            /\ h2a'[Len(h2a) + 1] = Delim /\ h2a'[Len(h2a) + 2] = Delim
            /\ \A k \in 1 .. Len(h2a') : h2a'[k].packet.type = "ack" => k \in 1 .. Len(h2a)
  <2> SUFFICES ASSUME ok
               PROVE  /\ Len(h2a') = Len(h2a) + 2 /\ DOMAIN h2a' = 1 .. Len(h2a')
                      /\ h2a'[Len(h2a) + 1] = Delim /\ h2a'[Len(h2a) + 2] = Delim
                      /\ \A k \in 1 .. Len(h2a') :
                           h2a'[k].packet.type = "ack" => k \in 1 .. Len(h2a)
    OBVIOUS
  <2>1. Len(t) = 2 /\ t[1] = Delim /\ t[2] = Delim
    BY <1>2
  <2>a. h2a' \in Seq(Token) /\ Len(h2a') = Len(h2a) + 2
    BY <1>1, <1>2, <2>1, Joined
  <2>2. Len(h2a') = Len(h2a) + 2 /\ DOMAIN h2a' = 1 .. Len(h2a')
    BY <2>a
  <2>3. h2a'[Len(h2a) + 1] = Delim /\ h2a'[Len(h2a) + 2] = Delim
    BY <1>1, <1>2, <2>1, Joined
  <2>4. \A k \in 1 .. Len(h2a') : k \in 1 .. Len(h2a) \/ k = Len(h2a) + 1 \/ k = Len(h2a) + 2
    BY <1>2, <2>2
  <2>5. QED
    BY <2>2, <2>3, <2>4, SpecialTypes
<1>7. AcksOvertaken'
  <2> SUFFICES ASSUME ok, NEW k \in DOMAIN h2a', h2a'[k].packet.type = "ack"
               PROVE  \E l \in k + 2 .. Len(h2a') : h2a'[l] = Delim /\ h2a'[l - 1] = Delim
    BY <1>5 DEF AcksOvertaken
  <2>1. k \in 1 .. Len(h2a)
    BY <1>6
  <2>2. Len(h2a) + 2 \in k + 2 .. Len(h2a') /\ (Len(h2a) + 2) - 1 = Len(h2a) + 1
    BY <1>2, <1>6, <2>1
  <2>3. QED
    BY <1>6, <2>2
<1>8. OldSessionsEnd'
  <2> SUFFICES ASSUME ok PROVE EmptyFrameIn(h2a')
    BY <1>5 DEF OldSessionsEnd
  <2>1. Len(h2a) + 2 \in DOMAIN h2a' /\ (Len(h2a) + 2) - 1 = Len(h2a) + 1
    BY <1>2, <1>6
  <2>2. QED
    BY <1>6, <2>1 DEF EmptyFrameIn
<1>9. AnswersKnown'
  <2>1. a2h' \in Seq(Token) /\ 0 \in 0 .. Len(a2h) /\ IsTail(a2h', a2h, 0)
    BY <1>3 DEF WireInv, TypeOK, IsTail
  <2>2. QED
    BY <1>3, <2>1, AnswersRead DEF WireInv
<1>10. QED
  BY <1>4, <1>7, <1>8, <1>9 DEF StreamInv

LEMMA HostSendHelloKeepsInv ==
  ASSUME WireInv, UNCHANGED arkVars, NEW ok \in BOOLEAN, HostSendHello(ok)
  PROVE  StreamInv' /\ AnswersKnown'
<1>1. hostPc = "hello" /\ UNCHANGED <<a2h, hostKey, hostSession>> /\ hostPc' \in {"ack", "idle"}
  BY DEF HostSendHello, HandshakeReturns
<1>2. hostKey \in Nat /\ HostHello(hostKey) \in Packet
  BY PacketTypes DEF WireInv, TypeOK, HostTypeOK
<1>3. PICK t \in SendPacket(HostHello(hostKey), ok) : h2a' = h2a \o t
  BY DEF HostSendHello, HostWrites
<1>4. /\ t \in Seq(Token) /\ h2a \in Seq(Token)
      /\ \A k \in 1 .. Len(t) : \/ k = 1 /\ t[k].packet \in {HostHello(hostKey), Junk}
                                \/ t[k] = Delim
  BY <1>2, PacketWritten DEF WireInv, TypeOK
<1>5. \A k \in 1 .. Len(t) :
        /\ t[k].packet.type # "ack"
        /\ t[k].packet.type = "hello" => k = 1 /\ t[k].packet.host = hostKey
  BY <1>4, PacketTypesWritten, SpecialTypes
<1>6. /\ h2a' \in Seq(Token) /\ Len(h2a') = Len(h2a) + Len(t)
      /\ \A k \in 1 .. Len(h2a) : h2a'[k] = h2a[k]
      /\ \A k \in Len(h2a) + 1 .. Len(h2a) + Len(t) : h2a'[k] = t[k - Len(h2a)]
  BY <1>3, <1>4, Joined
<1>7. DOMAIN h2a = 1 .. Len(h2a) /\ DOMAIN h2a' = 1 .. Len(h2a')
  BY <1>4, <1>6
<1>8. HellosInOrder'
  <2>1. ASSUME NEW k \in 1 .. Len(h2a'), h2a'[k].packet.type = "hello"
        PROVE  \/ k \in 1 .. Len(h2a) /\ h2a'[k] = h2a[k]
                    /\ arkHost < h2a[k].packet.host /\ h2a[k].packet.host < hostKey
               \/ k = Len(h2a) + 1 /\ h2a'[k].packet.host = hostKey
    <3>1. CASE k \in 1 .. Len(h2a)
      <4>1. h2a'[k] = h2a[k] /\ h2a[k].packet.type = "hello"
        BY <1>6, <2>1, <3>1
      <4>2. arkHost < h2a[k].packet.host /\ h2a[k].packet.host < hostKey
        BY <1>1, <1>7, <3>1, <4>1 DEF WireInv, HellosInOrder
      <4>3. QED
        BY <3>1, <4>1, <4>2
    <3>2. CASE k \notin 1 .. Len(h2a)
      <4>1. k \in Len(h2a) + 1 .. Len(h2a) + Len(t) /\ k - Len(h2a) \in 1 .. Len(t)
        BY <1>4, <1>6, <3>2
      <4>2. h2a'[k] = t[k - Len(h2a)]
        BY <1>6, <4>1
      <4>3. k - Len(h2a) = 1 /\ t[k - Len(h2a)].packet.host = hostKey
        BY <1>5, <2>1, <4>1, <4>2
      <4>4. k = Len(h2a) + 1
        BY <1>4, <4>1, <4>3
      <4>5. QED
        BY <4>2, <4>3, <4>4
    <3>3. QED
      BY <3>1, <3>2
  <2>2. arkHost < hostKey /\ arkHost \in Nat
    BY <1>1 DEF WireInv, HellosInOrder, TypeOK, ArkTypeOK
  <2>3. ASSUME NEW k \in 1 .. Len(h2a'), h2a'[k].packet.type = "hello"
        PROVE  arkHost < h2a'[k].packet.host /\ h2a'[k].packet.host <= hostKey
    <3>0. h2a'[k] \in Token
      BY <1>6
    <3>1. h2a'[k].packet.host \in Nat
      BY <3>0 DEF Token, Packet
    <3>2. \/ h2a'[k].packet.host < hostKey /\ arkHost < h2a'[k].packet.host
          \/ h2a'[k].packet.host = hostKey
      BY <2>1, <2>3
    <3>3. QED
      BY <1>2, <2>2, <3>1, <3>2
  <2>4. ASSUME NEW k \in 1 .. Len(h2a'), NEW l \in 1 .. Len(h2a'), k < l,
               h2a'[k].packet.type = "hello", h2a'[l].packet.type = "hello"
        PROVE  h2a'[k].packet.host < h2a'[l].packet.host
    <3>1. k \in 1 .. Len(h2a) /\ h2a'[k] = h2a[k] /\ h2a[k].packet.host < hostKey
      BY <1>4, <1>6, <2>1, <2>4
    <3>2. CASE l \in 1 .. Len(h2a) /\ h2a'[l] = h2a[l]
      BY <1>7, <2>4, <3>1, <3>2 DEF WireInv, HellosInOrder
    <3>3. CASE h2a'[l].packet.host = hostKey
      BY <3>1, <3>3
    <3>4. QED
      BY <2>1, <2>4, <3>2, <3>3
  <2>5. arkHost' = arkHost /\ hostKey' = hostKey /\ hostPc' # "hello"
    BY <1>1 DEF arkVars
  <2>6. arkHost <= hostKey
    BY <1>2, <2>2
  <2>7. QED
    BY <1>7, <2>3, <2>4, <2>5, <2>6 DEF HellosInOrder
<1>9. AcksOvertaken'
  BY <1>1, <1>3, <1>4, <1>5, AcksKept DEF WireInv
<1>10. OldSessionsEnd'
  BY <1>1, <1>3, <1>4, EmptyFrameKept DEF WireInv, OldSessionsEnd, arkVars
<1>11. AnswersKnown'
  <2>1. a2h' \in Seq(Token) /\ 0 \in 0 .. Len(a2h) /\ IsTail(a2h', a2h, 0)
    BY <1>1 DEF WireInv, TypeOK, IsTail
  <2>2. hostSession' = NoSession
    BY <1>1 DEF WireInv, AnswersKnown
  <2>3. QED
    BY <2>1, <2>2, AnswersRead DEF WireInv
<1>12. QED
  BY <1>8, <1>9, <1>10, <1>11 DEF StreamInv

LEMMA HostSendAckKeepsInv ==
  ASSUME WireInv, UNCHANGED arkVars, NEW ok \in BOOLEAN, HostSendAck(ok)
  PROVE  StreamInv' /\ AnswersKnown'
<1>1. hostKey' = hostKey /\ hostPc' = "idle" /\ a2h' = Rest(a2h)
  BY DEF HostSendAck, HandshakeReturns
<1>2. PICK p \in NextPackets(a2h) :
        /\ IsAnswer(p)
        /\ HostWrites(SendPacket(HostAck(p.host, p.ark), ok))
        /\ hostSession' = IF ok THEN NewSession(p.host, p.ark) ELSE NoSession
  BY DEF HostSendAck
<1>a. p.type = "arkhello" /\ p.host = hostKey
  BY <1>2 DEF IsAnswer
<1>3. h2a \in Seq(Token) /\ a2h \in Seq(Token)
  BY DEF WireInv, TypeOK
<1>4. p.host \in Nat /\ p.ark \in Nat
  BY <1>3, PacketsRead DEF Packet
<1>5. PICK t \in SendPacket(HostAck(p.host, p.ark), ok) : h2a' = h2a \o t
  BY <1>2 DEF HostWrites
<1>6. /\ t \in Seq(Token)
      /\ \A k \in 1 .. Len(t) : t[k].packet.type # "hello"
  <2>1. HostAck(p.host, p.ark) \in Packet
    BY <1>4, PacketTypes
  <2>2. HostAck(p.host, p.ark).type = "ack"
    BY PacketTypesWritten
  <2>3. /\ t \in Seq(Token)
        /\ \A k \in 1 .. Len(t) : \/ k = 1 /\ t[k].packet \in {HostAck(p.host, p.ark), Junk}
                                  \/ t[k] = Delim
    BY <1>5, <2>1, PacketWritten
  <2>4. QED
    BY <2>2, <2>3, SpecialTypes
<1>7. HellosInOrder'
  BY <1>1, <1>5, <1>6, HellosKept DEF WireInv, arkVars
<1>8. AcksOvertaken' /\ OldSessionsEnd'
  BY <1>1 DEF AcksOvertaken, OldSessionsEnd
<1>9. /\ Len(a2h) >= 2 /\ a2h[1].packet = p
      /\ Rest(a2h) \in Seq(Token) /\ IsTail(Rest(a2h), a2h, 2)
  BY <1>a, <1>3, <1>2, SentPacketRead
<1>10. Answered(p.host, p.ark)
  <2>1. 1 \in DOMAIN a2h
    BY <1>3, <1>9
  <2>2. QED
    BY <1>a, <1>9, <2>1 DEF WireInv, AnswersKnown
<1>11. hostSession' # NoSession =>
         hostPc' = "idle" /\ hostSession'.host = hostKey' /\ Answered(hostKey', hostSession'.ark)
  BY <1>1, <1>2, <1>a, <1>4, <1>10, SessionFields
<1>12. AnswersKnown'
  <2>1. 2 \in 0 .. Len(a2h)
    BY <1>3, <1>9
  <2>2. QED
    BY <1>1, <1>9, <1>11, <2>1, AnswersRead DEF WireInv
<1>13. QED
  BY <1>7, <1>8, <1>12 DEF StreamInv

LEMMA HostSendMessageKeepsInv ==
  ASSUME WireInv, UNCHANGED arkVars, NEW ok \in BOOLEAN, HostSendMessage(ok)
  PROVE  StreamInv' /\ AnswersKnown'
<1>1. /\ hostKey' = hostKey /\ hostPc' = hostPc /\ a2h' = a2h
      /\ hostSession' = IF ok THEN [hostSession EXCEPT !.sent = @ + 1] ELSE NoSession
      /\ hostSession # NoSession
  BY DEF HostSendMessage, AfterSend
<1>2. h2a \in Seq(Token) /\ a2h \in Seq(Token) /\ hostSession \in Session
  BY DEF WireInv, TypeOK, HostTypeOK
<1> DEFINE m == Message(hostSession.host, hostSession.ark, hostSession.sent)
<1>3. m \in Packet
  BY <1>2, SessionTypes, PacketTypes
<1>4. m.type = "message"
  BY PacketTypesWritten
<1>5. PICK t \in SendPacket(m, ok) : h2a' = h2a \o t
  BY DEF HostSendMessage, HostWrites
<1> HIDE DEF m
<1>6. /\ t \in Seq(Token)
      /\ \A k \in 1 .. Len(t) : t[k].packet.type \notin {"hello", "ack"}
  BY <1>3, <1>4, <1>5, PacketWritten, SpecialTypes
<1>7. StreamInv'
  BY <1>1, <1>5, <1>6, HostQuietly
<1>8. AnswersKnown'
  <2>1. a2h' \in Seq(Token) /\ 0 \in 0 .. Len(a2h) /\ IsTail(a2h', a2h, 0)
    BY <1>1, <1>2 DEF IsTail
  <2>2. hostPc = "idle" /\ hostSession.host = hostKey /\ Answered(hostKey, hostSession.ark)
    BY <1>1 DEF WireInv, AnswersKnown
  <2>3. hostSession' # NoSession =>
          hostPc' = "idle" /\ hostSession'.host = hostKey' /\ Answered(hostKey', hostSession'.ark)
    BY <1>1, <1>2, <2>2, SessionFields
  <2>4. QED
    BY <2>1, <2>3, AnswersRead DEF WireInv
<1>9. QED
  BY <1>7, <1>8

(* The host reads, or is replaced, and writes nothing.                     *)
LEMMA HostReadKeepsInv ==
  ASSUME WireInv, UNCHANGED arkVars,
         \/ HostReject \/ HostSkipStale \/ HostAbort \/ HostReadFails
         \/ HostNextMessage \/ HostRestart \/ HostDiscards
  PROVE  StreamInv' /\ AnswersKnown'
<1>1. h2a' = h2a /\ hostKey' = hostKey /\ (hostPc' = hostPc \/ hostPc' = "idle")
  BY DEF HostReject, HostSkipStale, HostAbort, HostReadFails, HostNextMessage, HostRestart,
         HandshakeReturns, HostDiscards, hostVars
<1>2. h2a \in Seq(Token) /\ a2h \in Seq(Token) /\ hostSession \in Session
  BY DEF WireInv, TypeOK, HostTypeOK
<1>3. StreamInv'
  <2> DEFINE t == <<>>
  <2>1. /\ t \in Seq(Token) /\ h2a' = h2a \o t
        /\ \A k \in 1 .. Len(t) : t[k].packet.type \notin {"hello", "ack"}
    BY <1>1, <1>2, NothingWritten
  <2> HIDE DEF t
  <2>2. QED
    BY <1>1, <2>1, HostQuietly
<1>4. a2h' \in Seq(Token) /\ \E n \in 0 .. Len(a2h) : IsTail(a2h', a2h, n)
  <2>1. CASE \E p : p \in NextPackets(a2h) /\ a2h' = Rest(a2h)
    <3>1. PICK p \in NextPackets(a2h) : a2h' = Rest(a2h)
      BY <2>1
    <3>2. Rest(a2h) \in Seq(Token) /\ \E d \in 1 .. Len(a2h) : IsTail(Rest(a2h), a2h, d)
      BY <1>2, RestIsTail
    <3>3. \A d \in 1 .. Len(a2h) : d \in 0 .. Len(a2h)
      OBVIOUS
    <3>4. QED
      BY <3>1, <3>2, <3>3
  <2>2. CASE a2h' = a2h
    <3>1. 0 \in 0 .. Len(a2h) /\ IsTail(a2h, a2h, 0)
      BY <1>2 DEF IsTail
    <3>2. QED
      BY <1>2, <2>2, <3>1
  <2>3. CASE a2h' \in Remains(a2h)
    BY <1>2, <2>3, RemainsIsTail
  <2>4. QED
    BY <1>2, <2>1, <2>2, <2>3, GluedRead DEF HostReject, HostSkipStale, HostAbort, HostReadFails,
       HostNextMessage, HostRestart, HostDiscards
<1>5. hostSession' # NoSession =>
        hostPc' = "idle" /\ hostSession'.host = hostKey' /\ Answered(hostKey', hostSession'.ark)
  <2> SUFFICES ASSUME hostSession' # NoSession
               PROVE  hostPc' = "idle" /\ hostSession'.host = hostKey
                        /\ Answered(hostKey, hostSession'.ark)
    BY <1>1
  <2>1. \/ hostSession' = hostSession
        \/ hostSession # NoSession /\ hostSession' = [hostSession EXCEPT !.got = @ + 1]
    BY DEF HostReject, HostSkipStale, HostAbort, HostReadFails, HostNextMessage, HostRestart,
       HostDiscards, hostVars
  <2>2. hostSession # NoSession /\ hostSession'.host = hostSession.host
          /\ hostSession'.ark = hostSession.ark
    BY <1>2, <2>1, SessionFields
  <2>3. hostPc = "idle" /\ hostSession.host = hostKey /\ Answered(hostKey, hostSession.ark)
    BY <2>2 DEF WireInv, AnswersKnown
  <2>4. QED
    BY <1>1, <2>2, <2>3
<1>6. AnswersKnown'
  BY <1>4, <1>5, AnswersRead DEF WireInv
<1>7. QED
  BY <1>3, <1>6

-----------------------------------------------------------------------------
(* The steps of the Ark.                                                   *)

(* What becomes of the answers when the Ark writes no hello: t is the part *)
(* of a write that the host is going to read.                              *)
LEMMA AnswersKept ==
  ASSUME TypeOK, AnswersKnown, NEW t \in Seq(Token), a2h' = a2h \o t, UNCHANGED hostVars,
         \A k \in 1 .. Len(t) :
           t[k].packet.type = "arkhello" => Answered(t[k].packet.host, t[k].packet.ark)',
         \A h, a \in Nat : Answered(h, a) => Answered(h, a)',
         arkSession' # NoSession =>
           arkPc' = "serve" /\ arkSession'.host = arkHost' /\ arkSession'.ark = arkKey'
  PROVE  AnswersKnown'
<1>1. a2h \in Seq(Token) /\ a2h' \in Seq(Token) /\ Len(a2h') = Len(a2h) + Len(t)
  BY Joined DEF TypeOK
<1>2. ASSUME NEW k \in DOMAIN a2h', a2h'[k].packet.type = "arkhello"
      PROVE  Answered(a2h[k].packet.host, a2h[k].packet.ark)'
  <2>1. CASE k \in 1 .. Len(a2h)
    <3>1. k \in DOMAIN a2h /\ a2h'[k] = a2h[k]
      BY <1>1, <2>1, Joined
    <3>2. Answered(a2h[k].packet.host, a2h[k].packet.ark)
      BY <1>2, <3>1 DEF AnswersKnown
    <3>3. a2h[k] \in Token
      BY <1>1, <3>1
    <3>4. a2h[k].packet.host \in Nat /\ a2h[k].packet.ark \in Nat
      BY <3>3 DEF Token, Packet
    <3>5. QED
      BY <3>1, <3>2, <3>4 DEF Answered
  <2>2. CASE k \notin 1 .. Len(a2h)
    <3>1. k \in Len(a2h) + 1 .. Len(a2h) + Len(t) /\ k - Len(a2h) \in 1 .. Len(t)
      BY <1>1, <2>2
    <3>2. a2h'[k] = t[k - Len(a2h)]
      BY <1>1, <3>1, Joined
    <3>3. QED
      BY <1>2, <3>1, <3>2 DEF Answered
  <2>3. QED
    BY <2>1, <2>2
<1>3. hostSession' # NoSession =>
        hostPc' = "idle" /\ hostSession'.host = hostKey' /\ Answered(hostKey, hostSession.ark)'
  <2>1. hostKey \in Nat /\ hostSession.ark \in Nat
    BY SessionTypes DEF TypeOK, HostTypeOK
  <2>2. QED
    BY <2>1 DEF AnswersKnown, Answered, hostVars
<1>4. QED
  BY <1>2, <1>3 DEF AnswersKnown, Answered

LEMMA ArkSendHelloKeepsInv ==
  ASSUME WireInv, UNCHANGED hostVars, NEW ok \in BOOLEAN, ArkSendHello(ok)
  PROVE  StreamInv' /\ AnswersKnown'
<1>1. /\ arkPc = "hello" /\ arkKey' = arkKey + 1 /\ h2a' = Rest(h2a)
      /\ arkSession' = arkSession
  BY DEF ArkSendHello
<1>2. PICK p \in NextPackets(h2a) :
        /\ p.type = "hello" /\ arkHost' = p.host
        /\ ArkWrites(SendPacket(ArkHello(p.host, arkKey'), ok))
  BY DEF ArkSendHello
<1>3. /\ h2a \in Seq(Token) /\ a2h \in Seq(Token)
      /\ arkHost \in Nat /\ arkKey \in Nat /\ hostKey \in Nat
  BY DEF WireInv, TypeOK, ArkTypeOK, HostTypeOK
<1>4. p.host \in Nat /\ arkKey' \in Nat
  BY <1>1, <1>2, <1>3, PacketsRead DEF Packet
<1>5. arkSession = NoSession
  BY <1>1 DEF WireInv, AnswersKnown
<1>6. /\ Len(h2a) >= 2 /\ h2a[1].packet = p
      /\ Rest(h2a) \in Seq(Token) /\ Len(Rest(h2a)) = Len(h2a) - 2
      /\ IsTail(Rest(h2a), h2a, 2)
      /\ \A k \in 1 .. Len(Rest(h2a)) : Rest(h2a)[k] = h2a[k + 2]
  BY <1>2, <1>3, SentPacketRead DEF IsTail
<1>7. 1 \in DOMAIN h2a /\ DOMAIN h2a' = 1 .. Len(h2a')
  BY <1>1, <1>3, <1>6
<1>8. arkHost < p.host /\ p.host <= hostKey /\ (hostPc = "hello" => p.host < hostKey)
  BY <1>2, <1>6, <1>7 DEF WireInv, HellosInOrder
<1>9. HellosInOrder'
  <2>1. ASSUME NEW k \in 1 .. Len(h2a'), h2a'[k].packet.type = "hello"
        PROVE  /\ k + 2 \in DOMAIN h2a /\ h2a'[k] = h2a[k + 2]
               /\ p.host < h2a[k + 2].packet.host
               /\ h2a[k + 2].packet.host <= hostKey
               /\ hostPc = "hello" => h2a[k + 2].packet.host < hostKey
    <3>1. k + 2 \in DOMAIN h2a /\ h2a'[k] = h2a[k + 2] /\ 1 < k + 2
      BY <1>1, <1>3, <1>6
    <3>2. QED
      BY <1>2, <1>6, <1>7, <2>1, <3>1 DEF WireInv, HellosInOrder
  <2>2. ASSUME NEW k \in 1 .. Len(h2a'), NEW l \in 1 .. Len(h2a'), k < l,
               h2a'[k].packet.type = "hello", h2a'[l].packet.type = "hello"
        PROVE  h2a'[k].packet.host < h2a'[l].packet.host
    <3>1. k + 2 < l + 2
      BY <2>2
    <3>2. QED
      BY <2>1, <2>2, <3>1 DEF WireInv, HellosInOrder
  <2>3. hostKey' = hostKey /\ hostPc' = hostPc
    BY DEF hostVars
  <2>4. QED
    BY <1>2, <1>7, <1>8, <2>1, <2>2, <2>3 DEF HellosInOrder
<1>10. AcksOvertaken'
  <2>1. 2 \in 0 .. Len(h2a)
    BY <1>3, <1>6
  <2>2. QED
    BY <1>1, <1>6, <2>1, AcksRead DEF WireInv, hostVars
<1>11. OldSessionsEnd'
  BY <1>1, <1>5 DEF OldSessionsEnd
<1>12. AnswersKnown'
  <2>1. PICK t \in SendPacket(ArkHello(p.host, arkKey'), ok) : a2h' = a2h \o t
    BY <1>2 DEF ArkWrites
  <2>2. ArkHello(p.host, arkKey') \in Packet
    BY <1>4, PacketTypes
  <2>3. /\ t \in Seq(Token)
        /\ \A k \in 1 .. Len(t) : \/ k = 1 /\ t[k].packet \in {ArkHello(p.host, arkKey'), Junk}
                                  \/ t[k] = Delim
    BY <2>1, <2>2, PacketWritten
  <2>4. \A k \in 1 .. Len(t) :
          t[k].packet.type = "arkhello" => t[k].packet.host = p.host /\ t[k].packet.ark = arkKey'
    BY <2>3, PacketTypesWritten, SpecialTypes
  <2>5. \A k \in 1 .. Len(t) :
          t[k].packet.type = "arkhello" => Answered(t[k].packet.host, t[k].packet.ark)'
    BY <1>2, <1>4, <2>4 DEF Answered
  <2>6. ASSUME NEW h \in Nat, NEW a \in Nat, Answered(h, a) PROVE Answered(h, a)'
    BY <1>1, <1>2, <1>3, <1>4, <1>8, <2>6 DEF Answered
  <2>7. QED
    BY <1>1, <1>5, <2>1, <2>3, <2>5, <2>6, AnswersKept DEF WireInv
<1>13. QED
  BY <1>9, <1>10, <1>11, <1>12 DEF StreamInv

LEMMA ArkSendMessageKeepsInv ==
  ASSUME WireInv, UNCHANGED hostVars, NEW ok \in BOOLEAN, ArkSendMessage(ok)
  PROVE  StreamInv' /\ AnswersKnown'
<1>1. /\ UNCHANGED <<h2a, arkPc, arkKey, arkHost>> /\ arkSession # NoSession
      /\ arkSession' = IF ok THEN [arkSession EXCEPT !.sent = @ + 1] ELSE NoSession
  BY DEF ArkSendMessage, AfterSend
<1>2. h2a \in Seq(Token) /\ arkSession \in Session
  BY DEF WireInv, TypeOK, ArkTypeOK
<1> DEFINE m == Message(arkSession.host, arkSession.ark, arkSession.sent)
<1>3. m \in Packet
  BY <1>2, SessionTypes, PacketTypes
<1>4. m.type = "message"
  BY PacketTypesWritten
<1>5. PICK t \in SendPacket(m, ok) : a2h' = a2h \o t
  BY DEF ArkSendMessage, ArkWrites
<1> HIDE DEF m
<1>6. /\ t \in Seq(Token)
      /\ \A k \in 1 .. Len(t) : t[k].packet.type # "arkhello"
  BY <1>3, <1>4, <1>5, PacketWritten, SpecialTypes
<1>7. StreamInv'
  BY <1>1 DEF WireInv, StreamInv, HellosInOrder, AcksOvertaken, OldSessionsEnd, EmptyFrameIn, hostVars
<1>8. arkSession' # NoSession =>
        arkPc' = "serve" /\ arkSession'.host = arkHost' /\ arkSession'.ark = arkKey'
  BY <1>1, <1>2, SessionFields DEF WireInv, AnswersKnown
<1>9. \A h, a \in Nat : Answered(h, a) => Answered(h, a)'
  BY <1>1 DEF Answered
<1>10. AnswersKnown'
  BY <1>5, <1>6, <1>8, <1>9, AnswersKept DEF WireInv
<1>11. QED
  BY <1>7, <1>10

LEMMA EmptyFrameAt ==
  ASSUME NEW s \in Seq(Token), NEW k \in 1 .. Len(s), s[k] = Delim, k = 1 \/ s[k - 1] = Delim
  PROVE  EmptyFrameIn(s)
<1>1. k \in DOMAIN s
  OBVIOUS
<1>2. QED
  BY <1>1 DEF EmptyFrameIn

(* A read that is not of an empty frame leaves an empty frame in place.    *)
LEMMA EmptyFrameAhead ==
  ASSUME NEW s \in Seq(Token), EmptyFrameIn(s), NEW p \in NextPackets(s), p # Empty
  PROVE  EmptyFrameIn(Rest(s))
<1>1. PICK k \in 1 .. Len(s) : s[k] = Delim /\ (k = 1 \/ s[k - 1] = Delim)
  BY DEF EmptyFrameIn
<1>2. PICK d \in 1 .. Len(s) :
        /\ IsFirstDelim(s, d) /\ IsTail(Rest(s), s, d) /\ p \in Decodings(s, d)
        /\ \A j \in 1 .. Len(Rest(s)) : Rest(s)[j] = s[j + d]
  BY RestIsTail
<1>3. d # 1
  BY <1>2 DEF Decodings
<1>4. s[d] = Delim /\ \A j \in 1 .. d - 1 : s[j] # Delim
  BY <1>2 DEF IsFirstDelim
<1>5. k >= d
  BY <1>1, <1>4
<1>6. k # d
  <2> SUFFICES ASSUME k = d PROVE FALSE
    OBVIOUS
  <2>1. d - 1 \in 1 .. d - 1
    BY <1>3
  <2>2. s[d - 1] = Delim
    BY <1>1, <1>3
  <2>3. QED
    BY <1>4, <2>1, <2>2
<1>7. Rest(s) \in Seq(Token) /\ Len(Rest(s)) = Len(s) - d
  BY <1>2, RestIsTail DEF IsTail
<1>8. k - d \in 1 .. Len(Rest(s)) /\ (k - d) + d = k
  BY <1>5, <1>6, <1>7
<1>9. Rest(s)[k - d] = Delim
  BY <1>1, <1>2, <1>8
<1>10. CASE k - d = 1
  BY <1>7, <1>8, <1>9, <1>10, EmptyFrameAt
<1>11. CASE k - d # 1
  <2>1. (k - d) - 1 \in 1 .. Len(Rest(s)) /\ ((k - d) - 1) + d = k - 1 /\ k # 1
    BY <1>8, <1>11
  <2>2. Rest(s)[(k - d) - 1] = Delim
    BY <1>1, <1>2, <2>1
  <2>3. QED
    BY <1>7, <1>8, <1>9, <2>2, EmptyFrameAt
<1>12. QED
  BY <1>10, <1>11

LEMMA ArkReadKeepsInv ==
  ASSUME WireInv, UNCHANGED hostVars,
         \/ ArkReset \/ ArkNextMessage \/ ArkStartOver \/ ArkEstablish \/ ArkHandshakeFails
         \/ ArkReadFails \/ ArkRestart \/ ArkDiscards
  PROVE  StreamInv' /\ AnswersKnown'
<1>1. a2h' = a2h /\ UNCHANGED <<arkKey, arkHost>>
  BY DEF ArkReset, ArkNextMessage, ArkStartOver, ArkEstablish, ArkHandshakeFails, ArkReadFails,
         ArkRestart, ArkDiscards, arkVars
<1>2. h2a \in Seq(Token) /\ a2h \in Seq(Token) /\ arkSession \in Session
        /\ arkHost \in Nat /\ arkKey \in Nat
  BY DEF WireInv, TypeOK, ArkTypeOK
<1>3. h2a' \in Seq(Token) /\ \E n \in 0 .. Len(h2a) : IsTail(h2a', h2a, n)
  <2>1. CASE \E p : p \in NextPackets(h2a) /\ h2a' = Rest(h2a)
    <3>1. PICK p \in NextPackets(h2a) : h2a' = Rest(h2a)
      BY <2>1
    <3>2. Rest(h2a) \in Seq(Token) /\ \E d \in 1 .. Len(h2a) : IsTail(Rest(h2a), h2a, d)
      BY <1>2, RestIsTail
    <3>3. \A d \in 1 .. Len(h2a) : d \in 0 .. Len(h2a)
      OBVIOUS
    <3>4. QED
      BY <3>1, <3>2, <3>3
  <2>2. CASE h2a' = h2a
    <3>1. 0 \in 0 .. Len(h2a) /\ IsTail(h2a, h2a, 0)
      BY <1>2 DEF IsTail
    <3>2. QED
      BY <1>2, <2>2, <3>1
  <2>3. CASE h2a' \in Remains(h2a)
    BY <1>2, <2>3, RemainsIsTail
  <2>4. QED
    BY <1>2, <2>1, <2>2, <2>3, GluedRead DEF ArkReset, ArkNextMessage, ArkStartOver, ArkEstablish,
       ArkHandshakeFails, ArkReadFails, ArkRestart, ArkDiscards
<1>4. HellosInOrder'
  BY <1>1, <1>3, HellosRead DEF WireInv, hostVars
<1>5. AcksOvertaken'
  BY <1>3, AcksRead DEF WireInv, hostVars
<1>6. \/ arkSession' = NoSession
      \/ ArkNextMessage /\ arkSession # NoSession /\ arkSession' = [arkSession EXCEPT !.got = @ + 1]
      \/ ArkEstablish
      \/ ArkDiscards
  <2>1. CASE ArkStartOver \/ ArkHandshakeFails \/ ArkReadFails
    <3>1. arkPc # "serve" /\ arkSession' = arkSession
      BY <2>1 DEF ArkStartOver, ArkHandshakeFails, ArkReadFails
    <3>2. QED
      BY <3>1 DEF WireInv, AnswersKnown
  <2>2. CASE ArkReset \/ ArkRestart
    BY <2>2 DEF ArkReset, ArkRestart
  <2>3. CASE ArkNextMessage
    BY <2>3 DEF ArkNextMessage
  <2>4. CASE ArkEstablish
    BY <2>4
  <2>5. CASE ArkDiscards
    BY <2>5
  <2>6. QED
    BY <2>1, <2>2, <2>3, <2>4, <2>5
<1>7. OldSessionsEnd'
  <2>1. CASE arkSession' = NoSession
    BY <2>1 DEF OldSessionsEnd
  <2>2. CASE ArkNextMessage /\ arkSession # NoSession
    <3>1. PICK p \in NextPackets(h2a) : p # Empty /\ h2a' = Rest(h2a)
      BY <2>2 DEF ArkNextMessage
    <3>2. QED
      BY <1>2, <2>2, <3>1, EmptyFrameAhead DEF WireInv, OldSessionsEnd, hostVars
  <2>3. CASE ArkEstablish
    <3> SUFFICES ASSUME hostPc # "idle" PROVE EmptyFrameIn(h2a')
      BY DEF OldSessionsEnd, hostVars
    <3> DEFINE p == HostAck(arkHost, arkKey)
    <3>1. p \in NextPackets(h2a) /\ h2a' = Rest(h2a)
      BY <2>3 DEF ArkEstablish
    <3>2. p.type = "ack"
      BY PacketTypesWritten
    <3> HIDE DEF p
    <3>3. /\ Len(h2a) >= 2 /\ h2a[1].packet = p
          /\ h2a' \in Seq(Token) /\ Len(h2a') = Len(h2a) - 2
          /\ \A k \in 1 .. Len(h2a') : h2a'[k] = h2a[k + 2]
      BY <1>2, <3>1, <3>2, SentPacketRead DEF IsTail
    <3>4. 1 \in DOMAIN h2a
      BY <1>2, <3>3
    <3>5. PICK l \in 1 + 2 .. Len(h2a) : h2a[l] = Delim /\ h2a[l - 1] = Delim
      BY <3>2, <3>3, <3>4 DEF WireInv, AcksOvertaken
    <3>6. l - 2 \in 1 .. Len(h2a') /\ (l - 2) + 2 = l
      BY <1>2, <3>3, <3>5
    <3>7. h2a'[l - 2] = Delim
      BY <3>3, <3>5, <3>6
    <3>8. CASE l - 2 = 1
      BY <3>3, <3>6, <3>7, <3>8, EmptyFrameAt
    <3>9. CASE l - 2 # 1
      <4>1. (l - 2) - 1 \in 1 .. Len(h2a') /\ ((l - 2) - 1) + 2 = l - 1
        BY <3>6, <3>9
      <4>2. h2a'[(l - 2) - 1] = Delim
        BY <3>3, <3>5, <4>1
      <4>3. QED
        BY <3>3, <3>6, <3>7, <4>2, EmptyFrameAt
    <3>10. QED
      BY <3>8, <3>9
  <2>4. CASE ArkDiscards
    <3>1. Glued(h2a) /\ h2a' = Rest(h2a) /\ arkSession' = arkSession
      BY <2>4 DEF ArkDiscards, arkVars
    <3>2. Undecodable \in NextPackets(h2a) /\ Undecodable # Empty
      BY <1>2, <3>1, GluedRead
    <3>3. QED
      BY <1>2, <3>1, <3>2, EmptyFrameAhead DEF WireInv, OldSessionsEnd, hostVars
  <2>5. QED
    BY <1>6, <2>1, <2>2, <2>3, <2>4
<1>8. arkSession' # NoSession =>
        arkPc' = "serve" /\ arkSession'.host = arkHost' /\ arkSession'.ark = arkKey'
  <2>1. CASE ArkNextMessage /\ arkSession # NoSession
               /\ arkSession' = [arkSession EXCEPT !.got = @ + 1]
    <3>1. arkSession'.host = arkSession.host /\ arkSession'.ark = arkSession.ark
      BY <1>2, <2>1, SessionFields
    <3>2. arkPc' = arkPc
      BY <2>1 DEF ArkNextMessage
    <3>3. QED
      BY <1>1, <2>1, <3>1, <3>2 DEF WireInv, AnswersKnown
  <2>2. CASE ArkEstablish
    BY <1>1, <1>2, <2>2, SessionFields DEF ArkEstablish
  <2>3. CASE ArkDiscards
    <3>1. UNCHANGED <<arkSession, arkPc, arkHost, arkKey>>
      BY <2>3 DEF ArkDiscards, arkVars
    <3>2. QED
      BY <3>1 DEF WireInv, AnswersKnown
  <2>4. QED
    BY <1>6, <2>1, <2>2, <2>3
<1>9. AnswersKnown'
  <2> DEFINE t == <<>>
  <2>1. t \in Seq(Token) /\ a2h' = a2h \o t /\ \A k \in 1 .. Len(t) : FALSE
    BY <1>1, <1>2, NothingWritten
  <2> HIDE DEF t
  <2>2. \A h, a \in Nat : Answered(h, a) => Answered(h, a)'
    BY <1>1 DEF Answered
  <2>3. QED
    BY <1>8, <2>1, <2>2, AnswersKept DEF WireInv
<1>10. QED
  BY <1>4, <1>5, <1>7, <1>9 DEF StreamInv

-----------------------------------------------------------------------------
(* The invariant and what follows from it.                                 *)

LEMMA NoiseKeepsInv ==
  ASSUME WireInv, Noise
  PROVE  StreamInv' /\ AnswersKnown'
<1>1. UNCHANGED <<a2h, hostVars, arkVars>>
  BY DEF Noise
<1>2. PICK token \in {Cut, Delim} : h2a' = Append(h2a, token)
  BY DEF Noise
<1>3. h2a \in Seq(Token) /\ a2h \in Seq(Token) /\ token \in Token
  BY TokenTypes DEF WireInv, TypeOK
<1> DEFINE t == <<token>>
<1>4. t \in Seq(Token) /\ h2a' = h2a \o t /\ Len(t) = 1 /\ t[1] = token
  BY <1>2, <1>3
<1> HIDE DEF t
<1>5. \A k \in 1 .. Len(t) : t[k].packet.type \notin {"hello", "ack"}
  BY <1>4, SpecialTypes
<1>6. hostKey' = hostKey /\ hostPc' = hostPc /\ UNCHANGED arkVars
  BY <1>1 DEF hostVars
<1>7. StreamInv'
  BY <1>4, <1>5, <1>6, HostQuietly
<1>8. a2h' \in Seq(Token) /\ 0 \in 0 .. Len(a2h) /\ IsTail(a2h', a2h, 0)
  BY <1>1, <1>3 DEF IsTail
<1>9. hostSession' # NoSession =>
        hostPc' = "idle" /\ hostSession'.host = hostKey' /\ Answered(hostKey', hostSession'.ark)
  BY <1>1 DEF hostVars, WireInv, AnswersKnown
<1>10. AnswersKnown'
  BY <1>6, <1>8, <1>9, AnswersRead DEF WireInv
<1>11. QED
  BY <1>7, <1>10

LEMMA WireInvInit == Init => WireInv
<1> SUFFICES ASSUME Init PROVE WireInv
  OBVIOUS
<1>1. TypeOK
  BY TypeOKInit
<1>2. /\ h2a = <<>> /\ a2h = <<>> /\ hostPc = "idle" /\ hostKey = 0 /\ arkHost = 0
      /\ hostSession = NoSession /\ arkSession = NoSession
  BY DEF Init, HostInit, ArkInit
<1>3. HellosInOrder /\ AnswersKnown /\ AcksOvertaken /\ OldSessionsEnd
  BY <1>2 DEF HellosInOrder, AnswersKnown, AcksOvertaken, OldSessionsEnd
<1>4. QED
  BY <1>1, <1>3 DEF WireInv

LEMMA WireInvStep == WireInv /\ [Next]_vars => WireInv'
<1> SUFFICES ASSUME WireInv, [Next]_vars PROVE WireInv'
  OBVIOUS
<1>1. TypeOK'
  BY TypeOKStep DEF WireInv
<1>2. CASE Next
  <2>1. CASE HostOp /\ UNCHANGED arkVars
    <3>1. StreamInv' /\ AnswersKnown'
      BY <2>1, HostResetKeepsInv, HostSendHelloKeepsInv, HostSendAckKeepsInv,
         HostSendMessageKeepsInv, HostReadKeepsInv, Zenon DEF HostOp
    <3>2. QED
      BY <1>1, <3>1 DEF StreamInv, WireInv
  <2>2. CASE ArkOp /\ UNCHANGED hostVars
    <3>1. StreamInv' /\ AnswersKnown'
      BY <2>2, ArkSendHelloKeepsInv, ArkSendMessageKeepsInv, ArkReadKeepsInv, Zenon DEF ArkOp
    <3>2. QED
      BY <1>1, <3>1 DEF StreamInv, WireInv
  <2>3. CASE HostRestart
    <3>1. UNCHANGED arkVars
      BY <2>3 DEF HostRestart
    <3>2. QED
      BY <1>1, <2>3, <3>1, HostReadKeepsInv DEF StreamInv, WireInv
  <2>4. CASE ArkRestart
    <3>1. UNCHANGED hostVars
      BY <2>4 DEF ArkRestart
    <3>2. QED
      BY <1>1, <2>4, <3>1, ArkReadKeepsInv DEF StreamInv, WireInv
  <2>5. CASE Noise
    BY <1>1, <2>5, NoiseKeepsInv DEF StreamInv, WireInv
  <2>6. faults \in 0 .. MaxFaults
    BY DEF WireInv, TypeOK
  <2>7. QED
    BY <1>2, <2>1, <2>2, <2>3, <2>4, <2>5, <2>6, StepCases
<1>3. CASE UNCHANGED vars
  BY <1>1, <1>3 DEF vars, hostVars, arkVars, WireInv, HellosInOrder, AnswersKnown, AcksOvertaken,
     OldSessionsEnd, Answered, EmptyFrameIn
<1>4. QED
  BY <1>2, <1>3

(* The strengthening holds throughout: the hellos on their way are newer   *)
(* than the last answered, every answer on its way was given, and a reset  *)
(* follows every ack of an earlier attempt.                                *)
THEOREM WireInvariant == Spec => []WireInv
BY WireInvInit, WireInvStep, PTL DEF Spec

LEMMA WireInvAgrees == WireInv => Agreement
<1> SUFFICES ASSUME WireInv PROVE Agreement
  OBVIOUS
<1>1. hostSession # NoSession =>
        hostSession.host = hostKey /\ Answered(hostKey, hostSession.ark)
  BY DEF WireInv, AnswersKnown
<1>2. arkSession # NoSession => arkSession.host = arkHost /\ arkSession.ark = arkKey
  BY DEF WireInv, AnswersKnown
<1>3. arkHost <= hostKey
  BY DEF WireInv, HellosInOrder
<1>4. QED
  BY <1>1, <1>2, <1>3 DEF Agreement, Answered

(* Two ends in the session of one attempt are in the same session, and     *)
(* neither is in one the other never took part in: handshake on the host   *)
(* and the handshake next_message runs on the Ark.                         *)
THEOREM EndsAgree == Spec => []Agreement
BY WireInvariant, WireInvAgrees, PTL

(* As long as the Ark keeps an earlier session while the host is in a new  *)
(* handshake, an empty frame is ahead of it: an ack of an earlier attempt  *)
(* that is read late opens a session the reset still ends.                 *)
THEOREM ResetEndsOldSessions == Spec => []OldSessionsEnd
<1>1. WireInv => OldSessionsEnd
  BY DEF WireInv
<1>2. QED
  BY <1>1, WireInvariant, PTL

-----------------------------------------------------------------------------
(* No hello is dropped as data.                                            *)

(* Reading takes a hello and its reset nearer to the front; what has to be *)
(* shown is that the Ark waits for it when it gets there.                  *)
LEMMA ResetRead ==
  ASSUME TypeOK, h2a' \in Seq(Token),
         NEW n \in 0 .. Len(h2a), IsTail(h2a', h2a, n), SameDelims(h2a', h2a, n),
         NEW k \in 1 .. Len(h2a') + 1, AfterReset(k + n),
         k = 1 => arkPc' = "hello" \/ lapsed'
  PROVE  AfterReset(k)'
<1>1. Len(h2a) \in Nat /\ Len(h2a') \in Nat /\ k \in Nat
  BY DEF TypeOK
<1>2. ASSUME k > 2 PROVE h2a'[k - 2] = Delim
  <2>1. k - 2 \in 1 .. Len(h2a') /\ (k - 2) + n = (k + n) - 2 /\ k + n > 2
    BY <1>1, <1>2
  <2>2. QED
    BY <2>1 DEF AfterReset, SameDelims
<1>3. ASSUME k > 1 PROVE h2a'[k - 1] = Delim
  <2>1. k - 1 \in 1 .. Len(h2a') /\ (k - 1) + n = (k + n) - 1 /\ k + n > 1
    BY <1>1, <1>3
  <2>2. QED
    BY <2>1 DEF AfterReset, SameDelims
<1>4. QED
  BY <1>2, <1>3 DEF AfterReset

LEMMA HellosPast ==
  ASSUME TypeOK, HellosAfterReset, h2a' \in Seq(Token),
         NEW n \in 0 .. Len(h2a), IsTail(h2a', h2a, n), SameDelims(h2a', h2a, n),
         AfterReset(n + 1) => arkPc' = "hello" \/ lapsed',
         hostPc' = "hello" => hostPc = "hello"
  PROVE  HellosAfterReset'
<1>1. Len(h2a) \in Nat /\ Len(h2a') \in Nat /\ Len(h2a') + n = Len(h2a)
  BY DEF TypeOK, IsTail
<1>2. ASSUME NEW k \in 1 .. Len(h2a') + 1, AfterReset(k + n) PROVE AfterReset(k)'
  <2>1. k = 1 => k + n = n + 1
    OBVIOUS
  <2>2. QED
    BY <1>2, <2>1, ResetRead
<1>3. ASSUME NEW k \in DOMAIN h2a', h2a'[k].packet.type = "hello" PROVE AfterReset(k)'
  <2>1. k \in 1 .. Len(h2a') /\ k + n \in DOMAIN h2a
    BY <1>1, <1>3 DEF TypeOK
  <2>2. h2a'[k] = h2a[k + n]
    BY <1>3, <2>1, SpecialTypes DEF IsTail
  <2>3. AfterReset(k + n)
    BY <1>3, <2>1, <2>2 DEF HellosAfterReset
  <2>4. k \in 1 .. Len(h2a') + 1
    BY <1>1, <2>1
  <2>5. QED
    BY <1>2, <2>3, <2>4
<1>4. ASSUME hostPc' = "hello" PROVE AfterReset(Len(h2a) + 1)'
  <2>1. AfterReset(Len(h2a) + 1)
    BY <1>4 DEF HellosAfterReset
  <2>2. Len(h2a') + 1 \in 1 .. Len(h2a') + 1 /\ (Len(h2a') + 1) + n = Len(h2a) + 1
    BY <1>1
  <2>3. PICK k \in 1 .. Len(h2a') + 1 : k = Len(h2a') + 1
    BY <2>2
  <2>4. AfterReset(k)'
    BY <1>2, <2>1, <2>2, <2>3
  <2>5. QED
    BY <2>3, <2>4 DEF AfterReset
<1>5. QED
  BY <1>3, <1>4 DEF HellosAfterReset

(* A write of the host.                                                    *)
LEMMA HellosBefore ==
  ASSUME TypeOK, HellosAfterReset, UNCHANGED arkVars,
         NEW t \in Seq(Token), h2a' = h2a \o t,
         \A k \in 1 .. Len(t) : t[k].packet.type = "hello" => k = 1 /\ hostPc = "hello",
         hostPc' = "hello" => (AfterReset(Len(h2a) + 1) /\ t = <<>>) \/ t = Reset
  PROVE  HellosAfterReset'
<1>1. /\ h2a \in Seq(Token) /\ h2a' \in Seq(Token) /\ Len(h2a') = Len(h2a) + Len(t)
      /\ \A k \in 1 .. Len(h2a) : h2a'[k] = h2a[k]
      /\ \A k \in Len(h2a) + 1 .. Len(h2a) + Len(t) : h2a'[k] = t[k - Len(h2a)]
  BY Joined DEF TypeOK
<1>2. Len(h2a) \in Nat /\ Len(h2a') \in Nat /\ Len(t) \in Nat
  BY <1>1
<1>3. arkPc' = arkPc /\ lapsed' = lapsed
  BY DEF arkVars
<1>4. ASSUME NEW k \in 1 .. Len(h2a) + 1, AfterReset(k) PROVE AfterReset(k)'
  <2>1. ASSUME k > 2 PROVE h2a'[k - 2] = Delim
    <3>1. k - 2 \in 1 .. Len(h2a)
      BY <1>2, <2>1
    <3>2. QED
      BY <1>1, <1>4, <2>1, <3>1 DEF AfterReset
  <2>2. ASSUME k > 1 PROVE h2a'[k - 1] = Delim
    <3>1. k - 1 \in 1 .. Len(h2a)
      BY <1>2, <2>2
    <3>2. QED
      BY <1>1, <1>4, <2>2, <3>1 DEF AfterReset
  <2>3. QED
    BY <1>3, <1>4, <2>1, <2>2 DEF AfterReset
<1>5. ASSUME NEW k \in DOMAIN h2a', h2a'[k].packet.type = "hello" PROVE AfterReset(k)'
  <2>1. CASE k \in 1 .. Len(h2a)
    <3>1. k \in DOMAIN h2a /\ h2a[k].packet.type = "hello" /\ k \in 1 .. Len(h2a) + 1
      BY <1>1, <1>2, <1>5, <2>1
    <3>2. QED
      BY <1>4, <3>1 DEF HellosAfterReset
  <2>2. CASE k \notin 1 .. Len(h2a)
    <3>1. k \in Len(h2a) + 1 .. Len(h2a) + Len(t) /\ k - Len(h2a) \in 1 .. Len(t)
      BY <1>1, <1>2, <2>2
    <3>2. k - Len(h2a) = 1 /\ hostPc = "hello"
      BY <1>1, <1>5, <3>1
    <3>3. k = Len(h2a) + 1 /\ k \in 1 .. Len(h2a) + 1
      BY <1>2, <3>1, <3>2
    <3>4. QED
      BY <1>4, <3>2, <3>3 DEF HellosAfterReset
  <2>3. QED
    BY <2>1, <2>2
<1>6. ASSUME hostPc' = "hello" PROVE AfterReset(Len(h2a) + 1)'
  <2>1. CASE AfterReset(Len(h2a) + 1) /\ t = <<>>
    <3>1. PICK k \in 1 .. Len(h2a) + 1 : k = Len(h2a) + 1
      BY <1>2
    <3>2. AfterReset(k)' /\ k = Len(h2a') + 1
      BY <1>1, <1>2, <1>4, <2>1, <3>1
    <3>3. QED
      BY <3>2 DEF AfterReset
  <2>2. CASE t = Reset
    <3>1. Len(t) = 2 /\ t[1] = Delim /\ t[2] = Delim
      BY <2>2 DEF Reset
    <3>2. /\ Len(h2a') = Len(h2a) + 2
          /\ Len(h2a) + 1 \in Len(h2a) + 1 .. Len(h2a) + Len(t) /\ (Len(h2a) + 1) - Len(h2a) = 1
          /\ Len(h2a) + 2 \in Len(h2a) + 1 .. Len(h2a) + Len(t) /\ (Len(h2a) + 2) - Len(h2a) = 2
      BY <1>1, <1>2, <3>1
    <3>3. h2a'[Len(h2a) + 1] = Delim /\ h2a'[Len(h2a) + 2] = Delim
      BY <1>1, <3>1, <3>2
    <3>4. (Len(h2a') + 1) - 2 = Len(h2a) + 1 /\ (Len(h2a') + 1) - 1 = Len(h2a) + 2 /\ Len(h2a') + 1 # 1
      BY <1>2, <3>2
    <3>5. QED
      BY <3>3, <3>4 DEF AfterReset
  <2>3. QED
    BY <1>6, <2>1, <2>2
<1>7. QED
  BY <1>5, <1>6 DEF HellosAfterReset

(* Nothing is read.                                                        *)
LEMMA HellosStay ==
  ASSUME TypeOK, HellosAfterReset, h2a' = h2a,
         arkPc = "hello" \/ lapsed => arkPc' = "hello" \/ lapsed',
         hostPc' = "hello" => hostPc = "hello"
  PROVE  HellosAfterReset'
<1>1. h2a \in Seq(Token) /\ 0 \in 0 .. Len(h2a)
  BY DEF TypeOK
<1>2. IsTail(h2a', h2a, 0) /\ SameDelims(h2a', h2a, 0)
  BY <1>1 DEF IsTail, SameDelims
<1>3. AfterReset(0 + 1) => arkPc' = "hello" \/ lapsed'
  BY DEF AfterReset
<1>4. QED
  BY <1>1, <1>2, <1>3, HellosPast

LEMMA HostKeepsHellos ==
  ASSUME TypeOK, HellosAfterReset, UNCHANGED arkVars, HostOp
  PROVE  HellosAfterReset'
<1>0. /\ h2a \in Seq(Token) /\ a2h \in Seq(Token) /\ hostKey \in Nat /\ hostSession \in Session
      /\ arkPc' = arkPc /\ lapsed' = lapsed
  BY HostAssumption DEF TypeOK, HostTypeOK, arkVars
<1>1. ASSUME NEW ok \in BOOLEAN, HostReset(ok) PROVE HellosAfterReset'
  <2>1. PICK t \in SendReset(ok) : h2a' = h2a \o t
    BY <1>1 DEF HostReset, HostWrites
  <2>2. t \in Seq(Token) /\ (\A k \in 1 .. Len(t) : t[k] = Delim) /\ (ok => t = <<Delim, Delim>>)
    BY <2>1, ResetWritten
  <2>3. hostPc' = "hello" => ok
    BY <1>1 DEF HostReset, HandshakeReturns
  <2>4. QED
    BY <2>1, <2>2, <2>3, SpecialTypes, HellosBefore DEF Reset
<1>2. ASSUME NEW ok \in BOOLEAN, HostSendHello(ok) PROVE HellosAfterReset'
  <2>1. PICK t \in SendPacket(HostHello(hostKey), ok) : h2a' = h2a \o t
    BY <1>2 DEF HostSendHello, HostWrites
  <2>2. HostHello(hostKey) \in Packet
    BY <1>0, PacketTypes
  <2>3. /\ t \in Seq(Token)
        /\ \A k \in 1 .. Len(t) : k = 1 \/ t[k] = Delim
    BY <2>1, <2>2, PacketWritten
  <2>4. hostPc = "hello" /\ hostPc' # "hello"
    BY <1>2 DEF HostSendHello, HandshakeReturns
  <2>5. QED
    BY <2>1, <2>3, <2>4, SpecialTypes, HellosBefore
<1>3. ASSUME NEW ok \in BOOLEAN, NEW p \in Packet, p.type # "hello",
             HostWrites(SendPacket(p, ok)), hostPc' = "idle"
      PROVE  HellosAfterReset'
  <2>1. PICK t \in SendPacket(p, ok) : h2a' = h2a \o t
    BY <1>3 DEF HostWrites
  <2>2. /\ t \in Seq(Token)
        /\ \A k \in 1 .. Len(t) : t[k].packet \in {p, Junk} \/ t[k] = Delim
    BY <2>1, PacketWritten
  <2>3. \A k \in 1 .. Len(t) : t[k].packet.type # "hello"
    BY <1>3, <2>2, SpecialTypes
  <2>4. QED
    BY <1>3, <2>1, <2>2, <2>3, HellosBefore
<1>4. ASSUME NEW ok \in BOOLEAN, HostSendAck(ok) PROVE HellosAfterReset'
  <2>1. PICK p \in NextPackets(a2h) : HostWrites(SendPacket(HostAck(p.host, p.ark), ok))
    BY <1>4 DEF HostSendAck
  <2>2. p.host \in Nat /\ p.ark \in Nat
    BY <1>0, PacketsRead DEF Packet
  <2>3. HostAck(p.host, p.ark) \in Packet /\ HostAck(p.host, p.ark).type = "ack"
    BY <2>2, PacketTypes, PacketTypesWritten
  <2>4. hostPc' = "idle"
    BY <1>4 DEF HostSendAck, HandshakeReturns
  <2>5. QED
    BY <1>3, <2>1, <2>3, <2>4
<1>5. ASSUME NEW ok \in BOOLEAN, HostSendMessage(ok) PROVE HellosAfterReset'
  <2> DEFINE m == Message(hostSession.host, hostSession.ark, hostSession.sent)
  <2>1. m \in Packet /\ m.type = "message"
    BY <1>0, SessionTypes, PacketTypes, PacketTypesWritten
  <2>2. HostWrites(SendPacket(m, ok)) /\ hostPc' = "idle"
    BY <1>5 DEF HostSendMessage
  <2> HIDE DEF m
  <2>3. QED
    BY <1>3, <2>1, <2>2
<1>6. ASSUME \/ HostReject \/ HostSkipStale \/ HostAbort \/ HostReadFails \/ HostNextMessage
             \/ HostDiscards
      PROVE  HellosAfterReset'
  <2>1. h2a' = h2a /\ (hostPc' = hostPc \/ hostPc' = "idle")
    BY <1>6 DEF HostReject, HostSkipStale, HostAbort, HostReadFails, HostNextMessage,
       HandshakeReturns, HostDiscards, hostVars
  <2>2. QED
    BY <1>0, <2>1, HellosStay
<1>7. QED
  BY <1>1, <1>2, <1>4, <1>5, <1>6, Zenon DEF HostOp

(* The empty frame right before a hello is read as one, and takes the Ark  *)
(* to where it waits for the hello whatever it was doing.                  *)
LEMMA ArkKeepsHellos ==
  ASSUME TypeOK, HellosAfterReset, UNCHANGED hostVars, ArkOp
  PROVE  HellosAfterReset'
<1>0. h2a \in Seq(Token) /\ hostPc' = hostPc
  BY DEF TypeOK, hostVars
<1>1. ASSUME h2a' = Rest(h2a), NEW p \in NextPackets(h2a),
             p = Empty => arkPc' = "hello"
      PROVE  HellosAfterReset'
  <2>1. PICK d \in 1 .. Len(h2a) :
          /\ IsFirstDelim(h2a, d) /\ IsTail(h2a', h2a, d) /\ p \in Decodings(h2a, d)
          /\ \A k \in 1 .. Len(h2a') : h2a'[k] = h2a[k + d]
    BY <1>0, <1>1, RestIsTail
  <2>2. d \in 0 .. Len(h2a) /\ d \in Nat /\ SameDelims(h2a', h2a, d) /\ h2a' \in Seq(Token)
    BY <1>0, <1>1, <2>1, RestIsTail DEF SameDelims
  <2>3. AfterReset(d + 1) => arkPc' = "hello" \/ lapsed'
    <3> SUFFICES ASSUME AfterReset(d + 1) PROVE p = Empty
      BY <1>1
    <3>1. d > 1 => h2a[d - 1] = Delim
      <4>1. d > 1 => d + 1 > 2 /\ (d + 1) - 2 = d - 1
        BY <2>2
      <4>2. QED
        BY <4>1 DEF AfterReset
    <3>2. d = 1
      <4>1. d > 1 => d - 1 \in 1 .. d - 1
        BY <2>2
      <4>2. QED
        BY <2>1, <2>2, <3>1, <4>1 DEF IsFirstDelim
    <3>3. QED
      BY <2>1, <3>2 DEF Decodings
  <2>4. QED
    BY <1>0, <2>1, <2>2, <2>3, HellosPast
<1>2. ASSUME ArkReset \/ ArkStartOver PROVE HellosAfterReset'
  <2>1. Empty \in NextPackets(h2a) /\ h2a' = Rest(h2a) /\ arkPc' = "hello"
    BY <1>2 DEF ArkReset, ArkStartOver
  <2>2. QED
    BY <1>1, <2>1
<1>3. ASSUME NEW p \in NextPackets(h2a), p # Empty, h2a' = Rest(h2a) PROVE HellosAfterReset'
  BY <1>1, <1>3
<1>4. ASSUME NEW ok \in BOOLEAN, ArkSendHello(ok) PROVE HellosAfterReset'
  <2>1. PICK p \in NextPackets(h2a) : p.type = "hello"
    BY <1>4 DEF ArkSendHello
  <2>2. p # Empty /\ h2a' = Rest(h2a)
    BY <1>4, <2>1, SpecialTypes DEF ArkSendHello
  <2>3. QED
    BY <1>3, <2>2
<1>5. ASSUME ArkNextMessage \/ ArkEstablish \/ ArkHandshakeFails PROVE HellosAfterReset'
  <2>1. h2a' = Rest(h2a) /\ \E p \in NextPackets(h2a) : p # Empty
    <3>1. HostAck(arkHost, arkKey) # Empty
      BY PacketTypesWritten, SpecialTypes
    <3>2. \A p : p.type \notin {"empty", "hello"} => p # Empty
      BY SpecialTypes
    <3>3. QED
      BY <1>5, <3>1, <3>2 DEF ArkNextMessage, ArkEstablish, ArkHandshakeFails
  <2>2. QED
    BY <1>3, <2>1
<1>6. ASSUME ArkDiscards PROVE HellosAfterReset'
  <2>1. Undecodable \in NextPackets(h2a) /\ Undecodable # Empty /\ h2a' = Rest(h2a)
    BY <1>0, <1>6, GluedRead DEF ArkDiscards
  <2>2. QED
    BY <1>3, <2>1
<1>7. ASSUME ArkReadFails \/ \E ok \in BOOLEAN : ArkSendMessage(ok) PROVE HellosAfterReset'
  <2>1. h2a' = h2a /\ (arkPc = "hello" \/ lapsed => arkPc' = "hello" \/ lapsed')
    <3>1. CASE ArkReadFails
      <4>1. h2a' = h2a /\ lapsed' = (lapsed \/ arkPc = "hello")
        BY <3>1 DEF ArkReadFails
      <4>2. QED
        BY <4>1, Zenon
    <3>2. CASE \E ok \in BOOLEAN : ArkSendMessage(ok)
      <4>1. h2a' = h2a /\ lapsed' = lapsed /\ arkPc' = arkPc
        BY <3>2 DEF ArkSendMessage
      <4>2. QED
        BY <4>1, Zenon
    <3>3. QED
      BY <1>7, <3>1, <3>2
  <2>2. QED
    BY <1>0, <2>1, HellosStay
<1>8. QED
  BY <1>2, <1>4, <1>5, <1>6, <1>7, Zenon DEF ArkOp

(* Nobody else writes between the host's reset and its hello.              *)
NoNoise == "noise" \notin Disturbances

LEMMA HelloStep ==
  ASSUME NoNoise, TypeOK, HellosAfterReset, [Next]_vars
  PROVE  HellosAfterReset'
<1>1. CASE HostOp /\ UNCHANGED arkVars
  BY <1>1, HostKeepsHellos
<1>2. CASE ArkOp /\ UNCHANGED hostVars
  BY <1>2, ArkKeepsHellos
<1>3. CASE HostRestart
  <2>1. h2a' = h2a /\ hostPc' = "idle" /\ arkPc' = arkPc /\ lapsed' = lapsed
    BY <1>3 DEF HostRestart, arkVars
  <2>2. QED
    BY <2>1, HellosStay
<1>4. CASE ArkRestart
  <2>1. h2a' \in Remains(h2a) /\ lapsed' = TRUE /\ hostPc' = hostPc
    BY <1>4 DEF ArkRestart, hostVars
  <2>2. h2a \in Seq(Token)
    BY DEF TypeOK
  <2>3. /\ h2a' \in Seq(Token)
        /\ \E n \in 0 .. Len(h2a) : IsTail(h2a', h2a, n) /\ SameDelims(h2a', h2a, n)
    BY <2>1, <2>2, RemainsIsTail
  <2>4. QED
    BY <2>1, <2>3, HellosPast
<1>5. CASE Noise
  BY <1>5 DEF Noise, Disturbed, NoNoise
<1>6. CASE UNCHANGED vars
  <2>1. h2a' = h2a /\ hostPc' = hostPc /\ arkPc' = arkPc /\ lapsed' = lapsed
    BY <1>6 DEF vars, hostVars, arkVars
  <2>2. QED
    BY <2>1, HellosStay
<1>7. faults \in 0 .. MaxFaults
  BY DEF TypeOK
<1>8. QED
  BY <1>1, <1>2, <1>3, <1>4, <1>5, <1>6, <1>7, StepCases

(* Right before every hello on its way, and where the host writes the next *)
(* one, is the reset of its attempt, or the Ark has read it and waits: the *)
(* reset of HostSide::handshake and the reset frames ArkSide skips.        *)
THEOREM HellosFollowResets ==
  ASSUME NoNoise
  PROVE  Spec => []HellosAfterReset
<1>1. Init => HellosAfterReset
  BY DEF Init, HostInit, HellosAfterReset
<1>2. TypeOK /\ HellosAfterReset /\ [Next]_vars => HellosAfterReset'
  BY HelloStep
<1>3. QED
  BY <1>1, <1>2, WireTypeCorrect, PTL DEF Spec

(* next_message of the Ark never drops a hello as data outside a session,  *)
(* unless the Ark gave up waiting for it or restarted since the reset.     *)
THEOREM EveryHelloHeard ==
  ASSUME NoNoise
  PROVE  Spec => HelloHeard
<1>1. ASSUME TypeOK, HellosAfterReset, ArkNextMessage, ~lapsed, NEW p \in NextPackets(h2a)
      PROVE  p.type # "hello"
  <2> SUFFICES ASSUME p.type = "hello" PROVE FALSE
    OBVIOUS
  <2>1. h2a \in Seq(Token) /\ arkPc = "serve"
    BY <1>1 DEF TypeOK, ArkNextMessage
  <2>2. Len(h2a) >= 2 /\ h2a[1].packet = p
    BY <2>1, SentPacketRead
  <2>3. 1 \in DOMAIN h2a
    BY <2>1, <2>2
  <2>4. AfterReset(1)
    BY <1>1, <2>2, <2>3 DEF HellosAfterReset
  <2>5. QED
    BY <1>1, <2>1, <2>4 DEF AfterReset
<1>2. TypeOK /\ HellosAfterReset /\ [Next]_vars =>
        [ArkNextMessage /\ ~lapsed => \A p \in NextPackets(h2a) : p.type # "hello"]_vars
  BY <1>1
<1>3. QED
  BY <1>2, WireTypeCorrect, HellosFollowResets, PTL DEF Spec, HelloHeard
=============================================================================
