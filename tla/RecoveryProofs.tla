--------------------------- MODULE RecoveryProofs ---------------------------
(***************************************************************************)
(* What a disturbance costs: RecoveryBound for every number of attempts,   *)
(* messages, replies and disturbances, every capacity and stale limit.     *)
(***************************************************************************)
EXTENDS Recovery, AgreementProofs, FiniteSetTheorems

-----------------------------------------------------------------------------
(* Counting the places of a stream.                                        *)

(* The places left when a stream is read from are places it had, moved.    *)
LEMMA CountMoved ==
  ASSUME NEW A \in SUBSET Nat, NEW B \in SUBSET Nat, IsFiniteSet(B), NEW n \in Nat,
         \A k \in A : k + n \in B
  PROVE  IsFiniteSet(A) /\ Cardinality(A) <= Cardinality(B)
<1> DEFINE f == [k \in A |-> k + n]
<1>1. \A k, l \in A : f[k] = f[l] => k = l
  OBVIOUS
<1>2. f \in [A -> B]
  OBVIOUS
<1>3. f \in Injection(A, B)
  BY <1>1, <1>2 DEF Injection, IsInjective
<1>4. QED
  BY <1>3, FS_Injection

LEMMA CountMovedLess ==
  ASSUME NEW A \in SUBSET Nat, NEW B \in SUBSET Nat, IsFiniteSet(B), NEW n \in Nat,
         \A k \in A : k + n \in B, NEW b \in B, \A k \in A : k + n # b
  PROVE  IsFiniteSet(A) /\ Cardinality(A) + 1 <= Cardinality(B)
<1>1. IsFiniteSet(B \ {b}) /\ Cardinality(B \ {b}) = Cardinality(B) - 1
  BY FS_RemoveElement
<1>2. IsFiniteSet(A) /\ Cardinality(A) <= Cardinality(B \ {b})
  <2>1. B \ {b} \in SUBSET Nat
    OBVIOUS
  <2>2. \A k \in A : k + n \in B \ {b}
    OBVIOUS
  <2>3. QED
    BY <1>1, <2>1, <2>2, CountMoved
<1>3. Cardinality(A) \in Nat /\ Cardinality(B) \in Nat
  BY <1>2, FS_CardinalityType
<1>4. QED
  BY <1>1, <1>2, <1>3

LEMMA CountMore ==
  ASSUME NEW A, NEW B, IsFiniteSet(B), NEW b, A \subseteq B \cup {b}
  PROVE  IsFiniteSet(A) /\ Cardinality(A) <= Cardinality(B) + 1
<1>1. /\ IsFiniteSet(B \cup {b})
      /\ Cardinality(B \cup {b}) = IF b \in B THEN Cardinality(B) ELSE Cardinality(B) + 1
  BY FS_AddElement
<1>2. Cardinality(B) \in Nat
  BY FS_CardinalityType
<1>3. IsFiniteSet(A) /\ Cardinality(A) <= Cardinality(B \cup {b})
  BY <1>1, FS_Subset
<1>4. Cardinality(A) \in Nat
  BY <1>3, FS_CardinalityType
<1>5. QED
  BY <1>1, <1>2, <1>3, <1>4

LEMMA CountTypes ==
  ASSUME NEW s \in Seq(Token)
  PROVE  /\ FramesIn(s) \in SUBSET Nat /\ IsFiniteSet(FramesIn(s)) /\ Cardinality(FramesIn(s)) \in Nat
         /\ HellosIn(s) \in SUBSET Nat /\ IsFiniteSet(HellosIn(s)) /\ Cardinality(HellosIn(s)) \in Nat
         /\ PiecesIn(s) \in SUBSET Nat /\ IsFiniteSet(PiecesIn(s)) /\ Cardinality(PiecesIn(s)) \in Nat
<1>1. DOMAIN s = 1 .. Len(s) /\ Len(s) \in Nat
  OBVIOUS
<1>2. IsFiniteSet(1 .. Len(s)) /\ 1 .. Len(s) \subseteq Nat
  BY <1>1, FS_Interval
<1>3. ASSUME NEW T, T \subseteq 1 .. Len(s) PROVE T \in SUBSET Nat /\ IsFiniteSet(T) /\ Cardinality(T) \in Nat
  BY <1>2, <1>3, FS_Subset, FS_CardinalityType
<1>4. FramesIn(s) \subseteq 1 .. Len(s) /\ HellosIn(s) \subseteq 1 .. Len(s) /\ PiecesIn(s) \subseteq 1 .. Len(s)
  BY <1>1 DEF FramesIn, HellosIn, PiecesIn
<1>5. QED
  BY <1>3, <1>4

(* A frame holds nothing, one whole packet, or a piece.                    *)
Spoiled(s, d) ==
  IsFirstDelim(s, d) /\ d # 1 /\ ~(d = 2 /\ s[1].kind = "body")

(* Reading a frame takes its delimiter and what spoils it from the stream. *)
LEMMA FrameRead ==
  ASSUME NEW s \in Seq(Token), NEW r \in Seq(Token), NEW d \in 1 .. Len(s), IsFirstDelim(s, d),
         IsTail(r, s, d), \A k \in 1 .. Len(r) : r[k] = s[k + d]
  PROVE  /\ Cardinality(FramesIn(r)) + 1 <= Cardinality(FramesIn(s))
         /\ Cardinality(PiecesIn(r)) <= Cardinality(PiecesIn(s))
         /\ Spoiled(s, d) => Cardinality(PiecesIn(r)) + 1 <= Cardinality(PiecesIn(s))
         /\ Cardinality(HellosIn(r)) <= Cardinality(HellosIn(s))
         /\ s[1].packet.type = "hello" => Cardinality(HellosIn(r)) + 1 <= Cardinality(HellosIn(s))
         /\ HellosIn(s) = {} => HellosIn(r) = {}
<1>1. /\ DOMAIN s = 1 .. Len(s) /\ DOMAIN r = 1 .. Len(r) /\ Len(r) = Len(s) - d
      /\ Len(s) \in Nat /\ Len(r) \in Nat /\ d \in Nat /\ d > 0
  BY DEF IsTail
<1>2. \A k \in DOMAIN r : k + d \in DOMAIN s /\ r[k] = s[k + d]
  BY <1>1
<1>3. /\ \A k \in FramesIn(r) : k + d \in FramesIn(s) /\ k + d # d
      /\ d \in FramesIn(s)
  BY <1>1, <1>2 DEF FramesIn, IsFirstDelim
<1>4. \A k \in HellosIn(r) : k + d \in HellosIn(s) /\ k + d # 1
  BY <1>1, <1>2 DEF HellosIn
<1>5. ASSUME NEW k \in PiecesIn(r) PROVE k + d \in PiecesIn(s) /\ k + d # 1
  <2>1. k \in DOMAIN r /\ k + d \in DOMAIN s /\ r[k] = s[k + d] /\ k + d # 1
    BY <1>1, <1>2 DEF PiecesIn
  <2>2. k = Len(r) => k + d = Len(s)
    BY <1>1
  <2>3. k # Len(r) => k + 1 \in DOMAIN r /\ (k + 1) + d = (k + d) + 1
    BY <1>1, <2>1
  <2>4. k # Len(r) => r[k + 1] = s[(k + d) + 1]
    BY <1>2, <2>3
  <2>5. QED
    BY <2>1, <2>2, <2>4 DEF PiecesIn
<1>6. ASSUME Spoiled(s, d) PROVE 1 \in PiecesIn(s)
  <2>1. 1 \in DOMAIN s /\ d > 1 /\ s[1] # Delim
    BY <1>1, <1>6 DEF Spoiled, IsFirstDelim
  <2>2. s[1].kind = "body" => d > 2
    BY <1>1, <1>6, <2>1 DEF Spoiled
  <2>3. d > 2 => s[1 + 1] # Delim
    BY <1>1 DEF IsFirstDelim
  <2>4. QED
    BY <2>1, <2>2, <2>3 DEF PiecesIn
<1>7. Cardinality(FramesIn(r)) + 1 <= Cardinality(FramesIn(s))
  BY <1>1, <1>3, CountTypes, CountMovedLess
<1>8. Cardinality(PiecesIn(r)) <= Cardinality(PiecesIn(s))
  BY <1>1, <1>5, CountTypes, CountMoved
<1>9. Spoiled(s, d) => Cardinality(PiecesIn(r)) + 1 <= Cardinality(PiecesIn(s))
  BY <1>1, <1>5, <1>6, CountTypes, CountMovedLess
<1>10. Cardinality(HellosIn(r)) <= Cardinality(HellosIn(s))
  BY <1>1, <1>4, CountTypes, CountMoved
<1>11. s[1].packet.type = "hello" => Cardinality(HellosIn(r)) + 1 <= Cardinality(HellosIn(s))
  <2>1. s[1].packet.type = "hello" => 1 \in HellosIn(s)
    BY <1>1 DEF HellosIn
  <2>2. QED
    BY <1>1, <1>4, <2>1, CountTypes, CountMovedLess
<1>12. QED
  BY <1>4, <1>7, <1>8, <1>9, <1>10, <1>11

(* What is left when a reader dies may hold one piece more.                *)
LEMMA FramesRemain ==
  ASSUME NEW s \in Seq(Token), NEW r \in Remains(s)
  PROVE  /\ r \in Seq(Token)
         /\ Cardinality(FramesIn(r)) <= Cardinality(FramesIn(s))
         /\ Cardinality(PiecesIn(r)) <= Cardinality(PiecesIn(s)) + 1
         /\ Cardinality(HellosIn(r)) <= Cardinality(HellosIn(s))
         /\ HellosIn(s) = {} => HellosIn(r) = {}
<1>0. r \in Seq(Token)
  BY RemainsIsTail
<1>1. PICK n \in 0 .. Len(s) : IsTail(r, s, n)
  BY RemainsIsTail
<1>2. /\ DOMAIN s = 1 .. Len(s) /\ DOMAIN r = 1 .. Len(r) /\ Len(r) + n = Len(s)
      /\ Len(s) \in Nat /\ Len(r) \in Nat /\ n \in Nat
  BY <1>0, <1>1 DEF IsTail
<1>3. \A k \in DOMAIN r : k + n \in DOMAIN s /\ (r[k] = s[k + n] \/ (k = 1 /\ r[k] = Cut))
  BY <1>1, <1>2 DEF IsTail
<1>4. Cut # Delim /\ Cut.packet.type # "hello"
  BY SpecialTypes DEF Cut, Delim
<1>5. \A k \in FramesIn(r) : k + n \in FramesIn(s)
  BY <1>3, <1>4 DEF FramesIn
<1>6. \A k \in HellosIn(r) : k + n \in HellosIn(s)
  BY <1>3, <1>4 DEF HellosIn
<1>7. ASSUME NEW k \in PiecesIn(r) \ {1} PROVE k + n \in PiecesIn(s)
  <2>1. k \in DOMAIN r /\ k + n \in DOMAIN s /\ r[k] = s[k + n]
    BY <1>2, <1>3 DEF PiecesIn
  <2>2. k = Len(r) => k + n = Len(s)
    BY <1>2
  <2>3. k # Len(r) => k + 1 \in DOMAIN r /\ (k + 1) + n = (k + n) + 1 /\ k + 1 # 1
    BY <1>2, <2>1
  <2>4. k # Len(r) => r[k + 1] = s[(k + n) + 1]
    BY <1>3, <2>3
  <2>5. QED
    BY <2>1, <2>2, <2>4 DEF PiecesIn
<1>8. Cardinality(FramesIn(r)) <= Cardinality(FramesIn(s))
  BY <1>0, <1>2, <1>5, CountTypes, CountMoved
<1>9. Cardinality(HellosIn(r)) <= Cardinality(HellosIn(s))
  BY <1>0, <1>2, <1>6, CountTypes, CountMoved
<1>10. Cardinality(PiecesIn(r)) <= Cardinality(PiecesIn(s)) + 1
  <2> DEFINE T == PiecesIn(r) \ {1}
  <2>1. T \in SUBSET Nat
    BY <1>0, CountTypes
  <2>2. IsFiniteSet(T) /\ Cardinality(T) <= Cardinality(PiecesIn(s))
    BY <1>2, <1>7, <2>1, CountTypes, CountMoved
  <2>3. PiecesIn(r) \subseteq T \cup {1}
    OBVIOUS
  <2> HIDE DEF T
  <2>4. Cardinality(PiecesIn(r)) <= Cardinality(T) + 1
    BY <2>2, <2>3, CountMore
  <2>5. /\ Cardinality(T) \in Nat /\ Cardinality(PiecesIn(s)) \in Nat
        /\ Cardinality(PiecesIn(r)) \in Nat
    BY <1>0, <2>2, CountTypes, FS_CardinalityType
  <2>6. QED
    BY <2>2, <2>4, <2>5
<1>11. QED
  BY <1>0, <1>6, <1>8, <1>9, <1>10

(* What a write adds: a packet a frame, unless it fails and leaves a piece *)
(* or nothing.                                                             *)
LEMMA PacketCounted ==
  ASSUME NEW s \in Seq(Token), NEW p \in Packet, NEW ok \in BOOLEAN, NEW t \in SendPacket(p, ok)
  PROVE  /\ s \o t \in Seq(Token)
         /\ \/ /\ Cardinality(FramesIn(s \o t)) <= Cardinality(FramesIn(s)) + 1
               /\ Cardinality(PiecesIn(s \o t)) <= Cardinality(PiecesIn(s))
            \/ /\ ~ok
               /\ Cardinality(FramesIn(s \o t)) <= Cardinality(FramesIn(s))
               /\ Cardinality(PiecesIn(s \o t)) <= Cardinality(PiecesIn(s)) + 1
         /\ Cardinality(HellosIn(s \o t)) <= Cardinality(HellosIn(s)) + 1
         /\ p.type # "hello" => HellosIn(s \o t) = HellosIn(s)
<1> DEFINE u == s \o t
           n == Len(s)
<1>0. /\ t \in Seq(Token) /\ u \in Seq(Token) /\ Len(u) = n + Len(t) /\ n \in Nat
      /\ \A k \in 1 .. n : u[k] = s[k]
      /\ \A k \in n + 1 .. n + Len(t) : u[k] = t[k - n]
      /\ DOMAIN s = 1 .. n /\ DOMAIN u = 1 .. Len(u)
  BY PacketWritten, Joined
<1>1. Cut # Delim /\ Cut.packet.type # "hello" /\ Delim.packet.type # "hello" /\ Cut.kind = "cut"
  BY SpecialTypes DEF Cut, Delim
<1>2. Body(p) # Delim /\ Body(p).packet = p /\ Body(p).kind = "body"
  BY DEF Body, Delim
<1>3. \/ t = <<Body(p), Delim>>
      \/ ~ok /\ t \in {<<>>, <<Cut>>, <<Body(p)>>}
  BY DEF SendPacket, Frame
<1> HIDE DEF u, n
<1>4. ASSUME NEW k \in PiecesIn(u), k \in 1 .. n PROVE k \in PiecesIn(s)
  <2>1. k \in DOMAIN s /\ u[k] = s[k]
    BY <1>0, <1>4
  <2>2. k # n => k + 1 \in 1 .. n /\ u[k + 1] = s[k + 1]
    BY <1>0, <1>4
  <2>3. k # n => k # Len(u)
    BY <1>0, <1>4
  <2>4. QED
    BY <2>1, <2>2, <2>3, <1>4 DEF PiecesIn, n
<1>5. CASE t = <<Body(p), Delim>>
  <2>1. Len(u) = n + 2 /\ u[n + 1] = Body(p) /\ u[n + 2] = Delim
    <3>1. Len(t) = 2 /\ t[1] = Body(p) /\ t[2] = Delim
      BY <1>5
    <3>2. /\ n + 1 \in n + 1 .. n + Len(t) /\ (n + 1) - n = 1
          /\ n + 2 \in n + 1 .. n + Len(t) /\ (n + 2) - n = 2
      BY <1>0, <3>1
    <3>3. QED
      BY <1>0, <3>1, <3>2
  <2>2. \A k \in DOMAIN u : k \in 1 .. n \/ k = n + 1 \/ k = n + 2
    BY <1>0, <2>1
  <2>3. FramesIn(u) \subseteq FramesIn(s) \cup {n + 2}
    BY <1>0, <1>2, <2>1, <2>2 DEF FramesIn
  <2>4. HellosIn(u) \subseteq HellosIn(s) \cup {n + 1}
    BY <1>0, <1>1, <2>1, <2>2 DEF HellosIn
  <2>5. PiecesIn(u) \subseteq PiecesIn(s)
    <3>1. n + 1 \notin PiecesIn(u)
      <4>1. (n + 1) + 1 = n + 2 /\ n + 1 # Len(u)
        BY <1>0, <2>1
      <4>2. u[(n + 1) + 1] = Delim
        BY <2>1, <4>1
      <4>3. u[n + 1].kind = "body"
        BY <1>2, <2>1
      <4>4. QED
        BY <4>1, <4>2, <4>3 DEF PiecesIn
    <3>2. n + 2 \notin PiecesIn(u)
      BY <2>1 DEF PiecesIn
    <3>3. PiecesIn(u) \subseteq DOMAIN u
      BY DEF PiecesIn
    <3>4. QED
      BY <1>4, <2>2, <3>1, <3>2, <3>3
  <2>6. p.type # "hello" => n + 1 \notin HellosIn(u)
    BY <1>2, <2>1 DEF HellosIn
  <2>7. HellosIn(s) \subseteq HellosIn(u)
    BY <1>0 DEF HellosIn
  <2>8. p.type # "hello" => HellosIn(u) = HellosIn(s)
    BY <2>4, <2>6, <2>7
  <2>9. Cardinality(FramesIn(u)) <= Cardinality(FramesIn(s)) + 1
    BY <2>3, CountTypes, CountMore
  <2>10. Cardinality(HellosIn(u)) <= Cardinality(HellosIn(s)) + 1
    BY <2>4, CountTypes, CountMore
  <2>11. Cardinality(PiecesIn(u)) <= Cardinality(PiecesIn(s))
    BY <2>5, CountTypes, FS_Subset
  <2>12. QED
    BY <1>0, <2>8, <2>9, <2>10, <2>11 DEF u
<1>6. CASE t = <<Cut>> \/ t = <<Body(p)>>
  <2>1. Len(u) = n + 1 /\ u[n + 1] = t[1] /\ t[1] \in {Cut, Body(p)}
    <3>1. Len(t) = 1 /\ t[1] \in {Cut, Body(p)}
      BY <1>6
    <3>2. n + 1 \in n + 1 .. n + Len(t) /\ (n + 1) - n = 1
      BY <1>0, <3>1
    <3>3. QED
      BY <1>0, <3>1, <3>2
  <2>2. \A k \in DOMAIN u : k \in 1 .. n \/ k = n + 1
    BY <1>0, <2>1
  <2>3. FramesIn(u) \subseteq FramesIn(s)
    BY <1>0, <1>1, <1>2, <2>1, <2>2 DEF FramesIn
  <2>4. HellosIn(u) \subseteq HellosIn(s) \cup {n + 1}
    BY <1>0, <1>1, <2>1, <2>2 DEF HellosIn
  <2>5. PiecesIn(u) \subseteq PiecesIn(s) \cup {n + 1}
    <3>1. PiecesIn(u) \subseteq DOMAIN u
      BY DEF PiecesIn
    <3>2. QED
      BY <1>4, <2>2, <3>1
  <2>6. p.type # "hello" => n + 1 \notin HellosIn(u)
    BY <1>1, <1>2, <2>1 DEF HellosIn
  <2>7. HellosIn(s) \subseteq HellosIn(u)
    BY <1>0 DEF HellosIn
  <2>8. p.type # "hello" => HellosIn(u) = HellosIn(s)
    BY <2>4, <2>6, <2>7
  <2>9. Cardinality(FramesIn(u)) <= Cardinality(FramesIn(s))
    BY <2>3, CountTypes, FS_Subset
  <2>10. Cardinality(HellosIn(u)) <= Cardinality(HellosIn(s)) + 1
    BY <2>4, CountTypes, CountMore
  <2>11. Cardinality(PiecesIn(u)) <= Cardinality(PiecesIn(s)) + 1
    BY <2>5, CountTypes, CountMore
  <2>12. ~ok
    <3>1. Len(<<Body(p), Delim>>) = 2
      OBVIOUS
    <3>2. Len(t) = 1
      BY <1>6
    <3>3. QED
      BY <1>3, <3>1, <3>2
  <2>13. QED
    BY <1>0, <2>8, <2>9, <2>10, <2>11, <2>12 DEF u
<1>7. CASE t = <<>>
  <2>1. s \o t = s
    BY <1>7, NothingWritten
  <2>2. ~ok
    <3>1. <<Body(p), Delim>> # <<>>
      OBVIOUS
    <3>2. QED
      BY <1>3, <1>7, <3>1
  <2>3. /\ Cardinality(FramesIn(s)) \in Nat /\ Cardinality(PiecesIn(s)) \in Nat
        /\ Cardinality(HellosIn(s)) \in Nat
    BY CountTypes
  <2>4. QED
    BY <2>1, <2>2, <2>3
<1>8. QED
  BY <1>3, <1>5, <1>6, <1>7

(* Nothing but a hello adds to the hellos of a stream.                     *)
LEMMA NoHelloWritten ==
  ASSUME NEW s \in Seq(Token), NEW t \in Seq(Token), \A k \in 1 .. Len(t) : t[k].packet.type # "hello"
  PROVE  HellosIn(s \o t) = HellosIn(s)
<1>1. /\ s \o t \in Seq(Token) /\ Len(s \o t) = Len(s) + Len(t)
      /\ \A k \in 1 .. Len(s) : (s \o t)[k] = s[k]
      /\ \A k \in Len(s) + 1 .. Len(s) + Len(t) : (s \o t)[k] = t[k - Len(s)]
  BY Joined
<1>2. \A k \in 1 .. Len(s \o t) :
        \/ k \in 1 .. Len(s)
        \/ k \in Len(s) + 1 .. Len(s) + Len(t) /\ k - Len(s) \in 1 .. Len(t)
  <2>1. ASSUME NEW k \in 1 .. Len(s \o t), k \notin 1 .. Len(s)
        PROVE  k \in Len(s) + 1 .. Len(s) + Len(t) /\ k - Len(s) \in 1 .. Len(t)
    <3>1. Len(s) \in Nat /\ Len(t) \in Nat /\ k \in 1 .. Len(s) + Len(t)
      BY <1>1
    <3>2. QED
      BY <2>1, <3>1
  <2>2. QED
    BY <2>1
<1>3. DOMAIN s = 1 .. Len(s) /\ DOMAIN (s \o t) = 1 .. Len(s \o t) /\ 1 .. Len(s) \subseteq 1 .. Len(s \o t)
  BY <1>1
<1>4. QED
  BY <1>1, <1>2, <1>3 DEF HellosIn

-----------------------------------------------------------------------------
(* The sums and what a step does to them.                                  *)

Sound == TypeOK /\ arkSession.sent <= MaxReplies /\ (hostPc # "ack" => stale = 0)

Pieces == Cardinality(PiecesIn(a2h))

Counted ==
  /\ h2a \in Seq(Token) /\ a2h \in Seq(Token)
  /\ MAX_STALE_FRAMES \in Nat /\ MAX_STALE_FRAMES > 0 /\ MaxReplies \in Nat /\ MaxReplies > 0
  /\ hostKey \in Nat /\ faults \in Nat /\ stale \in 0 .. MAX_STALE_FRAMES
  /\ RepliesLeft \in 0 .. MaxReplies /\ Leftover \in Nat /\ Pieces \in Nat
  /\ Cardinality(FramesIn(a2h)) \in Nat /\ Cardinality(HellosIn(h2a)) \in Nat
  /\ Leftover = Cardinality(FramesIn(a2h)) + Cardinality(HellosIn(h2a)) + RepliesLeft

LEMMA CountsAreTyped == Sound => Counted
<1> SUFFICES ASSUME Sound PROVE Counted
  OBVIOUS
<1>1. /\ h2a \in Seq(Token) /\ a2h \in Seq(Token)
      /\ MAX_STALE_FRAMES \in Nat /\ MAX_STALE_FRAMES > 0 /\ MaxReplies \in Nat /\ MaxReplies > 0
      /\ hostKey \in Nat /\ faults \in Nat /\ stale \in 0 .. MAX_STALE_FRAMES
  BY HostAssumption, ArkAssumption, WireAssumption, RecoveryAssumption DEF Sound, TypeOK, HostTypeOK
<1>2. arkSession.sent \in Nat /\ arkSession.sent <= MaxReplies
  BY SessionTypes DEF Sound, TypeOK, ArkTypeOK
<1>3. RepliesLeft \in 0 .. MaxReplies
  BY <1>1, <1>2 DEF RepliesLeft
<1>4. /\ Cardinality(FramesIn(a2h)) \in Nat /\ Cardinality(HellosIn(h2a)) \in Nat
      /\ Pieces \in Nat
  BY <1>1, CountTypes DEF Pieces
<1>5. Leftover \in Nat
  BY <1>3, <1>4 DEF Leftover
<1>6. QED
  BY <1>1, <1>3, <1>4, <1>5 DEF Counted, Leftover

LEMMA CountsStayTyped == Sound' => Counted'
BY CountsAreTyped, PTL

(* What is owed, as far as it is known without looking at the streams.     *)
Bounds ==
  /\ Course \in Nat
  /\ hostSession # NoSession => Course <= MAX_STALE_FRAMES
  /\ hostSession # NoSession /\ SessionOnCourse => Course = 0
  /\ hostSession # NoSession /\ ~ SessionOnCourse => Course = MAX_STALE_FRAMES
  /\ hostSession = NoSession /\ hostPc = "idle" => Course = MAX_STALE_FRAMES + Leftover
  /\ hostSession = NoSession /\ hostPc = "hello" =>
       /\ Leftover <= Course /\ Course <= MAX_STALE_FRAMES + Leftover + 1
       /\ HelloOnCourse => Course = Leftover
       /\ ~ HelloOnCourse => Course = MAX_STALE_FRAMES + Leftover + 1
  /\ hostSession = NoSession /\ hostPc = "ack" =>
       /\ Leftover <= Course + 1 /\ Course <= MAX_STALE_FRAMES + Leftover
       /\ AttemptOnCourse => Course + 1 = stale + Leftover
       /\ ~ AttemptOnCourse => Course = MAX_STALE_FRAMES + Leftover

(* The answer or the hello that is on course is one of those counted.      *)
LEMMA OwnCounted == Counted /\ AttemptOnCourse => Leftover > 0
<1> SUFFICES ASSUME Counted, AttemptOnCourse PROVE Leftover > 0
  OBVIOUS
<1>0. h2a \in Seq(Token) /\ a2h \in Seq(Token)
  BY DEF Counted
<1>1. ASSUME NEW T, IsFiniteSet(T), Cardinality(T) \in Nat, NEW k \in T PROVE Cardinality(T) > 0
  BY <1>1, FS_EmptySet
<1>2. CASE HelloUnderWay
  <2> DEFINE k == Len(h2a) - 1
  <2>1. k > 0 /\ h2a[k] = Body(HostHello(hostKey))
    BY <1>2 DEF HelloUnderWay
  <2>2. k \in DOMAIN h2a
    BY <1>0, <2>1
  <2>3. h2a[k].packet.type = "hello"
    BY <2>1, PacketTypesWritten DEF Body
  <2> HIDE DEF k
  <2>4. k \in HellosIn(h2a)
    BY <2>2, <2>3 DEF HellosIn
  <2>5. Cardinality(HellosIn(h2a)) > 0
    BY <1>0, <1>1, <2>4, CountTypes
  <2>6. QED
    BY <2>5 DEF Counted
<1>3. CASE AnswerUnderWay
  <2> DEFINE k == Len(a2h) - 1
  <2>1. k > 0 /\ a2h[k + 1] = Delim
    BY <1>3 DEF AnswerUnderWay
  <2>2. k + 1 \in DOMAIN a2h
    BY <1>0, <2>1
  <2> HIDE DEF k
  <2>3. k + 1 \in FramesIn(a2h)
    BY <2>1, <2>2 DEF FramesIn
  <2>4. Cardinality(FramesIn(a2h)) > 0
    BY <1>0, <1>1, <2>3, CountTypes
  <2>5. QED
    BY <2>4 DEF Counted
<1>4. QED
  BY <1>2, <1>3 DEF AttemptOnCourse

LEMMA CourseBounds == Sound => Bounds
<1> SUFFICES ASSUME Sound PROVE Bounds
  OBVIOUS
<1>1. Counted
  BY CountsAreTyped
<1>2. /\ MAX_STALE_FRAMES \in Nat /\ Leftover \in Nat /\ stale \in Nat /\ stale <= MAX_STALE_FRAMES
      /\ MAX_STALE_FRAMES > 0
  BY <1>1 DEF Counted
<1>3. AttemptOnCourse => Leftover > 0
  BY <1>1, OwnCounted
<1>4. hostPc \in {"idle", "hello", "ack"}
  BY DEF Sound, TypeOK, HostTypeOK
<1>5. CASE hostSession # NoSession
  BY <1>2, <1>5 DEF Bounds, Course
<1>6. CASE hostSession = NoSession /\ hostPc = "idle"
  BY <1>2, <1>6 DEF Bounds, Course
<1>7. CASE hostSession = NoSession /\ hostPc = "hello"
  BY <1>2, <1>7 DEF Bounds, Course
<1>8. CASE hostSession = NoSession /\ hostPc = "ack"
  BY <1>2, <1>3, <1>8 DEF Bounds, Course
<1>9. QED
  BY <1>4, <1>5, <1>6, <1>7, <1>8

LEMMA CourseStaysBound == Sound' => Bounds'
BY CourseBounds, PTL

(* A step that is no disturbance, and one that is, in terms of what is     *)
(* owed.                                                                   *)
LEMMA Product ==
  ASSUME NEW a \in Nat, NEW m \in Nat, NEW n \in Nat
  PROVE  /\ a * m \in Nat /\ a * (n + 1) = a * n + a
         /\ m <= n => a * m <= a * n
         /\ m <= n + 1 => a * m <= a * n + a
         /\ m + 1 <= n => a * m + a <= a * n
<1>1. a * m \in Nat /\ a * n \in Nat
  OBVIOUS
<1>2. ASSUME NEW k \in Nat, NEW l \in Nat, k <= l PROVE a * k <= a * l
  <2>1. PICK e \in Nat : l = k + e
    <3>1. l - k \in Nat /\ l = k + (l - k)
      BY <1>2
    <3>2. QED
      BY <3>1
  <2>2. a * l = a * k + a * e /\ a * e \in Nat /\ a * k \in Nat
    BY <2>1
  <2>3. QED
    BY <2>2
<1>3. a * (n + 1) = a * n + a /\ a * (m + 1) = a * m + a
  OBVIOUS
<1>4. n + 1 \in Nat /\ m + 1 \in Nat
  OBVIOUS
<1>5. m <= n => a * m <= a * n
  BY <1>2
<1>6. m <= n + 1 => a * m <= a * n + a
  BY <1>2, <1>3, <1>4
<1>7. m + 1 <= n => a * m + a <= a * n
  BY <1>2, <1>3, <1>4
<1>8. QED
  BY <1>1, <1>3, <1>5, <1>6, <1>7

(* One line of the account: k attempts, g pieces and c more are covered by *)
(* f disturbances of price e, and stay so.                                 *)
LEMMA Account ==
  ASSUME NEW a \in Nat, NEW e \in Nat, NEW k \in Nat, NEW g \in Nat, NEW h \in Nat,
         NEW c \in Nat, NEW d \in Nat, NEW f \in Nat,
         a * k + (a * g + c) <= a + e * f
  PROVE  /\ (h <= g /\ d <= c) \/ (h + 1 <= g /\ d <= c + a) =>
              a * k + (a * h + d) <= a + e * f
         /\ h <= g /\ d + a <= c => a * (k + 1) + (a * h + d) <= a + e * f
         /\ (h <= g /\ d <= c + e) \/ (h <= g + 1 /\ d + a <= c + e) =>
              a * k + (a * h + d) <= a + e * (f + 1)
         /\ h <= g /\ d + a <= c + e => a * (k + 1) + (a * h + d) <= a + e * (f + 1)
<1>1. /\ a * k \in Nat /\ a * (k + 1) = a * k + a
      /\ e * f \in Nat /\ e * (f + 1) = e * f + e
      /\ a * h \in Nat /\ a * g \in Nat
      /\ h <= g => a * h <= a * g
      /\ h <= g + 1 => a * h <= a * g + a
      /\ h + 1 <= g => a * h + a <= a * g
  BY Product
<1> DEFINE ak == a * k ah == a * h ag == a * g ef == e * f ak1 == a * (k + 1) ef1 == e * (f + 1)
<1>2. /\ ak \in Nat /\ ak1 = ak + a /\ ef \in Nat /\ ef1 = ef + e
      /\ ah \in Nat /\ ag \in Nat
      /\ h <= g => ah <= ag
      /\ h <= g + 1 => ah <= ag + a
      /\ h + 1 <= g => ah + a <= ag
      /\ ak + (ag + c) <= a + ef
  BY <1>1
<1>3. SUFFICES
        /\ (h <= g /\ d <= c) \/ (h + 1 <= g /\ d <= c + a) =>
             ak + (ah + d) <= a + ef
        /\ h <= g /\ d + a <= c => ak1 + (ah + d) <= a + ef
        /\ (h <= g /\ d <= c + e) \/ (h <= g + 1 /\ d + a <= c + e) =>
             ak + (ah + d) <= a + ef1
        /\ h <= g /\ d + a <= c + e => ak1 + (ah + d) <= a + ef1
  OBVIOUS
<1> HIDE DEF ak, ah, ag, ef, ak1, ef1
<1>4. QED
  BY <1>2

(* The account after a step.                                               *)
LEMMA PaidStep ==
  ASSUME Sound, Sound', Paid,
         \/ /\ faults' = faults /\ hostKey' = hostKey
            /\ \/ Pieces' <= Pieces /\ Course' <= Course
               \/ Pieces' + 1 <= Pieces /\ Course' <= Course + MAX_STALE_FRAMES
         \/ /\ faults' = faults /\ hostKey' = hostKey + 1
            /\ Pieces' <= Pieces /\ Course' + MAX_STALE_FRAMES <= Course
         \/ /\ faults' = faults + 1 /\ hostKey' = hostKey
            /\ \/ Pieces' <= Pieces /\ Course' <= Course + PerFault
               \/ Pieces' <= Pieces + 1 /\ Course' + MAX_STALE_FRAMES <= Course + PerFault
         \/ /\ faults' = faults + 1 /\ hostKey' = hostKey + 1
            /\ Pieces' <= Pieces /\ Course' + MAX_STALE_FRAMES <= Course + PerFault
  PROVE  Paid'
<1> DEFINE a == MAX_STALE_FRAMES e == PerFault k == hostKey g == Pieces h == Pieces'
           c == Course d == Course' f == faults k2 == hostKey' f2 == faults'
<1>0. Counted /\ Counted' /\ Bounds /\ Bounds'
  BY CountsAreTyped, CountsStayTyped, CourseBounds, CourseStaysBound
<1>1. /\ a \in Nat /\ e \in Nat /\ k \in Nat /\ g \in Nat /\ h \in Nat /\ c \in Nat /\ d \in Nat
      /\ f \in Nat
  <2>1. a \in Nat /\ k \in Nat /\ f \in Nat /\ g \in Nat
    BY <1>0 DEF Counted
  <2>2. h \in Nat
    BY <1>0 DEF Counted
  <2>3. c \in Nat /\ d \in Nat
    BY <1>0 DEF Bounds
  <2>4. e \in Nat
    BY <1>0 DEF Counted, PerFault
  <2>5. QED
    BY <2>1, <2>2, <2>3, <2>4
<1>2. a * k + (a * g + c) <= a + e * f
  BY DEF Paid, Owed, Pieces
<1>3. \/ f2 = f /\ k2 = k /\ ((h <= g /\ d <= c) \/ (h + 1 <= g /\ d <= c + a))
      \/ f2 = f /\ k2 = k + 1 /\ h <= g /\ d + a <= c
      \/ f2 = f + 1 /\ k2 = k /\ ((h <= g /\ d <= c + e) \/ (h <= g + 1 /\ d + a <= c + e))
      \/ f2 = f + 1 /\ k2 = k + 1 /\ h <= g /\ d + a <= c + e
  BY Zenon
<1>4. a * k2 + (a * h + d) <= a + e * f2 => Paid'
  BY DEF Paid, Owed, Pieces, PerFault
<1> HIDE DEF a, e, k, g, h, c, d, f, k2, f2
<1>5. /\ (h <= g /\ d <= c) \/ (h + 1 <= g /\ d <= c + a) =>
           a * k + (a * h + d) <= a + e * f
      /\ h <= g /\ d + a <= c => a * (k + 1) + (a * h + d) <= a + e * f
      /\ (h <= g /\ d <= c + e) \/ (h <= g + 1 /\ d + a <= c + e) =>
           a * k + (a * h + d) <= a + e * (f + 1)
      /\ h <= g /\ d + a <= c + e => a * (k + 1) + (a * h + d) <= a + e * (f + 1)
  BY <1>1, <1>2, Account
<1>6. a * k2 + (a * h + d) <= a + e * f2
  <2>1. CASE f2 = f /\ k2 = k /\ ((h <= g /\ d <= c) \/ (h + 1 <= g /\ d <= c + a))
    BY <1>5, <2>1
  <2>2. CASE f2 = f /\ k2 = k + 1 /\ h <= g /\ d + a <= c
    BY <1>5, <2>2
  <2>3. CASE f2 = f + 1 /\ k2 = k /\ ((h <= g /\ d <= c + e) \/ (h <= g + 1 /\ d + a <= c + e))
    BY <1>5, <2>3
  <2>4. CASE f2 = f + 1 /\ k2 = k + 1 /\ h <= g /\ d + a <= c + e
    BY <1>5, <2>4
  <2>5. QED
    BY <1>3, <2>1, <2>2, <2>3, <2>4
<1>7. QED
  BY <1>4, <1>6

-----------------------------------------------------------------------------
(* The acks on their way.                                                  *)

LEMMA StateTypes ==
  ASSUME TypeOK
  PROVE  /\ h2a \in Seq(Token) /\ a2h \in Seq(Token)
         /\ DOMAIN h2a = 1 .. Len(h2a) /\ DOMAIN a2h = 1 .. Len(a2h)
         /\ Len(h2a) \in Nat /\ Len(a2h) \in Nat
         /\ hostKey \in Nat /\ arkKey \in Nat /\ arkHost \in Nat /\ stale \in Nat
         /\ hostSession \in Session /\ arkSession \in Session
         /\ hostPc \in {"idle", "hello", "ack"} /\ arkPc \in {"serve", "hello", "ack"}
<1>1. h2a \in Seq(Token) /\ a2h \in Seq(Token)
  BY DEF TypeOK
<1>2. DOMAIN h2a = 1 .. Len(h2a) /\ DOMAIN a2h = 1 .. Len(a2h) /\ Len(h2a) \in Nat /\ Len(a2h) \in Nat
  BY <1>1
<1>3. QED
  BY <1>1, <1>2, HostAssumption DEF TypeOK, HostTypeOK, ArkTypeOK

LEMMA PacketFields ==
  ASSUME NEW s \in Seq(Token), NEW k \in 1 .. Len(s)
  PROVE  s[k] \in Token /\ s[k].packet \in Packet /\ s[k].packet.host \in Nat /\ s[k].packet.ark \in Nat
<1>1. s[k] \in Token
  OBVIOUS
<1>2. QED
  BY <1>1 DEF Token, Packet

(* What the Ark reads leaves the rest of its stream as it was.             *)
ArkReads ==
  \/ ArkReset \/ ArkNextMessage \/ ArkStartOver \/ ArkEstablish \/ ArkHandshakeFails \/ ArkDiscards

LEMMA ArkFrameRead ==
  ASSUME TypeOK, ArkReads \/ \E ok \in BOOLEAN : ArkSendHello(ok)
  PROVE  /\ h2a' \in Seq(Token)
         /\ ArkReads => UNCHANGED <<a2h, arkKey, arkHost>>
         /\ \E d \in 1 .. Len(h2a) :
              /\ IsFirstDelim(h2a, d) /\ IsTail(h2a', h2a, d)
              /\ \A k \in 1 .. Len(h2a') : h2a'[k] = h2a[k + d]
<1>1. h2a \in Seq(Token)
  BY StateTypes
<1>2. h2a' = Rest(h2a) /\ \E p : p \in NextPackets(h2a)
  BY <1>1, GluedRead DEF ArkReads, ArkReset, ArkNextMessage, ArkStartOver, ArkEstablish,
     ArkHandshakeFails, ArkDiscards, ArkSendHello
<1>3. ArkReads => UNCHANGED <<a2h, arkKey, arkHost>>
  BY DEF ArkReads, ArkReset, ArkNextMessage, ArkStartOver, ArkEstablish, ArkHandshakeFails,
     ArkDiscards, arkVars
<1>4. QED
  BY <1>1, <1>2, <1>3, RestIsTail

LEMMA AcksPast ==
  ASSUME TypeOK, AcksKnown, h2a' \in Seq(Token), NEW n \in 0 .. Len(h2a),
         IsTail(h2a', h2a, n), SameDelims(h2a', h2a, n),
         arkKey' \in Nat, arkKey' >= arkKey, UNCHANGED hostVars,
         hostPc # "idle" /\ arkSession' # NoSession => arkSession'.host < hostKey
  PROVE  AcksKnown'
<1> USE StateTypes DEF hostVars
<1>1. /\ Len(h2a') = Len(h2a) - n /\ Len(h2a) \in Nat /\ n \in Nat /\ Len(h2a') \in Nat
      /\ DOMAIN h2a = 1 .. Len(h2a) /\ DOMAIN h2a' = 1 .. Len(h2a')
  BY DEF IsTail
<1>2. ASSUME NEW k \in DOMAIN h2a', h2a'[k].packet.type = "ack"
      PROVE  /\ k + n \in DOMAIN h2a /\ h2a'[k] = h2a[k + n]
             /\ h2a[k + n].packet.host \in Nat /\ h2a[k + n].packet.ark \in Nat
  <2>1. k + n \in 1 .. Len(h2a) /\ h2a'[k] = h2a[k + n]
    BY <1>1, <1>2, SpecialTypes DEF IsTail
  <2>2. QED
    BY <1>1, <2>1, PacketFields
<1>3. ASSUME NEW k \in DOMAIN h2a', h2a'[k].packet.type = "ack"
      PROVE  /\ h2a'[k].packet.host <= hostKey' /\ h2a'[k].packet.ark <= arkKey'
             /\ hostPc' # "idle" => h2a'[k].packet.host < hostKey'
  <2>1. /\ h2a[k + n].packet.host <= hostKey /\ h2a[k + n].packet.ark <= arkKey
        /\ hostPc # "idle" => h2a[k + n].packet.host < hostKey
    BY <1>2, <1>3 DEF AcksKnown
  <2>2. h2a[k + n].packet.ark <= arkKey'
    BY <1>2, <1>3, <2>1
  <2>3. QED
    BY <1>2, <1>3, <2>1, <2>2
<1>4. ASSUME hostSession # NoSession, NEW k \in DOMAIN h2a', h2a'[k].packet.type = "ack"
      PROVE  \E l \in k + 1 .. Len(h2a') : h2a'[l] = Delim
  <2>1. PICK l \in k + n + 1 .. Len(h2a) : h2a[l] = Delim
    BY <1>2, <1>4 DEF AcksKnown
  <2>2. l - n \in k + 1 .. Len(h2a') /\ (l - n) + n = l /\ l - n \in 1 .. Len(h2a')
    BY <1>1, <1>4, <2>1
  <2>3. h2a'[l - n] = Delim
    BY <2>1, <2>2 DEF SameDelims
  <2>4. QED
    BY <2>2, <2>3
<1>5. QED
  BY <1>3, <1>4 DEF AcksKnown

LEMMA AcksAppended ==
  ASSUME TypeOK, AcksKnown, NEW t \in Seq(Token), h2a' = h2a \o t,
         \A k \in 1 .. Len(t) : t[k].packet.type # "ack", UNCHANGED arkKey,
         \/ hostKey' = hostKey /\ (hostPc' # "idle" => hostPc # "idle")
         \/ hostKey' = hostKey + 1,
         hostSession' # NoSession => hostSession # NoSession,
         hostPc' # "idle" /\ arkSession' # NoSession => arkSession'.host < hostKey'
  PROVE  AcksKnown'
<1>1. /\ h2a \in Seq(Token) /\ h2a' \in Seq(Token) /\ Len(h2a') = Len(h2a) + Len(t) /\ Len(t) \in Nat
      /\ DOMAIN h2a = 1 .. Len(h2a) /\ DOMAIN h2a' = 1 .. Len(h2a') /\ hostKey \in Nat
      /\ Len(h2a) \in Nat
  BY StateTypes, Joined
<1>2. ASSUME NEW k \in DOMAIN h2a', h2a'[k].packet.type = "ack"
      PROVE  /\ k \in DOMAIN h2a /\ h2a'[k] = h2a[k] /\ h2a[k].packet.host \in Nat
  <2>1. k \in 1 .. Len(h2a) /\ h2a'[k] = h2a[k]
    BY <1>1, <1>2, Joined
  <2>2. QED
    BY <1>1, <2>1, PacketFields
<1>3. ASSUME NEW k \in DOMAIN h2a', h2a'[k].packet.type = "ack"
      PROVE  /\ h2a'[k].packet.host <= hostKey' /\ h2a'[k].packet.ark <= arkKey'
             /\ hostPc' # "idle" => h2a'[k].packet.host < hostKey'
  <2>1. /\ h2a[k].packet.host <= hostKey /\ h2a[k].packet.ark <= arkKey
        /\ hostPc # "idle" => h2a[k].packet.host < hostKey
    BY <1>2, <1>3 DEF AcksKnown
  <2>2. QED
    BY <1>1, <1>2, <1>3, <2>1
<1>4. ASSUME hostSession' # NoSession, NEW k \in DOMAIN h2a', h2a'[k].packet.type = "ack"
      PROVE  \E l \in k + 1 .. Len(h2a') : h2a'[l] = Delim
  <2>1. PICK l \in k + 1 .. Len(h2a) : h2a[l] = Delim
    BY <1>2, <1>4 DEF AcksKnown
  <2>2. l \in 1 .. Len(h2a) /\ l \in k + 1 .. Len(h2a')
    BY <1>1, <1>4, <2>1
  <2>3. h2a'[l] = Delim
    BY <1>1, <2>1, <2>2, Joined
  <2>4. QED
    BY <2>2, <2>3
<1>5. QED
  BY <1>3, <1>4 DEF AcksKnown

LEMMA AcksStay ==
  ASSUME TypeOK, AcksKnown, UNCHANGED <<h2a, arkKey, hostKey, arkSession>>,
         hostPc' # "idle" => hostPc # "idle", hostSession' # NoSession => hostSession # NoSession
  PROVE  AcksKnown'
BY DEF AcksKnown

LEMMA AcksKnownStep ==
  ASSUME WireInv, AcksKnown, WireInv', Next
  PROVE  AcksKnown'
<1>0. TypeOK /\ AnswersKnown /\ HellosInOrder
  BY DEF WireInv
<1> USE StateTypes
<1>1. arkPc # "serve" => arkSession = NoSession
  BY DEF AnswersKnown, WireInv
<1>2. hostSession # NoSession => hostPc = "idle"
  BY DEF AnswersKnown, WireInv
<1>3. arkSession # NoSession => arkSession.host <= hostKey
  BY DEF AnswersKnown, WireInv, HellosInOrder
<1>4. hostPc # "idle" /\ arkSession # NoSession => arkSession.host < hostKey
  BY DEF AcksKnown
<1>5. ASSUME NEW ok \in BOOLEAN, HostReset(ok), UNCHANGED arkVars PROVE AcksKnown'
  <2>1. PICK t \in SendReset(ok) : h2a' = h2a \o t
    BY <1>5 DEF HostReset, HostWrites
  <2>2. t \in Seq(Token) /\ \A k \in 1 .. Len(t) : t[k].packet.type # "ack"
    BY ResetWritten, SpecialTypes
  <2>3. hostKey' = hostKey + 1 /\ hostSession' = NoSession
    BY <1>5 DEF HostReset
  <2>4. arkSession' # NoSession => arkSession'.host < hostKey'
    <3>1. arkSession.host \in Nat
      BY <1>0, SessionTypes
    <3>2. QED
      BY <1>0, <1>3, <1>5, <2>3, <3>1 DEF arkVars
  <2>5. QED
    BY <1>0, <1>5, <2>1, <2>2, <2>3, <2>4, AcksAppended DEF arkVars
<1>6. ASSUME NEW ok \in BOOLEAN, HostSendHello(ok), UNCHANGED arkVars PROVE AcksKnown'
  <2>1. PICK t \in SendPacket(HostHello(hostKey), ok) : h2a' = h2a \o t
    BY <1>6 DEF HostSendHello, HostWrites
  <2>2. HostHello(hostKey) \in Packet /\ HostHello(hostKey).type = "hello"
    BY <1>0, PacketTypes, PacketTypesWritten
  <2>3. t \in Seq(Token) /\ \A k \in 1 .. Len(t) : t[k].packet.type # "ack"
    BY <2>2, PacketWritten, SpecialTypes
  <2>4. /\ hostKey' = hostKey /\ hostSession' = hostSession /\ hostPc # "idle"
        /\ UNCHANGED <<arkKey, arkSession>>
    BY <1>6 DEF HostSendHello, arkVars
  <2>5. QED
    BY <1>0, <1>4, <2>1, <2>3, <2>4, AcksAppended
<1>7. ASSUME NEW ok \in BOOLEAN, HostSendMessage(ok), UNCHANGED arkVars PROVE AcksKnown'
  <2> DEFINE p == Message(hostSession.host, hostSession.ark, hostSession.sent)
  <2>1. PICK t \in SendPacket(p, ok) : h2a' = h2a \o t
    BY <1>7 DEF HostSendMessage, HostWrites
  <2>2. p \in Packet /\ p.type = "message"
    <3>1. hostSession.host \in Nat /\ hostSession.ark \in Nat /\ hostSession.sent \in Nat
      BY <1>0, SessionTypes
    <3>2. p \in Packet
      BY <3>1, PacketTypes
    <3>3. QED
      BY <3>2, PacketTypesWritten
  <2> HIDE DEF p
  <2>3. t \in Seq(Token) /\ \A k \in 1 .. Len(t) : t[k].packet.type # "ack"
    BY <2>2, PacketWritten, SpecialTypes
  <2>4. /\ hostKey' = hostKey /\ hostPc' = hostPc /\ hostSession # NoSession
        /\ UNCHANGED <<arkKey, arkSession>>
    BY <1>7 DEF HostSendMessage, arkVars
  <2>5. QED
    BY <1>0, <1>4, <2>1, <2>3, <2>4, AcksAppended
<1>8. ASSUME NEW ok \in BOOLEAN, HostSendAck(ok), UNCHANGED arkVars PROVE AcksKnown'
  <2>1. PICK p \in NextPackets(a2h) :
          /\ IsAnswer(p) /\ HostWrites(SendPacket(HostAck(p.host, p.ark), ok))
          /\ hostSession' = IF ok THEN NewSession(p.host, p.ark) ELSE NoSession
    BY <1>8 DEF HostSendAck
  <2>2. p.host = hostKey /\ p.ark \in Nat /\ p.ark <= arkKey
    <3>1. p.type = "arkhello" /\ p.host = hostKey
      BY <2>1 DEF IsAnswer
    <3>2. Len(a2h) >= 2 /\ a2h[1].packet = p
      BY <1>0, <3>1, SentPacketRead
    <3>3. 1 \in DOMAIN a2h /\ 1 \in 1 .. Len(a2h)
      BY <1>0, <3>2
    <3>4. Answered(p.host, p.ark)
      BY <1>0, <3>1, <3>2, <3>3 DEF AnswersKnown
    <3>5. p.ark \in Nat
      BY <1>0, <3>2, <3>3, PacketFields
    <3>6. QED
      BY <3>1, <3>4, <3>5 DEF Answered
  <2> DEFINE a == HostAck(p.host, p.ark)
  <2>3. a \in Packet /\ a.host = hostKey /\ a.ark = p.ark
    BY <1>0, <2>2, PacketTypes DEF HostAck, Sealed
  <2>4. PICK t \in SendPacket(a, ok) : h2a' = h2a \o t
    BY <2>1 DEF HostWrites
  <2>5. hostPc' = "idle" /\ hostKey' = hostKey /\ UNCHANGED <<arkKey, arkSession>>
    BY <1>8 DEF HostSendAck, HandshakeReturns, arkVars
  <2>6. /\ t \in Seq(Token)
        /\ \A k \in 1 .. Len(t) : (k = 1 /\ t[k].packet \in {a, Junk}) \/ t[k] = Delim
    BY <2>3, PacketWritten
  <2>7. ok => t = <<Body(a), Delim>>
    BY DEF SendPacket, Frame
  <2> HIDE DEF a
  <2>8. /\ h2a \in Seq(Token) /\ h2a' \in Seq(Token) /\ Len(h2a') = Len(h2a) + Len(t)
        /\ DOMAIN h2a = 1 .. Len(h2a) /\ DOMAIN h2a' = 1 .. Len(h2a')
        /\ Len(h2a) \in Nat /\ Len(t) \in Nat
        /\ \A k \in 1 .. Len(h2a) : h2a'[k] = h2a[k]
        /\ \A k \in Len(h2a) + 1 .. Len(h2a) + Len(t) : h2a'[k] = t[k - Len(h2a)]
    BY <1>0, <2>4, <2>6, Joined
  <2>9. ASSUME NEW k \in DOMAIN h2a', h2a'[k].packet.type = "ack"
        PROVE  \/ k \in DOMAIN h2a /\ h2a'[k] = h2a[k]
               \/ k = Len(h2a) + 1 /\ h2a'[k].packet = a
    <3>1. CASE k \in 1 .. Len(h2a)
      BY <2>8, <3>1
    <3>2. CASE k \notin 1 .. Len(h2a)
      <4>1. k \in Len(h2a) + 1 .. Len(h2a) + Len(t) /\ k - Len(h2a) \in 1 .. Len(t)
        BY <2>8, <2>9, <3>2
      <4>2. h2a'[k] = t[k - Len(h2a)]
        BY <2>8, <4>1
      <4>3. k - Len(h2a) = 1 /\ h2a'[k].packet \in {a, Junk}
        BY <2>6, <2>9, <4>1, <4>2, SpecialTypes
      <4>4. QED
        BY <2>8, <2>9, <4>1, <4>3, SpecialTypes
    <3>3. QED
      BY <3>1, <3>2
  <2>10. ASSUME NEW k \in DOMAIN h2a', h2a'[k].packet.type = "ack"
         PROVE  h2a'[k].packet.host <= hostKey' /\ h2a'[k].packet.ark <= arkKey'
    <3>1. CASE k \in DOMAIN h2a /\ h2a'[k] = h2a[k]
      BY <2>5, <2>10, <3>1 DEF AcksKnown
    <3>2. CASE h2a'[k].packet = a
      BY <1>0, <2>2, <2>3, <2>5, <3>2
    <3>3. QED
      BY <2>9, <2>10, <3>1, <3>2
  <2>11. ASSUME hostSession' # NoSession, NEW k \in DOMAIN h2a', h2a'[k].packet.type = "ack"
         PROVE  \E l \in k + 1 .. Len(h2a') : h2a'[l] = Delim
    <3>1. ok /\ t = <<Body(a), Delim>>
      BY <2>1, <2>7, <2>11
    <3>2. Len(t) = 2 /\ t[2] = Delim
      BY <3>1
    <3>3. /\ Len(h2a') = Len(h2a) + 2
          /\ Len(h2a) + 2 \in Len(h2a) + 1 .. Len(h2a) + Len(t) /\ (Len(h2a) + 2) - Len(h2a) = 2
      BY <2>8, <3>2
    <3>4. h2a'[Len(h2a')] = Delim
      BY <2>8, <3>2, <3>3
    <3>5. Len(h2a') \in k + 1 .. Len(h2a')
      BY <2>8, <2>9, <2>11, <3>3
    <3>6. QED
      BY <3>4, <3>5
  <2>12. QED
    BY <2>5, <2>10, <2>11 DEF AcksKnown
<1>9. ASSUME \/ HostReject \/ HostSkipStale \/ HostAbort \/ HostReadFails \/ HostNextMessage
             \/ HostDiscards,
             UNCHANGED arkVars
      PROVE  AcksKnown'
  <2>1. UNCHANGED <<h2a, arkKey, hostKey, arkSession>>
    BY <1>9 DEF HostReject, HostSkipStale, HostAbort, HostReadFails, HostNextMessage, HostDiscards,
       hostVars, arkVars
  <2>2. /\ hostPc' # "idle" => hostPc # "idle"
        /\ hostSession' # NoSession => hostSession # NoSession
    BY <1>9 DEF HostReject, HostSkipStale, HostAbort, HostReadFails, HostNextMessage, HostDiscards,
       hostVars, HandshakeReturns
  <2>3. QED
    BY <1>0, <2>1, <2>2, AcksStay
<1>10. ASSUME ArkReads \/ \E ok \in BOOLEAN : ArkSendHello(ok), UNCHANGED hostVars PROVE AcksKnown'
  <2>1. /\ h2a' \in Seq(Token)
        /\ \E d \in 1 .. Len(h2a) :
             /\ IsFirstDelim(h2a, d) /\ IsTail(h2a', h2a, d)
             /\ \A k \in 1 .. Len(h2a') : h2a'[k] = h2a[k + d]
    BY <1>0, <1>10, ArkFrameRead
  <2>2. PICK d \in 1 .. Len(h2a) :
          /\ IsFirstDelim(h2a, d) /\ IsTail(h2a', h2a, d)
          /\ \A k \in 1 .. Len(h2a') : h2a'[k] = h2a[k + d]
    BY <2>1
  <2>3. SameDelims(h2a', h2a, d) /\ d \in 0 .. Len(h2a)
    BY <2>2 DEF SameDelims
  <2>4. arkKey' \in Nat /\ arkKey' >= arkKey
    <3>1. arkKey' = arkKey \/ arkKey' = arkKey + 1
      BY <1>0, <1>10, ArkFrameRead DEF ArkSendHello
    <3>2. arkKey \in Nat
      BY <1>0
    <3>3. QED
      BY <3>1, <3>2
  <2>5. hostPc # "idle" /\ arkSession' # NoSession => arkSession'.host < hostKey
    <3> SUFFICES ASSUME hostPc # "idle", arkSession' # NoSession PROVE arkSession'.host < hostKey
      OBVIOUS
    <3>1. CASE ArkEstablish
      <4> DEFINE a == HostAck(arkHost, arkKey)
      <4>1. a \in NextPackets(h2a) /\ a.type = "ack" /\ a.host = arkHost
        BY <3>1 DEF ArkEstablish, HostAck, Sealed
      <4> HIDE DEF a
      <4>2. Len(h2a) >= 2 /\ h2a[1].packet = a
        BY <1>0, <4>1, SentPacketRead
      <4>3. 1 \in DOMAIN h2a
        BY <1>0, <4>2
      <4>4. arkHost < hostKey
        BY <4>1, <4>2, <4>3 DEF AcksKnown
      <4>5. arkSession'.host = arkHost
        BY <1>0, <3>1, SessionFields DEF ArkEstablish
      <4>6. QED
        BY <4>4, <4>5
    <3>2. CASE ArkNextMessage
      <4>1. arkSession # NoSession /\ arkSession' = [arkSession EXCEPT !.got = @ + 1]
        BY <3>2 DEF ArkNextMessage
      <4>2. arkSession'.host = arkSession.host
        BY <1>0, <4>1, SessionFields
      <4>3. QED
        BY <1>4, <4>1, <4>2
    <3>3. CASE ArkReset
      BY <3>3 DEF ArkReset
    <3>4. CASE ArkStartOver \/ ArkHandshakeFails \/ ArkDiscards \/ \E ok \in BOOLEAN : ArkSendHello(ok)
      <4>1. arkSession' = arkSession
        BY <3>4 DEF ArkStartOver, ArkHandshakeFails, ArkDiscards, ArkSendHello, arkVars
      <4>2. QED
        BY <1>4, <4>1
    <3>5. QED
      BY <1>10, <3>1, <3>2, <3>3, <3>4 DEF ArkReads
  <2>6. QED
    BY <1>0, <1>10, <2>1, <2>2, <2>3, <2>4, <2>5, AcksPast
<1>11. ASSUME (\E ok \in BOOLEAN : ArkSendMessage(ok)) \/ ArkReadFails, UNCHANGED hostVars PROVE AcksKnown'
  <2>1. UNCHANGED <<h2a, arkKey, hostKey, hostPc, hostSession>>
    BY <1>11 DEF ArkSendMessage, ArkReadFails, hostVars
  <2>2. arkSession' # NoSession => arkSession # NoSession /\ arkSession'.host = arkSession.host
    BY <1>0, <1>11, SessionFields DEF ArkSendMessage, ArkReadFails, AfterSend
  <2>3. QED
    BY <2>1, <2>2 DEF AcksKnown
<1>12. ASSUME HostRestart PROVE AcksKnown'
  BY <1>0, <1>12, AcksStay DEF HostRestart, arkVars
<1>13. ASSUME ArkRestart PROVE AcksKnown'
  <2>1. /\ h2a' \in Remains(h2a) /\ arkKey' = arkKey /\ UNCHANGED hostVars
        /\ arkSession' = NoSession
    BY <1>13 DEF ArkRestart
  <2>2. /\ h2a' \in Seq(Token)
        /\ \E n \in 0 .. Len(h2a) : IsTail(h2a', h2a, n) /\ SameDelims(h2a', h2a, n)
    BY <1>0, <2>1, RemainsIsTail
  <2>3. arkKey' \in Nat /\ arkKey' >= arkKey
    BY <1>0, <2>1
  <2>4. QED
    BY <1>0, <2>1, <2>2, <2>3, AcksPast
<1>14. ASSUME Noise PROVE AcksKnown'
  <2>1. PICK token \in {Cut, Delim} : h2a' = Append(h2a, token)
    BY <1>14 DEF Noise
  <2> DEFINE t == <<token>>
  <2>2. t \in Seq(Token) /\ h2a' = h2a \o t /\ Len(t) = 1 /\ t[1] = token
    BY <1>0, <2>1, TokenTypes
  <2> HIDE DEF t
  <2>3. \A k \in 1 .. Len(t) : t[k].packet.type # "ack"
    BY <2>2, SpecialTypes
  <2>4. UNCHANGED <<arkKey, arkSession, hostKey, hostPc, hostSession>>
    BY <1>14 DEF Noise, hostVars, arkVars
  <2>5. QED
    BY <1>0, <1>4, <2>2, <2>3, <2>4, AcksAppended
<1>15. QED
  <2>1. CASE HostOp /\ UNCHANGED arkVars
    BY <2>1, <1>5, <1>6, <1>7, <1>8, <1>9, Zenon DEF HostOp
  <2>2. CASE ArkOp /\ UNCHANGED hostVars
    BY <2>2, <1>10, <1>11, Zenon DEF ArkOp, ArkReads
  <2>3. faults \in 0 .. MaxFaults
    BY <1>0 DEF TypeOK
  <2>4. QED
    BY <2>1, <2>2, <2>3, <1>12, <1>13, <1>14, StepCases

-----------------------------------------------------------------------------
(* The answer to the attempt under way.                                    *)

AnswerKinds ==
  \A k \in DOMAIN a2h : a2h[k].kind = "body" => a2h[k].packet.type \in {"arkhello", "message"}

AnswerEnds ==
  hostPc = "ack" =>
    \A k \in DOMAIN a2h :
      a2h[k].packet.type = "arkhello" /\ a2h[k].packet.host = hostKey =>
        k >= Len(a2h) - 1 /\ (k = Len(a2h) - 1 => a2h[k + 1] = Delim)

LEMMA AnswersPast ==
  ASSUME TypeOK, AnswerLast, a2h' \in Seq(Token), NEW n \in 0 .. Len(a2h),
         IsTail(a2h', a2h, n), UNCHANGED hostKey, hostPc' = "ack" => hostPc = "ack"
  PROVE  AnswerKinds' /\ AnswerEnds'
<1>1. /\ Len(a2h') = Len(a2h) - n /\ Len(a2h) \in Nat /\ n \in Nat /\ Len(a2h') \in Nat
      /\ DOMAIN a2h = 1 .. Len(a2h) /\ DOMAIN a2h' = 1 .. Len(a2h')
  BY StateTypes DEF IsTail
<1>2. Cut.kind = "cut" /\ Cut.packet.type = "junk"
  BY SpecialTypes DEF Cut
<1>3. ASSUME NEW k \in DOMAIN a2h', a2h'[k].kind = "body" \/ a2h'[k].packet.type = "arkhello"
      PROVE  k + n \in DOMAIN a2h /\ a2h'[k] = a2h[k + n]
  BY <1>1, <1>2, <1>3 DEF IsTail
<1>4. AnswerKinds'
  BY <1>3 DEF AnswerKinds, AnswerLast
<1>5. ASSUME hostPc' = "ack", NEW k \in DOMAIN a2h', a2h'[k].packet.type = "arkhello",
             a2h'[k].packet.host = hostKey
      PROVE  k >= Len(a2h') - 1 /\ (k = Len(a2h') - 1 => a2h'[k + 1] = Delim)
  <2>1. k + n \in DOMAIN a2h /\ a2h'[k] = a2h[k + n]
    BY <1>3, <1>5
  <2>2. k + n >= Len(a2h) - 1 /\ (k + n = Len(a2h) - 1 => a2h[k + n + 1] = Delim)
    BY <1>5, <2>1 DEF AnswerLast
  <2>3. k >= Len(a2h') - 1
    BY <1>1, <1>5, <2>2
  <2>4. ASSUME k = Len(a2h') - 1 PROVE a2h'[k + 1] = Delim
    <3>1. k + n = Len(a2h) - 1 /\ k + 1 \in 1 .. Len(a2h') /\ k + 1 # 1 /\ (k + 1) + n = k + n + 1
      BY <1>1, <1>5, <2>4
    <3>2. a2h'[k + 1] = a2h[(k + 1) + n]
      BY <3>1 DEF IsTail
    <3>3. QED
      BY <2>2, <3>1, <3>2
  <2>5. QED
    BY <2>3, <2>4
<1>6. QED
  BY <1>4, <1>5 DEF AnswerEnds

LEMMA AnswerAppended ==
  ASSUME TypeOK, AnswerLast, NEW p \in Packet, NEW ok \in BOOLEAN, NEW t \in SendPacket(p, ok),
         a2h' = a2h \o t, UNCHANGED <<hostPc, hostKey>>, p.type \in {"arkhello", "message"},
         hostPc = "ack" =>
           \A k \in DOMAIN a2h : ~(a2h[k].packet.type = "arkhello" /\ a2h[k].packet.host = hostKey)
  PROVE  AnswerKinds' /\ AnswerEnds'
<1>1. /\ t \in Seq(Token)
      /\ \A k \in 1 .. Len(t) : (k = 1 /\ t[k].packet \in {p, Junk}) \/ t[k] = Delim
  BY PacketWritten
<1>2. /\ a2h' \in Seq(Token) /\ Len(a2h') = Len(a2h) + Len(t)
      /\ DOMAIN a2h = 1 .. Len(a2h) /\ DOMAIN a2h' = 1 .. Len(a2h')
      /\ Len(a2h) \in Nat /\ Len(t) \in Nat
      /\ \A k \in 1 .. Len(a2h) : a2h'[k] = a2h[k]
      /\ \A k \in Len(a2h) + 1 .. Len(a2h) + Len(t) : a2h'[k] = t[k - Len(a2h)]
  BY <1>1, StateTypes, Joined
<1>3. t = <<>> \/ t = <<Cut>> \/ t = <<Body(p)>> \/ t = <<Body(p), Delim>>
  BY DEF SendPacket, Frame
<1>4. /\ Cut.kind = "cut" /\ Delim.kind = "delim" /\ Body(p).packet = p
      /\ Cut.packet.type = "junk" /\ Delim.packet.type = "empty"
  BY SpecialTypes DEF Cut, Delim, Body
<1>5. \A k \in 1 .. Len(t) : t[k].kind = "body" => t[k].packet = p
  BY <1>3, <1>4
<1>6. ASSUME NEW k \in DOMAIN a2h', k \notin DOMAIN a2h
      PROVE  k - Len(a2h) \in 1 .. Len(t) /\ a2h'[k] = t[k - Len(a2h)] /\ k > Len(a2h)
  <2>1. k \in Len(a2h) + 1 .. Len(a2h) + Len(t) /\ k - Len(a2h) \in 1 .. Len(t)
    BY <1>2, <1>6
  <2>2. QED
    BY <1>2, <2>1
<1>7. AnswerKinds'
  <2>1. ASSUME NEW k \in DOMAIN a2h', a2h'[k].kind = "body"
        PROVE  a2h'[k].packet.type \in {"arkhello", "message"}
    <3>1. CASE k \in DOMAIN a2h
      BY <1>2, <2>1, <3>1 DEF AnswerLast
    <3>2. CASE k \notin DOMAIN a2h
      BY <1>5, <1>6, <2>1, <3>2
    <3>3. QED
      BY <3>1, <3>2
  <2>2. QED
    BY <2>1 DEF AnswerKinds
<1>8. ASSUME hostPc' = "ack", NEW k \in DOMAIN a2h', a2h'[k].packet.type = "arkhello",
             a2h'[k].packet.host = hostKey
      PROVE  k >= Len(a2h') - 1 /\ (k = Len(a2h') - 1 => a2h'[k + 1] = Delim)
  <2>1. k \notin DOMAIN a2h
    BY <1>2, <1>8
  <2>2. k - Len(a2h) \in 1 .. Len(t) /\ a2h'[k] = t[k - Len(a2h)] /\ k > Len(a2h)
    BY <1>6, <2>1
  <2>3. Len(t) <= 2 /\ (Len(t) = 2 => t[2] = Delim)
    BY <1>3
  <2>4. k >= Len(a2h') - 1
    BY <1>2, <2>2, <2>3
  <2>5. ASSUME k = Len(a2h') - 1 PROVE a2h'[k + 1] = Delim
    <3>1. /\ Len(a2h') = Len(a2h) + Len(t) /\ Len(a2h) \in Nat /\ Len(t) \in Nat
          /\ k \in 1 .. Len(a2h')
      BY <1>2, <1>8
    <3> DEFINE m == Len(a2h') l == Len(a2h) e == Len(t)
    <3>2. /\ m = l + e /\ l \in Nat /\ e \in Nat /\ k \in 1 .. m /\ e <= 2 /\ k > l /\ k = m - 1
      BY <2>2, <2>3, <2>5, <3>1
    <3>2a. Len(t) = 2 /\ k = Len(a2h) + 1
      <4>1. e = 2 /\ k = l + 1 => Len(t) = 2 /\ k = Len(a2h) + 1
        OBVIOUS
      <4> HIDE DEF m, l, e
      <4>2. e = 2 /\ k = l + 1
        BY <3>2
      <4>3. QED
        BY <4>1, <4>2
    <3>3. /\ k + 1 \in Len(a2h) + 1 .. Len(a2h) + Len(t) /\ (k + 1) - Len(a2h) = 2
      BY <3>1, <3>2a
    <3>4. QED
      BY <1>2, <2>3, <3>2a, <3>3
  <2>6. QED
    BY <2>4, <2>5
<1>9. QED
  BY <1>7, <1>8 DEF AnswerEnds

(* No answer was given to an attempt the Ark has not come to.              *)
LEMMA NotAnswered ==
  ASSUME TypeOK, AnswersKnown, arkHost < hostKey
  PROVE  \A k \in DOMAIN a2h : ~(a2h[k].packet.type = "arkhello" /\ a2h[k].packet.host = hostKey)
<1>1. arkHost \in Nat /\ hostKey \in Nat
  BY StateTypes
<1>2. QED
  BY <1>1 DEF AnswersKnown, Answered

LEMMA AnswerLastStep ==
  ASSUME WireInv, AcksKnown, AnswerLast, Next
  PROVE  AnswerLast'
<1>0. TypeOK /\ AnswersKnown /\ HellosInOrder
  BY DEF WireInv
<1> USE StateTypes
<1>1. /\ hostPc # "ack" => stale = 0
      /\ hostPc # "idle" \/ hostSession # NoSession => hostKey > 0
  BY DEF AnswerLast
<1> DEFINE G == /\ hostPc' # "ack" => stale' = 0
                /\ hostPc' # "idle" \/ hostSession' # NoSession => hostKey' > 0
                /\ AnswerKinds' /\ AnswerEnds'
<1>2. SUFFICES G
  BY DEF AnswerLast, AnswerKinds, AnswerEnds
<1>3. ASSUME UNCHANGED a2h, hostPc' # "ack" \/ (hostPc = "ack" /\ hostKey' = hostKey)
      PROVE  AnswerKinds' /\ AnswerEnds'
  <2>1. AnswerKinds'
    BY <1>3 DEF AnswerLast, AnswerKinds
  <2>2. AnswerEnds'
    BY <1>3 DEF AnswerLast, AnswerEnds
  <2>3. QED
    BY <2>1, <2>2
<1>4. ASSUME NEW ok \in BOOLEAN, HostReset(ok) PROVE G
  <2>1. hostPc' # "ack" /\ stale' = 0 /\ UNCHANGED a2h
    BY <1>4 DEF HostReset, HandshakeReturns
  <2>2. hostKey' > 0
    BY <1>0, <1>4 DEF HostReset
  <2>3. QED
    BY <1>3, <2>1, <2>2
<1>5. ASSUME NEW ok \in BOOLEAN, HostSendHello(ok) PROVE G
  <2>1. hostPc = "hello" /\ UNCHANGED <<a2h, hostKey, hostSession>>
    BY <1>5 DEF HostSendHello
  <2>2. hostKey' > 0 /\ stale' = 0
    BY <1>1, <1>5, <2>1 DEF HostSendHello, HandshakeReturns
  <2>3. \A k \in DOMAIN a2h : ~(a2h[k].packet.type = "arkhello" /\ a2h[k].packet.host = hostKey)
    <3>1. arkHost < hostKey
      BY <1>0, <2>1 DEF HellosInOrder
    <3>2. QED
      BY <1>0, <3>1, NotAnswered
  <2>4. AnswerKinds' /\ AnswerEnds'
    BY <2>1, <2>3 DEF AnswerLast, AnswerKinds, AnswerEnds
  <2>5. QED
    BY <2>2, <2>4
<1>6. ASSUME NEW ok \in BOOLEAN, HostSendMessage(ok) PROVE G
  <2>1. UNCHANGED <<a2h, hostPc, stale, hostKey>> /\ hostSession # NoSession
    BY <1>6 DEF HostSendMessage
  <2>2. QED
    BY <1>1, <1>3, <2>1
<1>7. ASSUME (\E ok \in BOOLEAN : HostSendAck(ok)) \/ HostReject \/ HostSkipStale \/ HostAbort
               \/ HostNextMessage \/ HostDiscards
      PROVE  G
  <2>1. a2h' = Rest(a2h) /\ hostKey' = hostKey /\ \E p : p \in NextPackets(a2h)
    BY <1>0, <1>7, GluedRead DEF HostSendAck, HostReject, HostSkipStale, HostAbort, HostNextMessage,
       HostDiscards, hostVars
  <2>2. hostPc' = "ack" => hostPc = "ack"
    BY <1>7 DEF HostSendAck, HostReject, HostSkipStale, HostAbort, HostNextMessage, HostDiscards,
       hostVars, HandshakeReturns
  <2>3. a2h' \in Seq(Token) /\ \E d \in 1 .. Len(a2h) : IsTail(a2h', a2h, d)
    BY <1>0, <2>1, RestIsTail
  <2>4. AnswerKinds' /\ AnswerEnds'
    <3>1. PICK d \in 1 .. Len(a2h) : IsTail(a2h', a2h, d)
      BY <2>3
    <3>2. d \in 0 .. Len(a2h)
      OBVIOUS
    <3>3. QED
      BY <1>0, <2>1, <2>2, <2>3, <3>1, <3>2, AnswersPast
  <2>5. hostPc' # "ack" => stale' = 0
    BY <1>1, <1>7 DEF HostSendAck, HostReject, HostSkipStale, HostAbort, HostNextMessage,
       HostDiscards, hostVars, HandshakeReturns
  <2>6. hostPc' # "idle" \/ hostSession' # NoSession => hostPc # "idle" \/ hostSession # NoSession
    BY <1>7 DEF HostSendAck, HostReject, HostSkipStale, HostAbort, HostNextMessage,
       HostDiscards, hostVars, HandshakeReturns
  <2>7. QED
    BY <1>1, <2>1, <2>4, <2>5, <2>6
<1>8. ASSUME HostReadFails PROVE G
  BY <1>1, <1>3, <1>8 DEF HostReadFails, HandshakeReturns
<1>9. ASSUME UNCHANGED hostVars, ArkReads \/ ArkReadFails \/ ArkRestart \/ Noise PROVE G
  <2>1. UNCHANGED <<a2h, hostPc, hostKey, stale, hostSession>>
    BY <1>0, <1>9, ArkFrameRead DEF ArkReadFails, ArkRestart, Noise, hostVars
  <2>2. QED
    BY <1>1, <1>3, <2>1
<1>10. ASSUME UNCHANGED hostVars, NEW ok \in BOOLEAN, ArkSendHello(ok) PROVE G
  <2>1. UNCHANGED <<hostPc, hostKey, stale, hostSession>>
    BY <1>10 DEF hostVars
  <2>2. PICK q \in NextPackets(h2a) :
          q.type = "hello" /\ ArkWrites(SendPacket(ArkHello(q.host, arkKey'), ok))
    BY <1>10 DEF ArkSendHello
  <2>3. Len(h2a) >= 2 /\ h2a[1].packet = q /\ 1 \in 1 .. Len(h2a)
    BY <1>0, <2>2, SentPacketRead
  <2>4. arkHost < hostKey /\ q.host \in Nat
    <3>1. q.host \in Nat
      BY <1>0, <2>3, PacketFields
    <3>2. arkHost < q.host /\ q.host <= hostKey
      BY <1>0, <2>2, <2>3 DEF HellosInOrder
    <3>3. QED
      BY <1>0, <3>1, <3>2
  <2>5. arkKey' \in Nat
    BY <1>0, <1>10 DEF ArkSendHello
  <2> DEFINE p == ArkHello(q.host, arkKey')
  <2>6. p \in Packet /\ p.type = "arkhello"
    BY <2>4, <2>5, PacketTypes, PacketTypesWritten
  <2>7. PICK t \in SendPacket(p, ok) : a2h' = a2h \o t
    BY <2>2 DEF ArkWrites
  <2> HIDE DEF p
  <2>8. AnswerKinds' /\ AnswerEnds'
    BY <1>0, <2>1, <2>4, <2>6, <2>7, NotAnswered, AnswerAppended
  <2>9. QED
    BY <1>1, <2>1, <2>8
<1>11. ASSUME UNCHANGED hostVars, NEW ok \in BOOLEAN, ArkSendMessage(ok) PROVE G
  <2>1. UNCHANGED <<hostPc, hostKey, stale, hostSession>>
    BY <1>11 DEF hostVars
  <2> DEFINE p == Message(arkSession.host, arkSession.ark, arkSession.sent)
  <2>2. p \in Packet /\ p.type = "message"
    <3>1. arkSession.host \in Nat /\ arkSession.ark \in Nat /\ arkSession.sent \in Nat
      BY <1>0, SessionTypes
    <3>2. p \in Packet
      BY <3>1, PacketTypes
    <3>3. QED
      BY <3>2, PacketTypesWritten
  <2>3. PICK t \in SendPacket(p, ok) : a2h' = a2h \o t
    BY <1>11 DEF ArkSendMessage, ArkWrites
  <2> HIDE DEF p
  <2>4. hostPc = "ack" => arkHost < hostKey
    BY <1>11 DEF ArkSendMessage, AcksKnown, WireInv, AnswersKnown
  <2>5. AnswerKinds' /\ AnswerEnds'
    BY <1>0, <2>1, <2>2, <2>3, <2>4, NotAnswered, AnswerAppended
  <2>6. QED
    BY <1>1, <2>1, <2>5
<1>12. ASSUME HostRestart PROVE G
  <2>1. /\ a2h' \in Remains(a2h) /\ hostKey' = hostKey /\ hostPc' = "idle" /\ stale' = 0
        /\ hostSession' = NoSession
    BY <1>12 DEF HostRestart
  <2>2. a2h' \in Seq(Token) /\ \E n \in 0 .. Len(a2h) : IsTail(a2h', a2h, n)
    BY <1>0, <2>1, RemainsIsTail
  <2>3. AnswerKinds' /\ AnswerEnds'
    BY <1>0, <2>1, <2>2, AnswersPast
  <2>4. QED
    BY <2>1, <2>3
<1> HIDE DEF G
<1>13. QED
  <2>1. CASE HostOp /\ UNCHANGED arkVars
    BY <2>1, <1>4, <1>5, <1>6, <1>7, <1>8, Zenon DEF HostOp
  <2>2. CASE ArkOp /\ UNCHANGED hostVars
    BY <2>2, <1>9, <1>10, <1>11, Zenon DEF ArkOp, ArkReads
  <2>3. faults \in 0 .. MaxFaults
    BY <1>0 DEF TypeOK
  <2>4. UNCHANGED hostVars \/ ~(ArkRestart \/ Noise)
    BY DEF ArkRestart, Noise
  <2>5. QED
    BY <2>1, <2>2, <2>3, <2>4, <1>9, <1>12, <1>2, StepCases

-----------------------------------------------------------------------------
(* What the steps do to the counts.                                        *)

Frames == Cardinality(FramesIn(a2h))
Hellos == Cardinality(HellosIn(h2a))

LEMMA LeftoverMoves ==
  ASSUME Sound, Sound'
  PROVE  /\ Frames' <= Frames /\ Hellos' <= Hellos /\ RepliesLeft' <= RepliesLeft => Leftover' <= Leftover
         /\ Frames' + 1 <= Frames /\ Hellos' <= Hellos /\ RepliesLeft' <= RepliesLeft =>
              Leftover' + 1 <= Leftover
         /\ Frames' <= Frames + 1 /\ Hellos' + 1 <= Hellos /\ RepliesLeft' <= RepliesLeft =>
              Leftover' <= Leftover
         /\ Frames' <= Frames + 1 /\ Hellos' <= Hellos /\ RepliesLeft' + 1 <= RepliesLeft =>
              Leftover' <= Leftover
         /\ Frames' <= Frames /\ Hellos' + 1 <= Hellos /\ RepliesLeft' <= RepliesLeft =>
              Leftover' + 1 <= Leftover
         /\ Frames' <= Frames /\ Hellos' <= Hellos /\ RepliesLeft' + 1 <= RepliesLeft =>
              Leftover' + 1 <= Leftover
         /\ Frames' <= Frames /\ Hellos' <= Hellos + 1 /\ RepliesLeft' <= RepliesLeft =>
              Leftover' <= Leftover + 1
         /\ Frames' + 1 <= Frames /\ Hellos' <= Hellos => Leftover' + 1 <= Leftover + MaxReplies
<1> DEFINE f == Frames g == Frames' h == Hellos i == Hellos' r == RepliesLeft s == RepliesLeft'
           l == Leftover m == Leftover' a == MaxReplies
<1>1. Counted /\ Counted'
  BY CountsAreTyped, CountsStayTyped
<1>2. f \in Nat /\ h \in Nat /\ r \in Nat /\ l = f + h + r /\ a \in Nat
  BY <1>1 DEF Counted, Frames, Hellos
<1>3. g \in Nat /\ i \in Nat /\ s \in Nat /\ m = g + i + s /\ s <= a
  BY <1>1 DEF Counted, Frames, Hellos
<1>4. SUFFICES
        /\ g <= f /\ i <= h /\ s <= r => m <= l
        /\ g + 1 <= f /\ i <= h /\ s <= r => m + 1 <= l
        /\ g <= f + 1 /\ i + 1 <= h /\ s <= r => m <= l
        /\ g <= f + 1 /\ i <= h /\ s + 1 <= r => m <= l
        /\ g <= f /\ i + 1 <= h /\ s <= r => m + 1 <= l
        /\ g <= f /\ i <= h /\ s + 1 <= r => m + 1 <= l
        /\ g <= f /\ i <= h + 1 /\ s <= r => m <= l + 1
        /\ g + 1 <= f /\ i <= h => m + 1 <= l + a
  OBVIOUS
<1> HIDE DEF f, g, h, i, r, s, l, m, a
<1>5. QED
  BY <1>2, <1>3

LEMMA AckInPast ==
  ASSUME NEW s \in Seq(Token), NEW r \in Seq(Token), NEW n \in 0 .. Len(s), IsTail(r, s, n),
         NEW h, NEW a, AckIn(r, h, a)
  PROVE  AckIn(s, h, a)
<1>1. /\ DOMAIN s = 1 .. Len(s) /\ DOMAIN r = 1 .. Len(r) /\ Len(r) = Len(s) - n /\ Len(s) \in Nat
      /\ Len(r) \in Nat
  BY DEF IsTail
<1>2. PICK k \in DOMAIN r : r[k].packet = HostAck(h, a)
  BY DEF AckIn
<1>3. Cut.packet.type # HostAck(h, a).type
  BY SpecialTypes, PacketTypesWritten
<1>4. k + n \in DOMAIN s /\ s[k + n] = r[k]
  BY <1>1, <1>2, <1>3 DEF IsTail
<1>5. QED
  BY <1>2, <1>4 DEF AckIn

LEMMA AckInAppended ==
  ASSUME NEW s \in Seq(Token), NEW t \in Seq(Token), \A k \in 1 .. Len(t) : t[k].packet.type # "ack",
         NEW h, NEW a, AckIn(s \o t, h, a)
  PROVE  AckIn(s, h, a)
<1>1. /\ s \o t \in Seq(Token) /\ Len(s \o t) = Len(s) + Len(t)
      /\ DOMAIN s = 1 .. Len(s) /\ DOMAIN (s \o t) = 1 .. Len(s \o t)
      /\ Len(s) \in Nat /\ Len(t) \in Nat
      /\ \A k \in 1 .. Len(s) : (s \o t)[k] = s[k]
      /\ \A k \in Len(s) + 1 .. Len(s) + Len(t) : (s \o t)[k] = t[k - Len(s)]
  BY Joined
<1>2. PICK k \in DOMAIN (s \o t) : (s \o t)[k].packet = HostAck(h, a)
  BY DEF AckIn
<1>3. (s \o t)[k].packet.type = "ack"
  BY <1>2, PacketTypesWritten
<1>4. k \in 1 .. Len(s)
  <2>1. SUFFICES ASSUME k \notin 1 .. Len(s) PROVE FALSE
    OBVIOUS
  <2>2. k \in Len(s) + 1 .. Len(s) + Len(t) /\ k - Len(s) \in 1 .. Len(t)
    BY <1>1, <1>2, <2>1
  <2>3. QED
    BY <1>1, <1>3, <2>2
<1>5. QED
  BY <1>1, <1>2, <1>4 DEF AckIn

(* The steps of the Ark.                                                   *)
LEMMA ArkReadCounts ==
  ASSUME Sound, Sound', AnswersKnown, ArkReads
  PROVE  /\ Frames' <= Frames /\ Hellos' <= Hellos /\ RepliesLeft' <= RepliesLeft
         /\ HellosIn(h2a) = {} => HellosIn(h2a') = {}
         /\ Pieces' <= Pieces
<1>0. TypeOK /\ Counted /\ Counted'
  BY CountsAreTyped, CountsStayTyped DEF Sound
<1> USE StateTypes
<1>1. h2a' \in Seq(Token) /\ UNCHANGED <<a2h, arkKey, arkHost>>
  BY <1>0, ArkFrameRead
<1>2. PICK d \in 1 .. Len(h2a) :
        /\ IsFirstDelim(h2a, d) /\ IsTail(h2a', h2a, d)
        /\ \A k \in 1 .. Len(h2a') : h2a'[k] = h2a[k + d]
  BY <1>0, ArkFrameRead
<1>3. Cardinality(HellosIn(h2a')) <= Cardinality(HellosIn(h2a)) /\ (HellosIn(h2a) = {} => HellosIn(h2a') = {})
  BY <1>0, <1>1, <1>2, FrameRead
<1>4. Frames' <= Frames /\ Pieces' <= Pieces
  <2>1. Frames' = Frames /\ Pieces' = Pieces
    BY <1>1 DEF Frames, Pieces
  <2>2. Frames \in Nat /\ Pieces \in Nat
    BY <1>0 DEF Counted, Frames
  <2>3. QED
    BY <2>1, <2>2
<1>5. RepliesLeft \in Nat /\ MaxReplies \in Nat
  BY <1>0 DEF Counted
<1>6. d \in 0 .. Len(h2a)
  OBVIOUS
<1>7. arkPc # "serve" => arkSession = NoSession
  BY DEF AnswersKnown
<1>8. RepliesLeft' <= RepliesLeft
  <2>1. CASE ArkReset
    <3>1. RepliesLeft' = 0
      BY <2>1 DEF ArkReset, RepliesLeft
    <3>2. QED
      BY <1>5, <3>1
  <2>2. CASE ArkStartOver \/ ArkHandshakeFails
    <3>1. arkPc' # "ack" /\ arkSession' = NoSession
      BY <1>7, <2>2 DEF ArkStartOver, ArkHandshakeFails
    <3>2. RepliesLeft' = 0
      BY <3>1 DEF RepliesLeft
    <3>3. QED
      BY <1>5, <3>2
  <2>3. CASE ArkNextMessage
    <3>1. arkPc' # "ack"
      BY <2>3 DEF ArkNextMessage
    <3>2. CASE arkSession' = NoSession
      <4>1. RepliesLeft' = 0
        BY <3>1, <3>2 DEF RepliesLeft
      <4>2. QED
        BY <1>5, <4>1
    <3>3. CASE arkSession' # NoSession
      <4>1. arkSession # NoSession /\ arkSession' = [arkSession EXCEPT !.got = @ + 1]
        BY <2>3, <3>3 DEF ArkNextMessage
      <4>2. arkSession'.sent = arkSession.sent
        BY <1>0, <4>1 DEF Session
      <4>3. RepliesLeft' = RepliesLeft
        BY <3>3, <4>1, <4>2 DEF RepliesLeft
      <4>4. QED
        BY <1>5, <4>3
    <3>4. QED
      BY <3>2, <3>3
  <2>4. CASE ArkEstablish
    <3>1. arkPc = "ack" /\ HostAck(arkHost, arkKey) \in NextPackets(h2a)
      BY <2>4 DEF ArkEstablish
    <3>2. h2a[1].packet = HostAck(arkHost, arkKey) /\ 1 \in DOMAIN h2a
      <4>1. HostAck(arkHost, arkKey).type = "ack"
        BY PacketTypesWritten
      <4>2. QED
        BY <1>0, <3>1, <4>1, SentPacketRead
    <3>3. AckIn(h2a, arkHost, arkKey)
      BY <3>2 DEF AckIn
    <3>4. RepliesLeft = MaxReplies
      BY <1>7, <3>1, <3>3 DEF RepliesLeft
    <3>5. RepliesLeft' <= MaxReplies
      BY <1>0 DEF Counted
    <3>6. QED
      BY <3>4, <3>5
  <2>5. CASE ArkDiscards
    <3>1. UNCHANGED <<arkPc, arkHost, arkKey, arkSession>>
      BY <2>5 DEF ArkDiscards, arkVars
    <3>2. AckIn(h2a', arkHost, arkKey) => AckIn(h2a, arkHost, arkKey)
      BY <1>0, <1>1, <1>2, <1>6, AckInPast
    <3>3. CASE RepliesLeft' = RepliesLeft
      BY <1>5, <3>3
    <3>4. CASE RepliesLeft' # RepliesLeft
      <4>1. RepliesLeft' = 0
        BY <3>1, <3>2, <3>4 DEF RepliesLeft
      <4>2. QED
        BY <1>5, <4>1
    <3>5. QED
      BY <3>3, <3>4
  <2>6. QED
    BY <2>1, <2>2, <2>3, <2>4, <2>5 DEF ArkReads
<1>9. Hellos' <= Hellos
  BY <1>3 DEF Hellos
<1>10. QED
  BY <1>3, <1>4, <1>8, <1>9

(* What a write of the Ark adds to the stream of the host.                 *)
Written(ok) ==
  \/ Frames' <= Frames + 1 /\ Pieces' <= Pieces
  \/ ~ok /\ Frames' <= Frames /\ Pieces' <= Pieces + 1

LEMMA ArkWriteCounts ==
  ASSUME TypeOK, NEW p \in Packet, NEW ok \in BOOLEAN, ArkWrites(SendPacket(p, ok))
  PROVE  Written(ok)
<1>1. PICK t \in SendPacket(p, ok) : a2h' = a2h \o t
  BY DEF ArkWrites
<1>2. a2h \in Seq(Token)
  BY StateTypes
<1>3. \/ /\ Cardinality(FramesIn(a2h')) <= Cardinality(FramesIn(a2h)) + 1
         /\ Cardinality(PiecesIn(a2h')) <= Cardinality(PiecesIn(a2h))
      \/ /\ ~ok
         /\ Cardinality(FramesIn(a2h')) <= Cardinality(FramesIn(a2h))
         /\ Cardinality(PiecesIn(a2h')) <= Cardinality(PiecesIn(a2h)) + 1
  BY <1>1, <1>2, PacketCounted
<1>4. QED
  BY <1>3 DEF Written, Frames, Pieces

LEMMA ArkSendHelloCounts ==
  ASSUME Sound, Sound', AnswersKnown, AcksKnown, NEW ok \in BOOLEAN, ArkSendHello(ok)
  PROVE  /\ Written(ok) /\ Hellos' + 1 <= Hellos /\ RepliesLeft' <= RepliesLeft
         /\ HellosIn(h2a) # {}
<1>0. TypeOK /\ Counted /\ Counted'
  BY CountsAreTyped, CountsStayTyped DEF Sound
<1> USE StateTypes
<1>1. PICK q \in NextPackets(h2a) :
        q.type = "hello" /\ ArkWrites(SendPacket(ArkHello(q.host, arkKey'), ok))
  BY DEF ArkSendHello
<1>2. Len(h2a) >= 2 /\ h2a[1].packet = q /\ 1 \in DOMAIN h2a
  BY <1>0, <1>1, SentPacketRead
<1>3. q.host \in Nat /\ arkKey' \in Nat
  BY <1>0, <1>2, PacketFields DEF ArkSendHello
<1>4. Written(ok)
  <2>1. ArkHello(q.host, arkKey') \in Packet
    BY <1>3, PacketTypes
  <2>2. QED
    BY <1>0, <1>1, <2>1, ArkWriteCounts
<1>5. h2a' \in Seq(Token)
  BY <1>0, ArkFrameRead
<1>6. PICK d \in 1 .. Len(h2a) :
        /\ IsFirstDelim(h2a, d) /\ IsTail(h2a', h2a, d)
        /\ \A k \in 1 .. Len(h2a') : h2a'[k] = h2a[k + d]
  BY <1>0, ArkFrameRead
<1>7. Cardinality(HellosIn(h2a')) + 1 <= Cardinality(HellosIn(h2a))
  BY <1>0, <1>1, <1>2, <1>5, <1>6, FrameRead
<1>8. 1 \in HellosIn(h2a)
  BY <1>1, <1>2 DEF HellosIn
<1>9. RepliesLeft' = 0
  <2>1. arkSession' = NoSession
    BY DEF ArkSendHello, AnswersKnown
  <2>2. ~AckIn(h2a', arkHost', arkKey')
    <3>1. SUFFICES ASSUME AckIn(h2a', arkHost', arkKey') PROVE FALSE
      OBVIOUS
    <3>2. d \in 0 .. Len(h2a)
      OBVIOUS
    <3>3. AckIn(h2a, arkHost', arkKey')
      BY <1>0, <1>5, <1>6, <3>1, <3>2, AckInPast
    <3>4. PICK k \in DOMAIN h2a : h2a[k].packet = HostAck(arkHost', arkKey')
      BY <3>3 DEF AckIn
    <3>5. h2a[k].packet.type = "ack" /\ h2a[k].packet.ark = arkKey'
      BY <3>4 DEF HostAck, Sealed
    <3>6. arkKey' <= arkKey
      BY <3>4, <3>5 DEF AcksKnown
    <3>7. arkKey' = arkKey + 1
      BY DEF ArkSendHello
    <3>8. QED
      BY <1>0, <3>6, <3>7
  <2>3. QED
    BY <2>1, <2>2 DEF RepliesLeft
<1>10. RepliesLeft \in Nat
  BY <1>0 DEF Counted
<1>11. Hellos' + 1 <= Hellos
  BY <1>7 DEF Hellos
<1>12. RepliesLeft' <= RepliesLeft
  BY <1>9, <1>10
<1>13. QED
  BY <1>4, <1>8, <1>11, <1>12

LEMMA ArkSendMessageCounts ==
  ASSUME Sound, Sound', AnswersKnown, NEW ok \in BOOLEAN, ArkSendMessage(ok)
  PROVE  Written(ok) /\ Hellos' <= Hellos /\ RepliesLeft' + 1 <= RepliesLeft
<1>0. TypeOK /\ Counted /\ Counted'
  BY CountsAreTyped, CountsStayTyped DEF Sound
<1> USE StateTypes
<1>1. /\ arkSession.host \in Nat /\ arkSession.ark \in Nat /\ arkSession.sent \in Nat
      /\ arkSession # NoSession /\ arkSession.sent < MaxReplies /\ MaxReplies \in Nat
      /\ arkPc = "serve" /\ UNCHANGED <<h2a, arkPc>>
  BY <1>0, SessionTypes, ArkAssumption DEF ArkSendMessage
<1>2. Written(ok)
  <2>1. Message(arkSession.host, arkSession.ark, arkSession.sent) \in Packet
    BY <1>1, PacketTypes
  <2>2. QED
    BY <1>0, <2>1, ArkWriteCounts DEF ArkSendMessage
<1>3. Hellos' <= Hellos
  <2>1. Hellos' = Hellos /\ Hellos \in Nat
    BY <1>0, <1>1 DEF Hellos, Counted
  <2>2. QED
    BY <2>1
<1>4. RepliesLeft = MaxReplies - arkSession.sent
  BY <1>1 DEF RepliesLeft
<1>5. RepliesLeft' + 1 <= RepliesLeft
  <2>1. CASE ok
    <3>1. arkSession' = [arkSession EXCEPT !.sent = @ + 1]
      BY <2>1 DEF ArkSendMessage, AfterSend
    <3>2. arkSession'.sent = arkSession.sent + 1
      BY <1>0, <3>1 DEF Session
    <3>3. arkSession' # NoSession
      BY <1>1, <3>2 DEF NoSession, NewSession
    <3>4. RepliesLeft' = MaxReplies - (arkSession.sent + 1)
      BY <3>2, <3>3 DEF RepliesLeft
    <3>5. QED
      BY <1>1, <1>4, <3>4
  <2>2. CASE ~ok
    <3>1. arkSession' = NoSession
      BY <2>2 DEF ArkSendMessage, AfterSend
    <3>2. RepliesLeft' = 0
      BY <1>1, <3>1 DEF RepliesLeft
    <3>3. QED
      BY <1>1, <1>4, <3>2
  <2>3. QED
    BY <2>1, <2>2
<1>6. QED
  BY <1>2, <1>3, <1>5

(* The Ark gives up, is restarted, or hears somebody else.                 *)
LEMMA ArkDisturbedCounts ==
  ASSUME Sound, Sound', AnswersKnown, ArkReadFails \/ ArkRestart \/ Noise
  PROVE  /\ Frames' <= Frames /\ Hellos' <= Hellos /\ RepliesLeft' <= RepliesLeft
         /\ HellosIn(h2a) = {} => HellosIn(h2a') = {}
         /\ Pieces' <= Pieces
<1>0. TypeOK /\ Counted /\ Counted'
  BY CountsAreTyped, CountsStayTyped DEF Sound
<1> USE StateTypes
<1>1. a2h' = a2h
  BY DEF ArkReadFails, ArkRestart, Noise
<1>2. Frames' <= Frames /\ Pieces' <= Pieces
  <2>1. Frames' = Frames /\ Pieces' = Pieces
    BY <1>1 DEF Frames, Pieces
  <2>2. Frames \in Nat /\ Pieces \in Nat
    BY <1>0 DEF Counted, Frames
  <2>3. QED
    BY <2>1, <2>2
<1>3. Cardinality(HellosIn(h2a)) \in Nat /\ RepliesLeft \in Nat
  BY <1>0 DEF Counted
<1>4. CASE ArkReadFails
  <2>1. HellosIn(h2a') = HellosIn(h2a)
    BY <1>4 DEF ArkReadFails
  <2>2. RepliesLeft' = 0
    BY <1>4 DEF ArkReadFails, AnswersKnown, RepliesLeft
  <2>3. Hellos' <= Hellos
    BY <1>3, <2>1 DEF Hellos
  <2>4. QED
    BY <1>2, <1>3, <2>1, <2>2, <2>3
<1>5. CASE ArkRestart
  <2>1. h2a' \in Remains(h2a)
    BY <1>5 DEF ArkRestart
  <2>2. /\ Cardinality(HellosIn(h2a')) <= Cardinality(HellosIn(h2a))
        /\ HellosIn(h2a) = {} => HellosIn(h2a') = {}
    BY <1>0, <2>1, FramesRemain
  <2>3. RepliesLeft' = 0
    BY <1>5 DEF ArkRestart, RepliesLeft
  <2>4. Hellos' <= Hellos
    BY <2>2 DEF Hellos
  <2>5. QED
    BY <1>2, <1>3, <2>2, <2>3, <2>4
<1>6. CASE Noise
  <2>1. PICK token \in {Cut, Delim} : h2a' = Append(h2a, token)
    BY <1>6 DEF Noise
  <2> DEFINE t == <<token>>
  <2>2. t \in Seq(Token) /\ h2a' = h2a \o t /\ Len(t) = 1 /\ t[1] = token
    BY <1>0, <2>1, TokenTypes
  <2> HIDE DEF t
  <2>3. \A k \in 1 .. Len(t) : t[k].packet.type # "ack" /\ t[k].packet.type # "hello"
    BY <2>2, SpecialTypes
  <2>4. HellosIn(h2a') = HellosIn(h2a)
    BY <1>0, <2>2, <2>3, NoHelloWritten
  <2>5. UNCHANGED <<arkPc, arkKey, arkHost, arkSession>>
    BY <1>6 DEF Noise, arkVars
  <2>6. AckIn(h2a', arkHost, arkKey) => AckIn(h2a, arkHost, arkKey)
    BY <1>0, <2>2, <2>3, AckInAppended
  <2>7. RepliesLeft' = RepliesLeft \/ RepliesLeft' = 0
    BY <2>5, <2>6 DEF RepliesLeft
  <2>8. Hellos' <= Hellos
    BY <1>3, <2>4 DEF Hellos
  <2>9. RepliesLeft' <= RepliesLeft
    BY <1>3, <2>7
  <2>10. QED
    BY <1>2, <2>4, <2>8, <2>9
<1>7. QED
  BY <1>4, <1>5, <1>6

(* The steps of the host.                                                  *)
HostReads == HostReject \/ HostSkipStale \/ HostAbort \/ HostNextMessage \/ HostDiscards

LEMMA HostFrameRead ==
  ASSUME TypeOK, HostReads \/ \E ok \in BOOLEAN : HostSendAck(ok)
  PROVE  /\ a2h' \in Seq(Token)
         /\ HostReads => UNCHANGED <<h2a, hostKey>>
         /\ \E d \in 1 .. Len(a2h) :
              /\ IsFirstDelim(a2h, d) /\ IsTail(a2h', a2h, d)
              /\ \A k \in 1 .. Len(a2h') : a2h'[k] = a2h[k + d]
<1>1. a2h \in Seq(Token)
  BY StateTypes
<1>2. a2h' = Rest(a2h) /\ \E p : p \in NextPackets(a2h)
  BY <1>1, GluedRead DEF HostReads, HostReject, HostSkipStale, HostAbort, HostNextMessage, HostDiscards,
     HostSendAck
<1>3. HostReads => UNCHANGED <<h2a, hostKey>>
  BY DEF HostReads, HostReject, HostSkipStale, HostAbort, HostNextMessage, HostDiscards, hostVars
<1>4. QED
  BY <1>1, <1>2, <1>3, RestIsTail

LEMMA HostReadCounts ==
  ASSUME TypeOK, HostReads \/ \E ok \in BOOLEAN : HostSendAck(ok)
  PROVE  /\ Frames' + 1 <= Frames /\ Pieces' <= Pieces
         /\ \A d \in 1 .. Len(a2h) : Spoiled(a2h, d) => Pieces' + 1 <= Pieces
<1>1. a2h \in Seq(Token)
  BY StateTypes
<1>2. a2h' \in Seq(Token)
  BY HostFrameRead
<1>3. PICK d \in 1 .. Len(a2h) :
        /\ IsFirstDelim(a2h, d) /\ IsTail(a2h', a2h, d)
        /\ \A k \in 1 .. Len(a2h') : a2h'[k] = a2h[k + d]
  BY HostFrameRead
<1>4. /\ Cardinality(FramesIn(a2h')) + 1 <= Cardinality(FramesIn(a2h))
      /\ Cardinality(PiecesIn(a2h')) <= Cardinality(PiecesIn(a2h))
      /\ Spoiled(a2h, d) => Cardinality(PiecesIn(a2h')) + 1 <= Cardinality(PiecesIn(a2h))
  BY <1>1, <1>2, <1>3, FrameRead
<1>5. \A e \in 1 .. Len(a2h) : Spoiled(a2h, e) => e = d
  BY <1>3 DEF Spoiled, IsFirstDelim
<1>6. /\ Frames' + 1 <= Frames /\ Pieces' <= Pieces
      /\ Spoiled(a2h, d) => Pieces' + 1 <= Pieces
  BY <1>4 DEF Frames, Pieces
<1>7. QED
  BY <1>5, <1>6

LEMMA SameReplies ==
  ASSUME UNCHANGED arkVars, AckIn(h2a', arkHost, arkKey) => AckIn(h2a, arkHost, arkKey), Counted
  PROVE  RepliesLeft' <= RepliesLeft
<1>1. UNCHANGED <<arkPc, arkKey, arkHost, arkSession>>
  BY DEF arkVars
<1>2. RepliesLeft' = RepliesLeft \/ RepliesLeft' = 0
  BY <1>1 DEF RepliesLeft
<1>3. RepliesLeft \in Nat
  BY DEF Counted
<1>4. QED
  BY <1>2, <1>3

LEMMA HostReadLeaves ==
  ASSUME Sound, HostReads \/ HostReadFails \/ HostRestart, UNCHANGED arkVars
  PROVE  Hellos' <= Hellos /\ RepliesLeft' <= RepliesLeft
<1>1. TypeOK /\ Counted
  BY CountsAreTyped DEF Sound
<1>2. h2a' = h2a
  BY <1>1, HostFrameRead DEF HostReadFails, HostRestart
<1>3. Hellos' = Hellos /\ Hellos \in Nat
  BY <1>1, <1>2 DEF Hellos, Counted
<1>4. RepliesLeft' <= RepliesLeft
  BY <1>1, <1>2, SameReplies
<1>5. QED
  BY <1>3, <1>4

(* What the host writes is no ack unless it opens the session.             *)
LEMMA HostWriteCounts ==
  ASSUME Sound, UNCHANGED <<a2h, arkVars>>, NEW t \in Seq(Token), h2a' = h2a \o t,
         \A k \in 1 .. Len(t) : t[k].packet.type \notin {"hello", "ack"}
  PROVE  /\ Frames' <= Frames /\ Hellos' <= Hellos /\ RepliesLeft' <= RepliesLeft
         /\ HellosIn(h2a') = HellosIn(h2a) /\ Pieces' <= Pieces
<1>1. TypeOK /\ Counted
  BY CountsAreTyped DEF Sound
<1>2. h2a \in Seq(Token)
  BY <1>1, StateTypes
<1>3. Frames' <= Frames /\ Pieces' <= Pieces
  <2>1. Frames' = Frames /\ Pieces' = Pieces
    BY DEF Frames, Pieces
  <2>2. Frames \in Nat /\ Pieces \in Nat
    BY <1>1 DEF Counted, Frames
  <2>3. QED
    BY <2>1, <2>2
<1>4. HellosIn(h2a') = HellosIn(h2a)
  BY <1>2, NoHelloWritten
<1>5. Hellos' <= Hellos
  <2>1. Hellos' = Hellos /\ Hellos \in Nat
    BY <1>1, <1>4 DEF Hellos, Counted
  <2>2. QED
    BY <2>1
<1>6. AckIn(h2a', arkHost, arkKey) => AckIn(h2a, arkHost, arkKey)
  BY <1>2, AckInAppended
<1>7. QED
  BY <1>1, <1>3, <1>4, <1>5, <1>6, SameReplies

LEMMA HostResetCounts ==
  ASSUME Sound, UNCHANGED arkVars, NEW ok \in BOOLEAN, HostReset(ok)
  PROVE  /\ Frames' <= Frames /\ Hellos' <= Hellos /\ RepliesLeft' <= RepliesLeft
         /\ Pieces' <= Pieces
<1>1. PICK t \in SendReset(ok) : h2a' = h2a \o t
  BY DEF HostReset, HostWrites
<1>2. t \in Seq(Token) /\ \A k \in 1 .. Len(t) : t[k].packet.type \notin {"hello", "ack"}
  BY ResetWritten, SpecialTypes
<1>3. a2h' = a2h
  BY DEF HostReset
<1>4. QED
  BY <1>1, <1>2, <1>3, HostWriteCounts

LEMMA HostSendMessageCounts ==
  ASSUME Sound, UNCHANGED arkVars, NEW ok \in BOOLEAN, HostSendMessage(ok)
  PROVE  /\ Frames' <= Frames /\ Hellos' <= Hellos /\ RepliesLeft' <= RepliesLeft
         /\ HellosIn(h2a') = HellosIn(h2a) /\ Pieces' <= Pieces
<1> DEFINE p == Message(hostSession.host, hostSession.ark, hostSession.sent)
<1>0. TypeOK
  BY DEF Sound
<1>1. PICK t \in SendPacket(p, ok) : h2a' = h2a \o t
  BY DEF HostSendMessage, HostWrites
<1>2. p \in Packet /\ p.type = "message"
  <2>1. hostSession.host \in Nat /\ hostSession.ark \in Nat /\ hostSession.sent \in Nat
    BY <1>0, StateTypes, SessionTypes
  <2>2. p \in Packet
    BY <2>1, PacketTypes
  <2>3. QED
    BY <2>2, PacketTypesWritten
<1> HIDE DEF p
<1>3. t \in Seq(Token) /\ \A k \in 1 .. Len(t) : t[k].packet.type \notin {"hello", "ack"}
  BY <1>2, PacketWritten, SpecialTypes
<1>4. a2h' = a2h
  BY DEF HostSendMessage
<1>5. QED
  BY <1>1, <1>3, <1>4, HostWriteCounts

LEMMA HostSendHelloCounts ==
  ASSUME Sound, UNCHANGED arkVars, NEW ok \in BOOLEAN, HostSendHello(ok)
  PROVE  /\ Frames' <= Frames /\ Hellos' <= Hellos + 1 /\ RepliesLeft' <= RepliesLeft
         /\ Pieces' <= Pieces
<1>0. TypeOK /\ Counted
  BY CountsAreTyped DEF Sound
<1> USE StateTypes
<1>1. PICK t \in SendPacket(HostHello(hostKey), ok) : h2a' = h2a \o t
  BY DEF HostSendHello, HostWrites
<1>2. HostHello(hostKey) \in Packet /\ HostHello(hostKey).type = "hello"
  BY <1>0, PacketTypes, PacketTypesWritten
<1>3. t \in Seq(Token) /\ \A k \in 1 .. Len(t) : t[k].packet.type # "ack"
  BY <1>2, PacketWritten, SpecialTypes
<1>4. a2h' = a2h
  BY DEF HostSendHello
<1>5. Frames' <= Frames /\ Pieces' <= Pieces
  <2>1. Frames' = Frames /\ Pieces' = Pieces
    BY <1>4 DEF Frames, Pieces
  <2>2. Frames \in Nat /\ Pieces \in Nat
    BY <1>0 DEF Counted, Frames
  <2>3. QED
    BY <2>1, <2>2
<1>6. Cardinality(HellosIn(h2a')) <= Cardinality(HellosIn(h2a)) + 1
  BY <1>0, <1>1, <1>2, PacketCounted
<1>7. Hellos' <= Hellos + 1
  BY <1>6 DEF Hellos
<1>8. AckIn(h2a', arkHost, arkKey) => AckIn(h2a, arkHost, arkKey)
  BY <1>0, <1>1, <1>3, AckInAppended
<1>9. QED
  BY <1>0, <1>5, <1>7, <1>8, SameReplies

(* The answer the host acknowledges.                                       *)
LEMMA HostSendAckCounts ==
  ASSUME Sound, AnswersKnown, UNCHANGED arkVars, NEW ok \in BOOLEAN, HostSendAck(ok)
  PROVE  /\ Hellos' <= Hellos
         /\ HellosIn(h2a') = HellosIn(h2a)
         /\ \E p \in NextPackets(a2h) :
              /\ p.type = "arkhello" /\ p.host = hostKey /\ p.ark \in Nat /\ Answered(p.host, p.ark)
              /\ Len(a2h) >= 2 /\ a2h[1].packet = p /\ a2h[2] = Delim
              /\ a2h' = Rest(a2h) /\ Len(a2h') = Len(a2h) - 2
              /\ hostSession' = (IF ok THEN NewSession(p.host, p.ark) ELSE NoSession)
              /\ \E t \in SendPacket(HostAck(p.host, p.ark), ok) : h2a' = h2a \o t
<1>0. TypeOK /\ Counted
  BY CountsAreTyped DEF Sound
<1> USE StateTypes
<1>1. PICK p \in NextPackets(a2h) :
        /\ IsAnswer(p) /\ HostWrites(SendPacket(HostAck(p.host, p.ark), ok))
        /\ hostSession' = IF ok THEN NewSession(p.host, p.ark) ELSE NoSession
  BY DEF HostSendAck
<1>2. p.type = "arkhello" /\ p.host = hostKey
  BY <1>1 DEF IsAnswer
<1>3. /\ Len(a2h) >= 2 /\ a2h[1].packet = p /\ a2h[2] = Delim /\ 1 \in DOMAIN a2h
      /\ Len(Rest(a2h)) = Len(a2h) - 2
  <2>1. a2h \in Seq(Token) /\ p.type \notin {"empty", "junk", "undecodable"}
    BY <1>0, <1>2
  <2>2. Len(a2h) >= 2 /\ a2h[1].packet = p /\ a2h[2] = Delim /\ IsTail(Rest(a2h), a2h, 2)
    BY <2>1, SentPacketRead
  <2>3. QED
    BY <1>0, <2>2 DEF IsTail
<1>4. Answered(p.host, p.ark) /\ p.ark \in Nat /\ p.host \in Nat
  <2>1. Answered(p.host, p.ark)
    BY <1>2, <1>3 DEF AnswersKnown
  <2>2. QED
    BY <1>0, <1>3, <2>1, PacketFields
<1>5. a2h' = Rest(a2h)
  BY DEF HostSendAck
<1>6. PICK t \in SendPacket(HostAck(p.host, p.ark), ok) : h2a' = h2a \o t
  BY <1>1 DEF HostWrites
<1>7. HostAck(p.host, p.ark) \in Packet /\ HostAck(p.host, p.ark).type = "ack"
  BY <1>4, PacketTypes, PacketTypesWritten
<1>8. t \in Seq(Token) /\ \A k \in 1 .. Len(t) : t[k].packet.type # "hello"
  BY <1>7, PacketWritten, SpecialTypes
<1>9. HellosIn(h2a') = HellosIn(h2a)
  BY <1>0, <1>6, <1>8, NoHelloWritten
<1>10. Hellos' <= Hellos
  <2>1. Hellos' = Hellos /\ Hellos \in Nat
    BY <1>0, <1>9 DEF Hellos, Counted
  <2>2. QED
    BY <2>1
<1>11. QED
  BY <1>1, <1>2, <1>3, <1>4, <1>5, <1>6, <1>9, <1>10

-----------------------------------------------------------------------------
(* The replies of a session.                                               *)

LEMMA SoundStep ==
  ASSUME WireInv, WireInv', AnswerLast, AnswerLast', RepliesAhead, Next
  PROVE  Sound /\ Sound' /\ arkSession'.sent <= MaxReplies
<1>0. TypeOK /\ TypeOK'
  BY DEF WireInv
<1> USE StateTypes
<1>1. Sound
  BY <1>0 DEF Sound, RepliesAhead, AnswerLast
<1>2. arkSession'.sent <= MaxReplies
  <2>0. arkSession.sent <= MaxReplies /\ MaxReplies \in Nat
    BY ArkAssumption DEF RepliesAhead
  <2>1. CASE arkSession' = arkSession
    BY <2>0, <2>1
  <2>2. CASE arkSession' = NoSession \/ arkSession' = NewSession(arkHost, arkKey)
    <3>1. arkSession'.sent = 0
      BY <2>2 DEF NoSession, NewSession
    <3>2. QED
      BY <2>0, <3>1
  <2>3. CASE arkSession' = [arkSession EXCEPT !.got = @ + 1]
    <3>1. arkSession'.sent = arkSession.sent
      BY <1>0, <2>3 DEF Session
    <3>2. QED
      BY <2>0, <3>1
  <2>4. CASE arkSession' = [arkSession EXCEPT !.sent = @ + 1] /\ arkSession.sent < MaxReplies
    <3>1. arkSession'.sent = arkSession.sent + 1 /\ arkSession.sent \in Nat
      BY <1>0, <2>4 DEF Session
    <3>2. QED
      BY <2>0, <2>4, <3>1
  <2>5. faults \in 0 .. MaxFaults
    BY <1>0 DEF TypeOK
  <2>6. CASE UNCHANGED arkVars
    BY <2>1, <2>6 DEF arkVars
  <2>7. CASE ArkOp
    <3>1. ASSUME NEW ok \in BOOLEAN, ArkSendHello(ok) PROVE arkSession' = arkSession
      BY <3>1 DEF ArkSendHello
    <3>2. ASSUME NEW ok \in BOOLEAN, ArkSendMessage(ok)
          PROVE  \/ arkSession' = NoSession
                 \/ arkSession' = [arkSession EXCEPT !.sent = @ + 1] /\ arkSession.sent < MaxReplies
      BY <3>2 DEF ArkSendMessage, AfterSend
    <3>3. CASE ArkReset \/ ArkNextMessage \/ ArkStartOver \/ ArkEstablish \/ ArkHandshakeFails
                 \/ ArkReadFails \/ ArkDiscards
      <4>1. \/ arkSession' = arkSession \/ arkSession' = NoSession
            \/ arkSession' = NewSession(arkHost, arkKey)
            \/ arkSession' = [arkSession EXCEPT !.got = @ + 1]
        BY <3>3 DEF ArkReset, ArkNextMessage, ArkStartOver, ArkEstablish, ArkHandshakeFails,
           ArkReadFails, ArkDiscards, arkVars
      <4>2. QED
        BY <2>1, <2>2, <2>3, <4>1
    <3>4. QED
      BY <2>1, <2>2, <2>4, <2>7, <3>1, <3>2, <3>3, Zenon DEF ArkOp
  <2>8. CASE HostRestart \/ ArkRestart \/ Noise
    BY <2>1, <2>2, <2>8 DEF HostRestart, ArkRestart, Noise, arkVars
  <2>9. QED
    BY <2>5, <2>6, <2>7, <2>8, StepCases
<1>3. Sound'
  BY <1>0, <1>2 DEF Sound, AnswerLast
<1>4. QED
  BY <1>1, <1>2, <1>3

(* In a session both ends agree on the keys.                               *)
LEMMA SameKeys ==
  ASSUME WireInv, hostSession # NoSession
  PROVE  /\ arkHost = hostKey /\ hostSession.host = hostKey /\ hostSession.ark = arkKey
         /\ hostPc = "idle"
         /\ arkSession # NoSession =>
              arkSession.host = hostSession.host /\ arkSession.ark = hostSession.ark /\ arkPc = "serve"
<1>0. TypeOK /\ AnswersKnown /\ HellosInOrder
  BY DEF WireInv
<1> USE StateTypes
<1>1. hostPc = "idle" /\ hostSession.host = hostKey /\ Answered(hostKey, hostSession.ark)
  BY <1>0 DEF AnswersKnown
<1>2. hostKey <= arkHost /\ (hostKey = arkHost => hostSession.ark = arkKey)
  BY <1>1 DEF Answered
<1>3. arkHost <= hostKey
  BY <1>0 DEF HellosInOrder
<1>4. hostKey = arkHost
  BY <1>0, <1>2, <1>3
<1>5. arkSession # NoSession => arkSession.host = arkHost /\ arkSession.ark = arkKey /\ arkPc = "serve"
  BY <1>0 DEF AnswersKnown
<1>6. QED
  BY <1>1, <1>2, <1>4, <1>5

(* The first frame of a host in a session is its next message.             *)
LEMMA ReplyNext ==
  ASSUME TypeOK, OnlyReplies, NEW d \in 1 .. Len(a2h), IsFirstDelim(a2h, d)
  PROVE  /\ d = 2
         /\ a2h[1] = Body(Message(hostSession.host, hostSession.ark, hostSession.got))
<1>0. DOMAIN a2h = 1 .. Len(a2h) /\ Len(a2h) \in Nat /\ hostSession.got \in Nat
  BY StateTypes, SessionTypes
<1>1. 0 \in 0 .. Len(a2h) /\ 1 \in DOMAIN a2h /\ 2 * 0 + 1 = 1 /\ 2 * 0 + 2 = 2
      /\ hostSession.got + 0 = hostSession.got
  BY <1>0
<1>2. \/ a2h[1] = Body(Message(hostSession.host, hostSession.ark, hostSession.got))
      \/ 1 = Len(a2h) /\ a2h[1] # Delim
  BY <1>1 DEF OnlyReplies
<1>3. a2h[d] = Delim /\ \A k \in 1 .. d - 1 : a2h[k] # Delim
  BY DEF IsFirstDelim
<1>4. Body(Message(hostSession.host, hostSession.ark, hostSession.got)) # Delim
  BY DEF Body, Delim
<1>5. d # 1 /\ a2h[1] = Body(Message(hostSession.host, hostSession.ark, hostSession.got))
  BY <1>2, <1>3, <1>4
<1>6. 2 \in DOMAIN a2h
  BY <1>0, <1>5
<1>7. a2h[2] = Delim
  BY <1>1, <1>6 DEF OnlyReplies
<1>8. d = 2
  BY <1>3, <1>5, <1>7
<1>9. QED
  BY <1>5, <1>8

LEMMA Shifted ==
  ASSUME NEW j \in Nat, NEW g \in Nat
  PROVE  /\ 2 * (j + 1) + 1 = (2 * j + 1) + 2 /\ 2 * (j + 1) + 2 = (2 * j + 2) + 2
         /\ g + (j + 1) = (g + 1) + j
OBVIOUS

LEMMA RepliesRead ==
  ASSUME TypeOK, OnlyReplies, a2h' \in Seq(Token), Len(a2h') = Len(a2h) - 2,
         \A k \in 1 .. Len(a2h') : a2h'[k] = a2h[k + 2],
         hostSession' = [hostSession EXCEPT !.got = @ + 1]
  PROVE  OnlyReplies'
<1>1. /\ DOMAIN a2h = 1 .. Len(a2h) /\ DOMAIN a2h' = 1 .. Len(a2h') /\ Len(a2h) \in Nat /\ Len(a2h') \in Nat
      /\ hostSession.got \in Nat
  BY StateTypes, SessionTypes
<1>2. hostSession'.host = hostSession.host /\ hostSession'.ark = hostSession.ark
      /\ hostSession'.got = hostSession.got + 1
  BY StateTypes DEF Session
<1> DEFINE l == Len(a2h) m == Len(a2h') g == hostSession.got
<1>3. /\ m = l - 2 /\ m \in Nat /\ l \in Nat /\ g \in Nat
      /\ DOMAIN a2h = 1 .. l /\ DOMAIN a2h' = 1 .. m
      /\ \A k \in 1 .. m : a2h'[k] = a2h[k + 2]
  BY <1>1
<1>4. \A j \in 0 .. l :
        /\ 2 * j + 1 \in 1 .. l =>
             \/ a2h[2 * j + 1] = Body(Message(hostSession.host, hostSession.ark, g + j))
             \/ 2 * j + 1 = l /\ a2h[2 * j + 1] # Delim
        /\ 2 * j + 2 \in 1 .. l => a2h[2 * j + 2] = Delim
  BY <1>1 DEF OnlyReplies
<1>5. SUFFICES ASSUME NEW j \in 0 .. m
               PROVE  /\ 2 * j + 1 \in 1 .. m =>
                           \/ a2h'[2 * j + 1] = Body(Message(hostSession.host, hostSession.ark, (g + 1) + j))
                           \/ 2 * j + 1 = m /\ a2h'[2 * j + 1] # Delim
                      /\ 2 * j + 2 \in 1 .. m => a2h'[2 * j + 2] = Delim
  BY <1>1, <1>2 DEF OnlyReplies
<1> HIDE DEF l, m, g
<1>6. /\ 2 * j + 1 \in 1 .. m => j + 1 \in 0 .. l
      /\ 2 * (j + 1) + 1 = (2 * j + 1) + 2 /\ 2 * (j + 1) + 2 = (2 * j + 2) + 2
      /\ g + (j + 1) = (g + 1) + j
      /\ 2 * j + 1 \in 1 .. m => 2 * (j + 1) + 1 \in 1 .. l
      /\ 2 * j + 2 \in 1 .. m => 2 * (j + 1) + 2 \in 1 .. l /\ j + 1 \in 0 .. l
      /\ 2 * (j + 1) + 1 = l => 2 * j + 1 = m
  <2>1. m = l - 2 /\ m \in Nat /\ l \in Nat /\ g \in Nat /\ j \in Nat /\ j <= m
    BY <1>3
  <2>2. /\ 2 * (j + 1) + 1 = (2 * j + 1) + 2 /\ 2 * (j + 1) + 2 = (2 * j + 2) + 2
        /\ g + (j + 1) = (g + 1) + j
    BY <2>1, Shifted
  <2>3. /\ 2 * j + 1 \in 1 .. m => j + 1 \in 0 .. l
        /\ 2 * j + 2 \in 1 .. m => j + 1 \in 0 .. l
    BY <2>1
  <2>4. 2 * j + 1 \in 1 .. m => 2 * (j + 1) + 1 \in 1 .. l
    BY <2>1
  <2>5. 2 * j + 2 \in 1 .. m => 2 * (j + 1) + 2 \in 1 .. l
    BY <2>1
  <2>6. 2 * (j + 1) + 1 = l => 2 * j + 1 = m
    BY <2>1
  <2>7. QED
    BY <2>2, <2>3, <2>4, <2>5, <2>6
<1>7. ASSUME 2 * j + 1 \in 1 .. m
      PROVE  \/ a2h'[2 * j + 1] = Body(Message(hostSession.host, hostSession.ark, (g + 1) + j))
             \/ 2 * j + 1 = m /\ a2h'[2 * j + 1] # Delim
  <2>0. \A k \in 1 .. m : a2h'[k] = a2h[k + 2]
    BY <1>3
  <2>1. a2h'[2 * j + 1] = a2h[2 * (j + 1) + 1]
    <3>1. a2h'[2 * j + 1] = a2h[(2 * j + 1) + 2]
      BY <1>7, <2>0
    <3>2. QED
      BY <1>6, <3>1
  <2>2. \/ a2h[2 * (j + 1) + 1] = Body(Message(hostSession.host, hostSession.ark, g + (j + 1)))
        \/ 2 * (j + 1) + 1 = l /\ a2h[2 * (j + 1) + 1] # Delim
    BY <1>4, <1>6, <1>7
  <2>3. QED
    BY <1>6, <2>1, <2>2
<1>8. ASSUME 2 * j + 2 \in 1 .. m PROVE a2h'[2 * j + 2] = Delim
  <2>0. \A k \in 1 .. m : a2h'[k] = a2h[k + 2]
    BY <1>3
  <2>1. a2h'[2 * j + 2] = a2h[2 * (j + 1) + 2]
    <3>1. a2h'[2 * j + 2] = a2h[(2 * j + 2) + 2]
      BY <1>8, <2>0
    <3>2. QED
      BY <1>6, <3>1
  <2>2. QED
    BY <1>4, <1>6, <1>8, <2>1
<1>9. QED
  BY <1>7, <1>8

(* The Ark writes the reply the host expects after those on their way.     *)
LEMMA RepliesWritten ==
  ASSUME TypeOK, OnlyReplies, UNCHANGED hostSession,
         NEW n \in Nat, Len(a2h) = 2 * n,
         NEW p, p = Message(hostSession.host, hostSession.ark, hostSession.got + n),
         NEW t, t \in {<<>>, <<Cut>>, <<Body(p)>>, <<Body(p), Delim>>},
         t \in Seq(Token), a2h' = a2h \o t
  PROVE  OnlyReplies' /\ Len(a2h') = Len(a2h) + Len(t)
<1>1. /\ DOMAIN a2h = 1 .. Len(a2h) /\ Len(a2h) \in Nat /\ a2h \in Seq(Token) /\ hostSession.got \in Nat
      /\ a2h' \in Seq(Token) /\ Len(a2h') = Len(a2h) + Len(t) /\ Len(t) \in Nat
      /\ DOMAIN a2h' = 1 .. Len(a2h')
      /\ \A k \in 1 .. Len(a2h) : a2h'[k] = a2h[k]
      /\ \A k \in Len(a2h) + 1 .. Len(a2h) + Len(t) : a2h'[k] = t[k - Len(a2h)]
  <2>1. DOMAIN a2h = 1 .. Len(a2h) /\ Len(a2h) \in Nat /\ a2h \in Seq(Token)
    BY StateTypes
  <2>2. hostSession.got \in Nat
    BY StateTypes, SessionTypes
  <2>3. /\ a2h' \in Seq(Token) /\ Len(a2h') = Len(a2h) + Len(t)
        /\ \A k \in 1 .. Len(a2h) : a2h'[k] = a2h[k]
        /\ \A k \in Len(a2h) + 1 .. Len(a2h) + Len(t) : a2h'[k] = t[k - Len(a2h)]
    BY <2>1, Joined
  <2>4. Len(t) \in Nat /\ DOMAIN a2h' = 1 .. Len(a2h')
    BY <2>3
  <2>5. QED
    BY <2>1, <2>2, <2>3, <2>4
<1>2. Len(t) <= 2 /\ (Len(t) = 2 => t[1] = Body(p) /\ t[2] = Delim)
      /\ (Len(t) = 1 => t[1] # Delim)
  <2>1. Cut # Delim /\ Body(p) # Delim
    BY DEF Delim, Cut, Body
  <2>2. t = <<>> \/ t = <<Cut>> \/ t = <<Body(p)>> \/ t = <<Body(p), Delim>>
    OBVIOUS
  <2>3. CASE t = <<>>
    BY <2>3
  <2>4. CASE t = <<Cut>>
    BY <2>1, <2>4
  <2>5. CASE t = <<Body(p)>>
    BY <2>1, <2>5
  <2>6. CASE t = <<Body(p), Delim>>
    BY <2>6
  <2>7. QED
    BY <2>2, <2>3, <2>4, <2>5, <2>6
<1>3. Body(p) # Delim
  BY DEF Delim, Body
<1> DEFINE l == Len(a2h) m == Len(a2h') e == Len(t)
<1>4. /\ l = 2 * n /\ m = l + e /\ e <= 2 /\ e \in Nat /\ l \in Nat
      /\ DOMAIN a2h = 1 .. l /\ DOMAIN a2h' = 1 .. m
      /\ \A k \in 1 .. l : a2h'[k] = a2h[k]
      /\ \A k \in l + 1 .. l + e : a2h'[k] = t[k - l]
      /\ e = 2 => t[1] = Body(p) /\ t[2] = Delim
      /\ e = 1 => t[1] # Delim
  BY <1>1, <1>2
<1>5. \A j \in 0 .. l :
        /\ 2 * j + 1 \in 1 .. l =>
             \/ a2h[2 * j + 1] = Body(Message(hostSession.host, hostSession.ark, hostSession.got + j))
             \/ 2 * j + 1 = l /\ a2h[2 * j + 1] # Delim
        /\ 2 * j + 2 \in 1 .. l => a2h[2 * j + 2] = Delim
  BY <1>1 DEF OnlyReplies
<1>6. SUFFICES ASSUME NEW j \in 0 .. m
               PROVE  /\ 2 * j + 1 \in 1 .. m =>
                           \/ a2h'[2 * j + 1] = Body(Message(hostSession.host, hostSession.ark, hostSession.got + j))
                           \/ 2 * j + 1 = m /\ a2h'[2 * j + 1] # Delim
                      /\ 2 * j + 2 \in 1 .. m => a2h'[2 * j + 2] = Delim
  BY <1>1 DEF OnlyReplies
<1> HIDE DEF l, m, e
<1>7. CASE j < n
  <2>1. j \in 0 .. l /\ 2 * j + 1 \in 1 .. l /\ 2 * j + 2 \in 1 .. l /\ 2 * j + 1 # l
    BY <1>4, <1>7
  <2>2. QED
    BY <1>4, <1>5, <2>1
<1>8. CASE j = n
  <2>1. 2 * j + 1 = l + 1 /\ 2 * j + 2 = l + 2 /\ (l + 1) - l = 1 /\ (l + 2) - l = 2
    BY <1>4, <1>8
  <2>2. e >= 1 => a2h'[2 * j + 1] = t[1]
    BY <1>4, <2>1
  <2>3. e = 2 => a2h'[2 * j + 2] = t[2]
    BY <1>4, <2>1
  <2>4. 2 * j + 1 \in 1 .. m => e >= 1 /\ (e = 1 => 2 * j + 1 = m)
    BY <1>4, <2>1
  <2>5. 2 * j + 2 \in 1 .. m => e = 2
    BY <1>4, <2>1
  <2>6. e = 1 \/ e = 2 \/ ~(e >= 1)
    BY <1>4
  <2>7. hostSession.got + j = hostSession.got + n
    BY <1>8
  <2>8. QED
    BY <1>4, <2>2, <2>3, <2>4, <2>5, <2>6, <2>7
<1>9. CASE j > n
  BY <1>4, <1>9
<1>10. QED
  BY <1>4, <1>7, <1>8, <1>9

(* The host is not in a session, or the Ark writes nothing to it.          *)
LEMMA NoReplies ==
  ASSUME arkSession'.sent <= MaxReplies, hostSession' = NoSession
  PROVE  RepliesAhead'
BY DEF RepliesAhead

LEMMA RepliesKept ==
  ASSUME Sound, Sound', RepliesAhead, UNCHANGED <<a2h, hostVars>>, Leftover' <= Leftover,
         HellosIn(h2a) = {} => HellosIn(h2a') = {},
         arkSession' # NoSession =>
           \/ arkSession # NoSession /\ arkSession'.sent = arkSession.sent
           \/ arkPc = "ack" /\ arkSession'.sent = 0,
         arkPc' = "ack" => arkPc = "ack"
  PROVE  RepliesAhead'
<1>1. arkSession'.sent <= MaxReplies
  BY DEF Sound
<1>2. CASE hostSession' = NoSession
  BY <1>1, <1>2, NoReplies
<1>3. CASE hostSession' # NoSession
  <2>1. hostSession # NoSession /\ hostSession' = hostSession /\ a2h' = a2h
    BY <1>3 DEF hostVars
  <2>2. /\ Leftover <= MaxReplies /\ HellosIn(h2a) = {} /\ OnlyReplies
        /\ arkSession # NoSession => Len(a2h) = 2 * (arkSession.sent - hostSession.got)
        /\ arkPc = "ack" => a2h = <<>> /\ hostSession.got = 0
    BY <2>1 DEF RepliesAhead
  <2>3. Leftover' <= MaxReplies
    <3>1. PICK l \in Nat : l = Leftover
      BY CountsAreTyped DEF Counted
    <3>2. PICK m \in Nat : m = Leftover'
      BY CountsStayTyped DEF Counted
    <3>3. m <= l /\ l <= MaxReplies /\ MaxReplies \in Nat
      BY <2>2, <3>1, <3>2, ArkAssumption
    <3>4. m <= MaxReplies
      BY <3>3
    <3>5. QED
      BY <3>2, <3>4
  <2>4. OnlyReplies'
    BY <2>1, <2>2 DEF OnlyReplies
  <2>5. arkSession' # NoSession => Len(a2h') = 2 * (arkSession'.sent - hostSession'.got)
    <3>1. CASE arkSession # NoSession /\ arkSession'.sent = arkSession.sent
      BY <2>1, <2>2, <3>1
    <3>2. CASE arkPc = "ack" /\ arkSession'.sent = 0
      <4>1. a2h' = <<>> /\ hostSession'.got = 0
        BY <2>1, <2>2, <3>2
      <4>2. Len(a2h') = 0
        BY <4>1
      <4>3. QED
        BY <3>2, <4>1, <4>2
    <3>3. QED
      BY <3>1, <3>2
  <2>6. arkPc' = "ack" => a2h' = <<>> /\ hostSession'.got = 0
    BY <2>1, <2>2
  <2>7. QED
    BY <1>1, <2>2, <2>3, <2>4, <2>5, <2>6 DEF RepliesAhead
<1>4. QED
  BY <1>2, <1>3

(* The host opens a session: the answer was all it had ahead.              *)
LEMMA RepliesOpened ==
  ASSUME Sound, Sound', WireInv, AcksKnown, AnswerLast, UNCHANGED arkVars, NEW ok \in BOOLEAN,
         HostSendAck(ok)
  PROVE  RepliesAhead'
<1>0. TypeOK /\ AnswersKnown /\ HellosInOrder /\ Counted /\ Counted'
  BY CountsAreTyped, CountsStayTyped DEF Sound, WireInv
<1> USE StateTypes
<1>1. arkSession'.sent <= MaxReplies
  BY DEF Sound
<1>2. PICK p \in NextPackets(a2h) :
        /\ p.type = "arkhello" /\ p.host = hostKey /\ p.ark \in Nat /\ Answered(p.host, p.ark)
        /\ Len(a2h) >= 2 /\ a2h[1].packet = p /\ a2h[2] = Delim
        /\ a2h' = Rest(a2h) /\ Len(a2h') = Len(a2h) - 2
        /\ hostSession' = (IF ok THEN NewSession(p.host, p.ark) ELSE NoSession)
  BY <1>0, HostSendAckCounts
<1>3. hostPc = "ack"
  BY DEF HostSendAck
<1>4. Len(a2h) = 2
  <2>1. 1 \in DOMAIN a2h
    BY <1>0, <1>2
  <2>2. 1 >= Len(a2h) - 1
    BY <1>2, <1>3, <2>1 DEF AnswerLast
  <2>3. QED
    BY <1>0, <1>2, <2>2
<1>5. a2h' = <<>>
  <2>1. a2h' \in Seq(Token) /\ Len(a2h') = 0
    BY <1>0, <1>2, <1>4 DEF Counted
  <2>2. QED
    BY <2>1
<1>6. arkHost = hostKey
  <2>1. hostKey <= arkHost
    BY <1>2 DEF Answered
  <2>2. arkHost <= hostKey
    BY <1>0 DEF HellosInOrder
  <2>3. QED
    BY <1>0, <2>1, <2>2
<1>7. arkSession' = NoSession
  <2>1. arkSession # NoSession => arkSession.host < hostKey /\ arkSession.host = arkHost
    BY <1>0, <1>3 DEF AcksKnown, AnswersKnown
  <2>2. arkSession = NoSession
    BY <1>0, <1>6, <2>1
  <2>3. QED
    BY <2>2 DEF arkVars
<1>8. HellosIn(h2a') = {}
  <2>1. HellosIn(h2a') = HellosIn(h2a)
    BY <1>0, HostSendAckCounts
  <2>2. ASSUME NEW k \in DOMAIN h2a, h2a[k].packet.type = "hello" PROVE FALSE
    <3>1. arkHost < h2a[k].packet.host /\ h2a[k].packet.host <= hostKey
      BY <1>0, <2>2 DEF HellosInOrder
    <3>2. h2a[k].packet.host \in Nat
      BY <1>0, <2>2, PacketFields
    <3>3. QED
      BY <1>0, <1>6, <3>1, <3>2
  <2>3. QED
    BY <2>1, <2>2 DEF HellosIn
<1>9. Leftover' <= MaxReplies
  <2>1. FramesIn(a2h') = {}
    BY <1>5 DEF FramesIn
  <2>2. Cardinality(FramesIn(a2h')) = 0 /\ Cardinality(HellosIn(h2a')) = 0
    BY <1>8, <2>1, FS_EmptySet
  <2>3. Leftover' = 0 + 0 + RepliesLeft'
    BY <2>2 DEF Leftover
  <2>4. RepliesLeft' \in 0 .. MaxReplies
    BY <1>0 DEF Counted
  <2>5. QED
    BY <2>3, <2>4
<1>10. OnlyReplies'
  <2>1. Len(a2h') = 0 /\ DOMAIN a2h' = {}
    BY <1>5
  <2>2. QED
    BY <2>1 DEF OnlyReplies
<1>11. hostSession' # NoSession => hostSession'.got = 0
  BY <1>2 DEF NewSession
<1>12. QED
  BY <1>1, <1>5, <1>7, <1>8, <1>9, <1>10, <1>11 DEF RepliesAhead

(* The host opens the next message.                                        *)
LEMMA NextReplyOpened ==
  ASSUME TypeOK, RepliesAhead, hostSession # NoSession, HostNextMessage
  PROVE  /\ hostSession' = [hostSession EXCEPT !.got = @ + 1]
         /\ a2h # <<>> /\ Len(a2h') = Len(a2h) - 2
         /\ \A k \in 1 .. Len(a2h') : a2h'[k] = a2h[k + 2]
<1> USE StateTypes
<1>1. PICK d \in 1 .. Len(a2h) :
        /\ IsFirstDelim(a2h, d) /\ IsTail(a2h', a2h, d)
        /\ \A k \in 1 .. Len(a2h') : a2h'[k] = a2h[k + d]
  BY HostFrameRead DEF HostReads
<1>2. OnlyReplies
  BY DEF RepliesAhead
<1> DEFINE q == Message(hostSession.host, hostSession.ark, hostSession.got)
<1>3. d = 2 /\ a2h[1] = Body(q)
  BY <1>1, <1>2, ReplyNext
<1>4. PICK p \in NextPackets(a2h) :
        hostSession' = IF p.type = "empty" THEN hostSession
                       ELSE IF hostSession # NoSession /\ HostOpens(p)
                         THEN [hostSession EXCEPT !.got = @ + 1]
                       ELSE NoSession
  BY DEF HostNextMessage
<1>5. PICK e \in DOMAIN a2h : IsFirstDelim(a2h, e) /\ p \in Decodings(a2h, e)
  BY <1>4 DEF NextPackets
<1>6. e = 2
  BY <1>2, <1>5, ReplyNext
<1>7. p = q
  BY <1>3, <1>5, <1>6 DEF Decodings, Body
<1>8. p.type # "empty" /\ HostOpens(p)
  BY <1>7, PacketTypesWritten DEF HostOpens
<1>9. Len(a2h) > 0
  BY <1>1
<1>10. QED
  BY <1>1, <1>3, <1>4, <1>8, <1>9 DEF IsTail

LEMMA RepliesOpenedNext ==
  ASSUME Sound, Sound', RepliesAhead, UNCHANGED arkVars, HostNextMessage
  PROVE  RepliesAhead'
<1>0. TypeOK
  BY DEF Sound
<1> USE StateTypes
<1>1. arkSession'.sent <= MaxReplies
  BY DEF Sound
<1>2. CASE hostSession = NoSession
  <2>1. hostSession' = NoSession
    BY <1>2 DEF HostNextMessage
  <2>2. QED
    BY <1>1, <2>1, NoReplies
<1>3. CASE hostSession # NoSession
  <2>1. /\ hostSession' = [hostSession EXCEPT !.got = @ + 1]
        /\ a2h # <<>> /\ Len(a2h') = Len(a2h) - 2
        /\ \A k \in 1 .. Len(a2h') : a2h'[k] = a2h[k + 2]
    BY <1>0, <1>3, NextReplyOpened
  <2>2. /\ Leftover <= MaxReplies /\ HellosIn(h2a) = {} /\ OnlyReplies
        /\ arkSession # NoSession => Len(a2h) = 2 * (arkSession.sent - hostSession.got)
        /\ arkPc = "ack" => a2h = <<>> /\ hostSession.got = 0
    BY <1>3 DEF RepliesAhead
  <2>3. a2h' \in Seq(Token) /\ h2a' = h2a
    BY <1>0, HostFrameRead DEF HostReads
  <2>4. OnlyReplies'
    BY <1>0, <2>1, <2>2, <2>3, RepliesRead
  <2>5. Leftover' <= MaxReplies
    <3>1. Leftover' + 1 <= Leftover
      BY <1>0, HostReadCounts, HostReadLeaves, LeftoverMoves DEF HostReads
    <3>2. PICK l \in Nat : l = Leftover
      BY CountsAreTyped DEF Counted
    <3>3. PICK m \in Nat : m = Leftover'
      BY CountsStayTyped DEF Counted
    <3>4. m + 1 <= l /\ l <= MaxReplies /\ MaxReplies \in Nat
      BY <2>2, <3>1, <3>2, <3>3, ArkAssumption
    <3>5. m <= MaxReplies
      BY <3>4
    <3>6. QED
      BY <3>3, <3>5
  <2>6. arkPc' = arkPc /\ arkSession' = arkSession /\ arkPc # "ack"
    BY <2>1, <2>2 DEF arkVars
  <2>7. ASSUME arkSession' # NoSession PROVE Len(a2h') = 2 * (arkSession'.sent - hostSession'.got)
    <3>1. hostSession'.got = hostSession.got + 1 /\ hostSession.got \in Nat
      BY <1>0, <2>1 DEF Session
    <3>2. PICK n \in Nat : n = arkSession.sent
      BY <1>0, SessionTypes
    <3>3. Len(a2h') = 2 * (n - hostSession.got) - 2
      BY <2>1, <2>2, <2>6, <2>7, <3>2
    <3>4. 2 * (n - hostSession.got) - 2 = 2 * (n - (hostSession.got + 1))
      BY <3>1
    <3>5. QED
      BY <2>6, <3>1, <3>2, <3>3, <3>4
  <2>8. HellosIn(h2a') = {}
    BY <2>2, <2>3
  <2>9. QED
    BY <1>1, <2>4, <2>5, <2>6, <2>7, <2>8 DEF RepliesAhead
<1>4. QED
  BY <1>2, <1>3

LEMMA LeftoverFits ==
  ASSUME Sound, Sound', Leftover <= MaxReplies, Leftover' <= Leftover
  PROVE  Leftover' <= MaxReplies
<1>1. PICK l \in Nat : l = Leftover
  BY CountsAreTyped DEF Counted
<1>2. PICK m \in Nat : m = Leftover'
  BY CountsStayTyped DEF Counted
<1>3. m <= l /\ l <= MaxReplies /\ MaxReplies \in Nat
  BY <1>1, <1>2, ArkAssumption
<1>4. m <= MaxReplies
  BY <1>3
<1>5. QED
  BY <1>2, <1>4

LEMMA RepliesWhileSending ==
  ASSUME Sound, Sound', RepliesAhead, UNCHANGED arkVars, NEW ok \in BOOLEAN, HostSendMessage(ok)
  PROVE  RepliesAhead'
<1>0. TypeOK
  BY DEF Sound
<1>1. arkSession'.sent <= MaxReplies
  BY DEF Sound
<1>2. CASE hostSession' = NoSession
  BY <1>1, <1>2, NoReplies
<1>3. CASE hostSession' # NoSession
  <2>1. hostSession # NoSession /\ a2h' = a2h /\ UNCHANGED <<arkPc, arkSession>>
    BY DEF HostSendMessage, arkVars
  <2>2. /\ Leftover <= MaxReplies /\ HellosIn(h2a) = {} /\ OnlyReplies
        /\ arkSession # NoSession => Len(a2h) = 2 * (arkSession.sent - hostSession.got)
        /\ arkPc = "ack" => a2h = <<>> /\ hostSession.got = 0
    BY <2>1 DEF RepliesAhead
  <2>3. hostSession' = [hostSession EXCEPT !.sent = @ + 1]
    BY <1>3 DEF HostSendMessage, AfterSend
  <2>4. /\ hostSession'.host = hostSession.host /\ hostSession'.ark = hostSession.ark
        /\ hostSession'.got = hostSession.got
    BY <1>0, <2>3, StateTypes DEF Session
  <2>5. OnlyReplies'
    BY <2>1, <2>2, <2>4 DEF OnlyReplies
  <2>6. Leftover' <= Leftover /\ HellosIn(h2a') = HellosIn(h2a)
    BY HostSendMessageCounts, LeftoverMoves
  <2>7. Leftover' <= MaxReplies
    BY <2>2, <2>6, LeftoverFits
  <2>8. QED
    BY <1>1, <2>1, <2>2, <2>4, <2>5, <2>6, <2>7 DEF RepliesAhead
<1>4. QED
  BY <1>2, <1>3

LEMMA ArkWritesLeftover ==
  ASSUME Sound, Sound', NEW ok \in BOOLEAN, Written(ok),
         \/ Hellos' + 1 <= Hellos /\ RepliesLeft' <= RepliesLeft
         \/ Hellos' <= Hellos /\ RepliesLeft' + 1 <= RepliesLeft
  PROVE  /\ Leftover' <= Leftover /\ Pieces' <= Pieces + 1
         /\ Pieces' <= Pieces \/ (~ok /\ Leftover' + 1 <= Leftover)
<1>1. Counted /\ Counted'
  BY CountsAreTyped, CountsStayTyped
<1>2. Leftover \in Nat /\ Pieces \in Nat
  BY <1>1 DEF Counted
<1>3. Leftover' \in Nat /\ Pieces' \in Nat
  BY <1>1 DEF Counted
<1>4. CASE Frames' <= Frames + 1 /\ Pieces' <= Pieces
  <2>1. Leftover' <= Leftover
    BY <1>4, LeftoverMoves
  <2>2. Pieces' <= Pieces + 1
    <3> DEFINE g == Pieces h == Pieces'
    <3>1. g \in Nat /\ h \in Nat /\ h <= g
      BY <1>2, <1>3, <1>4
    <3>2. h <= g + 1 => Pieces' <= Pieces + 1
      OBVIOUS
    <3> HIDE DEF g, h
    <3>3. QED
      BY <3>1, <3>2
  <2>3. QED
    BY <1>4, <2>1, <2>2
<1>5. CASE ~ok /\ Frames' <= Frames /\ Pieces' <= Pieces + 1
  <2>1. Leftover' + 1 <= Leftover
    BY <1>5, LeftoverMoves
  <2>2. Leftover' <= Leftover
    <3> DEFINE g == Leftover h == Leftover'
    <3>1. g \in Nat /\ h \in Nat /\ h + 1 <= g
      BY <1>2, <1>3, <2>1
    <3>2. h <= g => Leftover' <= Leftover
      OBVIOUS
    <3> HIDE DEF g, h
    <3>3. QED
      BY <3>1, <3>2
  <2>3. QED
    BY <1>5, <2>1, <2>2
<1>6. QED
  BY <1>4, <1>5 DEF Written

LEMMA RepliesSent ==
  ASSUME Sound, Sound', WireInv, RepliesAhead, UNCHANGED hostVars, NEW ok \in BOOLEAN, ArkSendMessage(ok)
  PROVE  RepliesAhead'
<1>0. TypeOK /\ AnswersKnown
  BY DEF Sound, WireInv
<1> USE StateTypes
<1>1. arkSession'.sent <= MaxReplies
  BY DEF Sound
<1>2. CASE hostSession' = NoSession
  BY <1>1, <1>2, NoReplies
<1>3. CASE hostSession' # NoSession
  <2>1. hostSession' = hostSession /\ hostSession # NoSession
    BY <1>3 DEF hostVars
  <2>2. arkPc' = "serve" /\ arkSession # NoSession /\ h2a' = h2a
    BY DEF ArkSendMessage
  <2>3. arkSession.host = hostSession.host /\ arkSession.ark = hostSession.ark
    BY <2>1, <2>2, SameKeys
  <2>4. /\ Leftover <= MaxReplies /\ HellosIn(h2a) = {} /\ OnlyReplies
        /\ Len(a2h) = 2 * (arkSession.sent - hostSession.got)
    BY <2>1, <2>2 DEF RepliesAhead
  <2> DEFINE n == arkSession.sent - hostSession.got
             p == Message(hostSession.host, hostSession.ark, hostSession.got + n)
  <2>5. /\ n \in Nat /\ Len(a2h) = 2 * n /\ hostSession.got + n = arkSession.sent
        /\ arkSession.sent \in Nat /\ hostSession.got \in Nat
    <3>1. arkSession.sent \in Nat /\ hostSession.got \in Nat
      BY <1>0, SessionTypes
    <3>2. Len(a2h) \in Nat
      BY <1>0
    <3>3. QED
      BY <2>4, <3>1, <3>2
  <2>6. p = Message(arkSession.host, arkSession.ark, arkSession.sent)
    BY <2>3, <2>5
  <2>7. p \in Packet
    <3>1. hostSession.host \in Nat /\ hostSession.ark \in Nat
      BY <1>0, SessionTypes
    <3>2. QED
      BY <2>5, <2>6, <2>3, <3>1, PacketTypes
  <2>8. PICK t \in SendPacket(p, ok) : a2h' = a2h \o t
    BY <2>6 DEF ArkSendMessage, ArkWrites
  <2>9. t \in Seq(Token) /\ t \in {<<>>, <<Cut>>, <<Body(p)>>, <<Body(p), Delim>>}
        /\ (ok => t = <<Body(p), Delim>>)
    <3>1. t \in Seq(Token)
      BY <2>7, <2>8, PacketWritten
    <3> HIDE DEF p
    <3>2. QED
      BY <2>8, <3>1 DEF SendPacket, Frame
  <2>10. p = Message(hostSession.host, hostSession.ark, hostSession.got + n)
    OBVIOUS
  <2>11. n = arkSession.sent - hostSession.got
    OBVIOUS
  <2> HIDE DEF n, p
  <2>12. OnlyReplies' /\ Len(a2h') = Len(a2h) + Len(t)
    BY <1>0, <2>1, <2>4, <2>5, <2>8, <2>9, <2>10, RepliesWritten
  <2>13. ASSUME arkSession' # NoSession PROVE Len(a2h') = 2 * (arkSession'.sent - hostSession'.got)
    <3>1. ok /\ arkSession' = [arkSession EXCEPT !.sent = @ + 1]
      BY <2>13 DEF ArkSendMessage, AfterSend
    <3>2. arkSession'.sent = arkSession.sent + 1
      BY <1>0, <3>1 DEF Session
    <3>3. Len(t) = 2
      BY <2>9, <3>1
    <3>4. Len(a2h') = 2 * n + 2
      BY <2>5, <2>12, <3>3
    <3>5. 2 * n + 2 = 2 * ((arkSession.sent + 1) - hostSession.got)
      BY <2>5, <2>11
    <3>6. QED
      BY <2>1, <3>2, <3>4, <3>5
  <2>14. Leftover' <= MaxReplies
    <3>1. Written(ok) /\ Hellos' <= Hellos /\ RepliesLeft' + 1 <= RepliesLeft
      BY <1>0, ArkSendMessageCounts
    <3>2. Leftover' <= Leftover
      BY <3>1, ArkWritesLeftover
    <3>3. QED
      BY <2>4, <3>2, LeftoverFits
  <2>15. HellosIn(h2a') = {}
    BY <2>2, <2>4
  <2>16. QED
    BY <1>1, <2>2, <2>12, <2>13, <2>14, <2>15 DEF RepliesAhead
<1>4. QED
  BY <1>2, <1>3

LEMMA RepliesAheadStep ==
  ASSUME WireInv, WireInv', AcksKnown, AnswerLast, AnswerLast', RepliesAhead, Next
  PROVE  RepliesAhead'
<1>0. Sound /\ Sound' /\ TypeOK /\ AnswersKnown
  BY SoundStep DEF Sound, WireInv
<1> USE StateTypes
<1>1. arkSession'.sent <= MaxReplies
  BY <1>0 DEF Sound
<1>2. ASSUME hostSession' = NoSession PROVE RepliesAhead'
  BY <1>1, <1>2, NoReplies
<1>3. arkPc # "serve" => arkSession = NoSession
  BY <1>0 DEF AnswersKnown
<1>4. hostPc # "idle" => hostSession = NoSession
  BY <1>0 DEF AnswersKnown
<1>5. ASSUME UNCHANGED arkVars, HostOp PROVE RepliesAhead'
  <2>1. ASSUME NEW ok \in BOOLEAN, HostReset(ok) PROVE RepliesAhead'
    BY <1>2, <2>1 DEF HostReset
  <2>2. ASSUME NEW ok \in BOOLEAN, HostSendHello(ok) PROVE RepliesAhead'
    BY <1>2, <1>4, <2>2 DEF HostSendHello
  <2>3. ASSUME NEW ok \in BOOLEAN, HostSendAck(ok) PROVE RepliesAhead'
    BY <1>0, <1>5, <2>3, RepliesOpened
  <2>4. ASSUME NEW ok \in BOOLEAN, HostSendMessage(ok) PROVE RepliesAhead'
    BY <1>0, <1>5, <2>4, RepliesWhileSending
  <2>5. ASSUME HostReject \/ HostSkipStale \/ HostAbort PROVE RepliesAhead'
    BY <1>2, <1>4, <2>5 DEF HostReject, HostSkipStale, HostAbort
  <2>6. ASSUME HostReadFails PROVE RepliesAhead'
    BY <1>2, <2>6 DEF HostReadFails
  <2>7. ASSUME HostNextMessage PROVE RepliesAhead'
    BY <1>0, <1>5, <2>7, RepliesOpenedNext
  <2>8. ASSUME HostDiscards PROVE RepliesAhead'
    <3>1. CASE hostSession = NoSession
      BY <1>2, <2>8, <3>1 DEF HostDiscards, hostVars
    <3>2. CASE hostSession # NoSession
      <4>1. OnlyReplies
        BY <3>2 DEF RepliesAhead
      <4>2. PICK d \in DOMAIN a2h : IsFirstDelim(a2h, d) /\ d > 2
        BY <2>8 DEF HostDiscards, Glued
      <4>3. d = 2
        BY <1>0, <4>1, <4>2, ReplyNext
      <4>4. QED
        BY <4>2, <4>3
    <3>3. QED
      BY <3>1, <3>2
  <2>9. QED
    BY <1>5, <2>1, <2>2, <2>3, <2>4, <2>5, <2>6, <2>7, <2>8, Zenon DEF HostOp
<1>6. ASSUME UNCHANGED hostVars, ArkReads PROVE RepliesAhead'
  <2>1. Leftover' <= Leftover /\ (HellosIn(h2a) = {} => HellosIn(h2a') = {})
    BY <1>0, <1>6, ArkReadCounts, LeftoverMoves
  <2>2. a2h' = a2h
    BY <1>0, <1>6, ArkFrameRead
  <2>3. /\ arkSession' # NoSession =>
             \/ arkSession # NoSession /\ arkSession'.sent = arkSession.sent
             \/ arkPc = "ack" /\ arkSession'.sent = 0
        /\ arkPc' = "ack" => arkPc = "ack"
    <3>1. CASE ArkNextMessage
      <4>1. arkSession' # NoSession => arkSession # NoSession /\ arkSession' = [arkSession EXCEPT !.got = @ + 1]
        BY <3>1 DEF ArkNextMessage
      <4>2. arkSession' # NoSession => arkSession'.sent = arkSession.sent
        BY <1>0, <4>1 DEF Session
      <4>3. QED
        BY <3>1, <4>1, <4>2 DEF ArkNextMessage
    <3>2. CASE ArkEstablish
      BY <3>2 DEF ArkEstablish, NewSession
    <3>3. CASE ArkReset \/ ArkStartOver \/ ArkHandshakeFails \/ ArkDiscards
      BY <3>3 DEF ArkReset, ArkStartOver, ArkHandshakeFails, ArkDiscards, arkVars
    <3>4. QED
      BY <1>6, <3>1, <3>2, <3>3 DEF ArkReads
  <2>4. QED
    BY <1>0, <1>6, <2>1, <2>2, <2>3, RepliesKept
<1>7. ASSUME UNCHANGED hostVars, ArkReadFails \/ ArkRestart \/ Noise PROVE RepliesAhead'
  <2>1. Leftover' <= Leftover /\ (HellosIn(h2a) = {} => HellosIn(h2a') = {})
    BY <1>0, <1>7, ArkDisturbedCounts, LeftoverMoves
  <2>2. a2h' = a2h
    BY <1>7 DEF ArkReadFails, ArkRestart, Noise
  <2>3. /\ arkSession' # NoSession => arkSession' = arkSession
        /\ arkPc' = "ack" => arkPc = "ack"
    BY <1>7 DEF ArkReadFails, ArkRestart, Noise, arkVars
  <2>4. QED
    BY <1>0, <1>7, <2>1, <2>2, <2>3, RepliesKept
<1>8. ASSUME UNCHANGED hostVars, NEW ok \in BOOLEAN, ArkSendHello(ok) PROVE RepliesAhead'
  <2>1. HellosIn(h2a) # {}
    BY <1>0, <1>8, ArkSendHelloCounts
  <2>2. hostSession = NoSession
    BY <2>1 DEF RepliesAhead
  <2>3. QED
    BY <1>2, <1>8, <2>2 DEF hostVars
<1>9. ASSUME UNCHANGED hostVars, NEW ok \in BOOLEAN, ArkSendMessage(ok) PROVE RepliesAhead'
  BY <1>0, <1>9, RepliesSent
<1>10. ASSUME HostRestart PROVE RepliesAhead'
  BY <1>2, <1>10 DEF HostRestart
<1>11. QED
  <2>1. CASE ArkOp /\ UNCHANGED hostVars
    BY <2>1, <1>6, <1>7, <1>8, <1>9, Zenon DEF ArkOp, ArkReads
  <2>2. faults \in 0 .. MaxFaults
    BY <1>0 DEF TypeOK
  <2>3. UNCHANGED hostVars \/ ~(ArkRestart \/ Noise)
    BY DEF ArkRestart, Noise
  <2>4. QED
    BY <1>5, <1>7, <1>10, <2>1, <2>2, <2>3, StepCases

-----------------------------------------------------------------------------
(* What a step costs in terms of the course of the attempt or session.     *)

LEMMA CostTypes ==
  ASSUME Sound, Sound'
  PROVE  /\ Bounds /\ Bounds'
         /\ MAX_STALE_FRAMES \in Nat /\ MAX_STALE_FRAMES > 0 /\ MaxReplies \in Nat /\ MaxReplies > 0
         /\ PerFault = 2 * MAX_STALE_FRAMES + MaxReplies
         /\ Leftover \in Nat /\ Course \in Nat /\ stale \in 0 .. MAX_STALE_FRAMES
         /\ Leftover' \in Nat /\ Course' \in Nat
         /\ hostPc \in {"idle", "hello", "ack"} /\ hostPc' \in {"idle", "hello", "ack"}
         /\ stale' \in 0 .. MAX_STALE_FRAMES
<1>1. Counted /\ Counted' /\ Bounds /\ Bounds'
  BY CountsAreTyped, CountsStayTyped, CourseBounds, CourseStaysBound
<1>2. /\ MAX_STALE_FRAMES \in Nat /\ MAX_STALE_FRAMES > 0 /\ MaxReplies \in Nat /\ MaxReplies > 0
      /\ Leftover \in Nat /\ stale \in 0 .. MAX_STALE_FRAMES
  BY <1>1 DEF Counted
<1>3. Leftover' \in Nat /\ stale' \in 0 .. MAX_STALE_FRAMES
  BY <1>1 DEF Counted
<1>4. Course \in Nat /\ Course' \in Nat
  BY <1>1 DEF Bounds
<1>5. hostPc \in {"idle", "hello", "ack"} /\ hostPc' \in {"idle", "hello", "ack"}
  BY DEF Sound, TypeOK, HostTypeOK
<1>6. PerFault = 2 * MAX_STALE_FRAMES + MaxReplies
  BY DEF PerFault
<1>7. QED
  BY <1>1, <1>2, <1>3, <1>4, <1>5, <1>6

(* A step of the Ark does not throw off what is on course.                 *)
StaysOnCourse ==
  /\ hostSession # NoSession /\ SessionOnCourse => SessionOnCourse'
  /\ hostSession = NoSession /\ hostPc = "hello" /\ HelloOnCourse => HelloOnCourse'
  /\ hostSession = NoSession /\ hostPc = "ack" /\ AttemptOnCourse => AttemptOnCourse'

LEMMA CourseKept ==
  ASSUME Sound, Sound', UNCHANGED <<hostPc, stale>>,
         hostSession' = NoSession <=> hostSession = NoSession,
         Leftover' <= Leftover, StaysOnCourse
  PROVE  Course' <= Course
<1> DEFINE S == MAX_STALE_FRAMES l == Leftover m == Leftover' c == Course d == Course' e == stale
<1>0. /\ Bounds /\ Bounds' /\ hostPc \in {"idle", "hello", "ack"}
      /\ S \in Nat /\ S > 0 /\ l \in Nat /\ m \in Nat /\ c \in Nat /\ d \in Nat /\ m <= l
      /\ e \in Nat /\ e <= S
  BY CostTypes
<1>1. CASE hostSession # NoSession
  <2>1. /\ c = 0 \/ c = S
        /\ d <= S
        /\ c = 0 => d = 0
    <3>1. c = (IF SessionOnCourse THEN 0 ELSE S)
      BY <1>1 DEF Course
    <3>2. d = (IF SessionOnCourse' THEN 0 ELSE S)
      BY <1>1 DEF Course
    <3>3. SessionOnCourse => SessionOnCourse'
      BY <1>1 DEF StaysOnCourse
    <3>4. QED
      BY <1>0, <3>1, <3>2, <3>3
  <2>2. d <= c => Course' <= Course
    OBVIOUS
  <2> HIDE DEF S, l, m, c, d, e
  <2>3. QED
    BY <1>0, <2>1, <2>2
<1>2. CASE hostSession = NoSession /\ hostPc = "idle"
  <2>1. c = S + l
    BY <1>2 DEF Course
  <2>2. d = S + m
    BY <1>2 DEF Course
  <2>3. d <= c => Course' <= Course
    OBVIOUS
  <2> HIDE DEF S, l, m, c, d, e
  <2>4. QED
    BY <1>0, <2>1, <2>2, <2>3
<1>3. CASE hostSession = NoSession /\ hostPc = "hello"
  <2>1. c = (IF HelloOnCourse THEN l ELSE S + l + 1)
    BY <1>3 DEF Course
  <2>2. d = (IF HelloOnCourse' THEN m ELSE S + m + 1)
    BY <1>3 DEF Course
  <2>3. HelloOnCourse => HelloOnCourse'
    BY <1>3 DEF StaysOnCourse
  <2>4. d <= c => Course' <= Course
    OBVIOUS
  <2> HIDE DEF S, l, m, c, d, e
  <2>5. (c = l /\ d = m) \/ (c = S + l + 1 /\ (d = m \/ d = S + m + 1))
    BY <2>1, <2>2, <2>3
  <2>6. QED
    BY <1>0, <2>4, <2>5
<1>4. CASE hostSession = NoSession /\ hostPc = "ack"
  <2>1. c = (IF AttemptOnCourse THEN e + l - 1 ELSE S + l)
    BY <1>4 DEF Course
  <2>2. d = (IF AttemptOnCourse' THEN e + m - 1 ELSE S + m)
    BY <1>4 DEF Course
  <2>3. AttemptOnCourse => AttemptOnCourse'
    BY <1>4 DEF StaysOnCourse
  <2>4. d <= c => Course' <= Course
    OBVIOUS
  <2> HIDE DEF S, l, m, c, d, e
  <2>5. (c = e + l - 1 /\ d = e + m - 1) \/ (c = S + l /\ (d = e + m - 1 \/ d = S + m))
    BY <2>1, <2>2, <2>3
  <2>6. QED
    BY <1>0, <2>4, <2>5
<1>5. QED
  BY <1>0, <1>1, <1>2, <1>3, <1>4

LEMMA CourseLost ==
  ASSUME Sound, Sound', UNCHANGED <<hostPc, hostSession>>, Leftover' <= Leftover
  PROVE  /\ Course' <= Course + PerFault
         /\ Leftover' + 1 <= Leftover => Course' + MAX_STALE_FRAMES <= Course + PerFault
<1> DEFINE S == MAX_STALE_FRAMES R == MaxReplies F == PerFault
           l == Leftover m == Leftover' c == Course d == Course'
<1>0. /\ Bounds /\ Bounds' /\ hostPc \in {"idle", "hello", "ack"}
      /\ S \in Nat /\ S > 0 /\ R \in Nat /\ R > 0 /\ F = 2 * S + R
      /\ l \in Nat /\ m \in Nat /\ c \in Nat /\ d \in Nat /\ m <= l
  BY CostTypes
<1>1. \/ d <= S
      \/ c = S + l /\ d = S + m
      \/ l <= c /\ d <= S + m + 1
      \/ l <= c + 1 /\ d <= S + m
  <2>1. CASE hostSession # NoSession
    BY <1>0, <2>1 DEF Bounds
  <2>2. CASE hostSession = NoSession /\ hostPc = "idle"
    <3>1. c = S + l
      BY <1>0, <2>2 DEF Bounds
    <3>2. d = S + m
      BY <1>0, <2>2 DEF Bounds
    <3>3. QED
      BY <3>1, <3>2
  <2>3. CASE hostSession = NoSession /\ hostPc = "hello"
    <3>1. l <= c
      BY <1>0, <2>3 DEF Bounds
    <3>2. d <= S + m + 1
      BY <1>0, <2>3 DEF Bounds
    <3>3. QED
      BY <3>1, <3>2
  <2>4. CASE hostSession = NoSession /\ hostPc = "ack"
    <3>1. l <= c + 1
      BY <1>0, <2>4 DEF Bounds
    <3>2. d <= S + m
      BY <1>0, <2>4 DEF Bounds
    <3>3. QED
      BY <3>1, <3>2
  <2>5. QED
    BY <1>0, <2>1, <2>2, <2>3, <2>4
<1>2. SUFFICES d <= c + F /\ (m + 1 <= l => d + S <= c + F)
  OBVIOUS
<1> HIDE DEF S, R, F, l, m, c, d
<1>3. QED
  BY <1>0, <1>1

(* The host is out of its session or attempt, with a frame less or with    *)
(* none of its own among the leftovers.                                    *)
LEMMA CourseEnded ==
  ASSUME Sound, Sound', hostPc' = "idle", hostSession' = NoSession
  PROVE  /\ Leftover' <= MaxReplies => Course' + MAX_STALE_FRAMES <= Course + PerFault
         /\ hostSession = NoSession /\ Leftover' <= Leftover =>
              Course' + MAX_STALE_FRAMES <= Course + PerFault
         /\ hostSession = NoSession /\ Leftover' <= Leftover + 1 => Course' <= Course + PerFault
         /\ hostSession = NoSession /\ hostPc = "ack" /\ Leftover' + 1 <= Leftover + MaxReplies =>
              Course' <= Course + PerFault
         /\ hostSession = NoSession /\ hostPc = "ack" /\ Leftover' + 1 <= Leftover =>
              Course' <= Course + MAX_STALE_FRAMES
         /\ hostSession = NoSession /\ hostPc = "idle" /\ Leftover' <= Leftover => Course' <= Course
<1> DEFINE S == MAX_STALE_FRAMES R == MaxReplies F == PerFault
           l == Leftover m == Leftover' c == Course d == Course'
<1>0. /\ Bounds /\ Bounds' /\ hostPc \in {"idle", "hello", "ack"}
      /\ S \in Nat /\ S > 0 /\ R \in Nat /\ R > 0 /\ F = 2 * S + R
      /\ l \in Nat /\ m \in Nat /\ c \in Nat /\ d \in Nat
  BY CostTypes
<1>1. d = S + m
  BY <1>0 DEF Bounds
<1>2. hostSession = NoSession => l <= c + 1
  BY <1>0 DEF Bounds
<1>3. hostSession = NoSession /\ hostPc = "idle" => c = S + l
  BY <1>0 DEF Bounds
<1>4. SUFFICES
        /\ m <= R => d + S <= c + F
        /\ hostSession = NoSession /\ m <= l => d + S <= c + F
        /\ hostSession = NoSession /\ m <= l + 1 => d <= c + F
        /\ hostSession = NoSession /\ hostPc = "ack" /\ m + 1 <= l + R => d <= c + F
        /\ hostSession = NoSession /\ hostPc = "ack" /\ m + 1 <= l => d <= c + S
        /\ hostSession = NoSession /\ hostPc = "idle" /\ m <= l => d <= c
  OBVIOUS
<1> HIDE DEF S, R, F, l, m, c, d
<1>5. m <= R => d + S <= c + F
  BY <1>0, <1>1
<1>6. ASSUME hostSession = NoSession
      PROVE  /\ m <= l => d + S <= c + F
             /\ m <= l + 1 => d <= c + F
             /\ m + 1 <= l + R => d <= c + F
             /\ m + 1 <= l => d <= c + S
  BY <1>0, <1>1, <1>2, <1>6
<1>7. hostSession = NoSession /\ hostPc = "idle" /\ m <= l => d <= c
  BY <1>0, <1>1, <1>3
<1>8. QED
  BY <1>5, <1>6, <1>7

-----------------------------------------------------------------------------
(* What the Ark reads does not throw off what is on course.                *)

LEMMA FirstFrame ==
  ASSUME NEW s \in Seq(Token), NEW d \in 1 .. Len(s), IsFirstDelim(s, d)
  PROVE  /\ \A p \in NextPackets(s) : p \in Decodings(s, d)
         /\ Glued(s) => d > 2
         /\ d > 2 => Decodings(s, d) = {Undecodable, Junk}
<1>1. \A e \in DOMAIN s : IsFirstDelim(s, e) => e = d
  <2>1. ASSUME NEW e \in DOMAIN s, IsFirstDelim(s, e) PROVE e = d
    <3>1. e \in 1 .. Len(s) /\ s[e] = Delim /\ s[d] = Delim
      BY <2>1 DEF IsFirstDelim
    <3>2. ~ e < d /\ ~ d < e
      <4>1. d \in 1 .. e - 1 => s[d] # Delim
        BY <2>1 DEF IsFirstDelim
      <4>2. e \in 1 .. d - 1 => s[e] # Delim
        BY <2>1 DEF IsFirstDelim
      <4>3. QED
        BY <3>1, <4>1, <4>2
    <3>3. QED
      BY <3>1, <3>2
  <2>2. QED
    BY <2>1
<1>2. \A p \in NextPackets(s) : p \in Decodings(s, d)
  BY <1>1 DEF NextPackets
<1>3. Glued(s) => d > 2
  BY <1>1 DEF Glued
<1>4. d > 2 => Decodings(s, d) = {Undecodable, Junk}
  BY DEF Decodings
<1>5. QED
  BY <1>2, <1>3, <1>4

LEMMA BodyFirst ==
  ASSUME NEW s \in Seq(Token), NEW d \in 1 .. Len(s), IsFirstDelim(s, d),
         NEW p, s[1] = Body(p), 2 <= Len(s), s[2] = Delim
  PROVE  d = 2 /\ \A q \in NextPackets(s) : q = p
<1>1. Body(p) # Delim /\ Body(p).kind = "body" /\ Body(p).packet = p
  BY DEF Body, Delim
<1>2. d # 1 /\ ~ d > 2
  BY <1>1 DEF IsFirstDelim
<1>3. d = 2
  BY <1>2
<1>4. Decodings(s, d) = {p}
  BY <1>1, <1>3 DEF Decodings
<1>5. QED
  BY <1>3, <1>4, FirstFrame

LEMMA EmptyHeard ==
  ASSUME TypeOK, IsFirstDelim(h2a, 1), 1 \in 1 .. Len(h2a),
         ArkReads \/ \E ok \in BOOLEAN : ArkSendHello(ok)
  PROVE  arkPc' = "hello"
<1>1. h2a \in Seq(Token)
  BY StateTypes
<1>2. \A p \in NextPackets(h2a) : p = Empty
  BY <1>1, FirstFrame DEF Decodings
<1>3. ~ Glued(h2a)
  BY <1>1, FirstFrame
<1>4. Empty.type = "empty" /\ \A h, a : HostAck(h, a) # Empty
  BY SpecialTypes, PacketTypesWritten
<1>5. ~ ArkNextMessage /\ ~ ArkEstablish /\ ~ ArkHandshakeFails /\ ~ ArkDiscards
  BY <1>2, <1>3, <1>4 DEF ArkNextMessage, ArkEstablish, ArkHandshakeFails, ArkDiscards
<1>6. ~ \E ok \in BOOLEAN : ArkSendHello(ok)
  BY <1>2, <1>4 DEF ArkSendHello
<1>7. QED
  BY <1>5, <1>6 DEF ArkReads, ArkReset, ArkStartOver

LEMMA HeardPast ==
  ASSUME TypeOK, h2a' \in Seq(Token), NEW d \in 1 .. Len(h2a),
         IsFirstDelim(h2a, d), IsTail(h2a', h2a, d),
         \A k \in 1 .. Len(h2a') : h2a'[k] = h2a[k + d],
         d = 1 => arkPc' = "hello",
         NEW k \in 1 .. Len(h2a') + 1, Heard(k + d)
  PROVE  Heard(k)'
<1>1. Len(h2a) \in Nat /\ Len(h2a') \in Nat /\ k \in Nat /\ d \in Nat /\ Len(h2a') = Len(h2a) - d
  BY StateTypes DEF IsTail
<1>2. ASSUME k > 2 PROVE h2a'[k - 2] = Delim
  <2>1. k - 2 \in 1 .. Len(h2a') /\ (k - 2) + d = (k + d) - 2 /\ k + d > 2
    BY <1>1, <1>2
  <2>2. h2a[(k + d) - 2] = Delim
    BY <2>1 DEF Heard
  <2>3. h2a'[k - 2] = h2a[(k - 2) + d]
    BY <2>1
  <2>4. QED
    BY <2>1, <2>2, <2>3
<1>3. ASSUME k > 1 PROVE h2a'[k - 1] = Delim
  <2>1. k - 1 \in 1 .. Len(h2a') /\ (k - 1) + d = (k + d) - 1 /\ k + d > 1
    BY <1>1, <1>3
  <2>2. h2a[(k + d) - 1] = Delim
    BY <2>1 DEF Heard
  <2>3. h2a'[k - 1] = h2a[(k - 1) + d]
    BY <2>1
  <2>4. QED
    BY <2>1, <2>2, <2>3
<1>4. ASSUME k = 1 PROVE arkPc' = "hello"
  <2>1. CASE d = 1
    BY <2>1
  <2>2. CASE d > 1
    <3>1. k + d > 2 /\ (k + d) - 2 = d - 1 /\ d - 1 \in 1 .. d - 1
      BY <1>1, <1>4, <2>2
    <3>2. h2a[d - 1] = Delim
      BY <3>1 DEF Heard
    <3>3. QED
      BY <3>1, <3>2 DEF IsFirstDelim
  <2>3. QED
    BY <1>1, <2>1, <2>2
<1>5. QED
  BY <1>2, <1>3, <1>4 DEF Heard

(* The frames of the host in a session, seen from the stream they are in.  *)
UnderwayIn(stream, s, n) ==
  /\ Len(stream) = 2 * (s.sent + 1 - n) /\ n <= s.sent + 1
  /\ \A j \in 0 .. s.sent - n :
       stream[2 * j + 1] = Body(HostPacket(s, n + j)) /\ stream[2 * j + 2] = Delim

LEMMA UnderwayRead ==
  ASSUME NEW s \in Seq(Token), NEW r \in Seq(Token), NEW d \in 1 .. Len(s), IsFirstDelim(s, d),
         IsTail(r, s, d), \A k \in 1 .. Len(r) : r[k] = s[k + d],
         NEW h \in Session, NEW n \in Nat, UnderwayIn(s, h, n)
  PROVE  /\ d = 2 /\ \A p \in NextPackets(s) : p = HostPacket(h, n)
         /\ UnderwayIn(r, h, n + 1)
<1> DEFINE t == h.sent
<1>1. /\ t \in Nat /\ Len(s) = 2 * (t + 1 - n) /\ n <= t + 1 /\ Len(s) \in Nat /\ Len(s) > 0
      /\ d \in Nat /\ Len(r) = Len(s) - d
  BY SessionTypes DEF UnderwayIn, IsTail
<1> HIDE DEF t
<1>2. n <= t /\ Len(s) >= 2 /\ 0 \in 0 .. t - n
  BY <1>1
<1>3. s[1] = Body(HostPacket(h, n)) /\ s[2] = Delim
  <2>1. 2 * 0 + 1 = 1 /\ 2 * 0 + 2 = 2 /\ n + 0 = n
    OBVIOUS
  <2>2. s[2 * 0 + 1] = Body(HostPacket(h, n + 0)) /\ s[2 * 0 + 2] = Delim
    BY <1>2 DEF UnderwayIn, t
  <2>3. QED
    BY <2>1, <2>2
<1>4. d = 2 /\ \A p \in NextPackets(s) : p = HostPacket(h, n)
  BY <1>2, <1>3, BodyFirst
<1>5. Len(r) = 2 * (t + 1 - (n + 1)) /\ n + 1 <= t + 1
  BY <1>1, <1>2, <1>4
<1>6. ASSUME NEW j \in 0 .. t - (n + 1)
      PROVE  r[2 * j + 1] = Body(HostPacket(h, (n + 1) + j)) /\ r[2 * j + 2] = Delim
  <2>1. j \in Nat /\ j + 1 \in 0 .. t - n
    BY <1>1, <1>2, <1>6
  <2>2. /\ 2 * (j + 1) + 1 = (2 * j + 1) + 2 /\ 2 * (j + 1) + 2 = (2 * j + 2) + 2
        /\ n + (j + 1) = (n + 1) + j
    BY <2>1, Shifted
  <2>3. 2 * j + 1 \in 1 .. Len(r) /\ 2 * j + 2 \in 1 .. Len(r)
    BY <1>1, <1>2, <1>5, <1>6, <2>1
  <2>4. r[2 * j + 1] = s[(2 * j + 1) + 2] /\ r[2 * j + 2] = s[(2 * j + 2) + 2]
    BY <1>4, <2>3
  <2>5. s[2 * (j + 1) + 1] = Body(HostPacket(h, n + (j + 1))) /\ s[2 * (j + 1) + 2] = Delim
    BY <2>1 DEF UnderwayIn, t
  <2>6. QED
    BY <2>2, <2>4, <2>5
<1>7. QED
  BY <1>4, <1>5, <1>6 DEF UnderwayIn, t

ArkTakes == ArkReads \/ \E ok \in BOOLEAN : ArkSendHello(ok)

LEMMA HelloStaysOnCourse ==
  ASSUME TypeOK, ArkTakes, HelloOnCourse
  PROVE  HelloOnCourse'
<1>1. h2a' \in Seq(Token)
  BY ArkFrameRead DEF ArkTakes
<1>2. PICK d \in 1 .. Len(h2a) :
        /\ IsFirstDelim(h2a, d) /\ IsTail(h2a', h2a, d)
        /\ \A k \in 1 .. Len(h2a') : h2a'[k] = h2a[k + d]
  BY ArkFrameRead DEF ArkTakes
<1>3. d = 1 => arkPc' = "hello"
  BY <1>2, EmptyHeard DEF ArkTakes
<1>4. /\ Len(h2a) \in Nat /\ Len(h2a') \in Nat /\ Len(h2a') = Len(h2a) - d
      /\ (Len(h2a') + 1) + d = Len(h2a) + 1 /\ Len(h2a') + 1 \in 1 .. Len(h2a') + 1
  <2>1. Len(h2a) \in Nat /\ Len(h2a') \in Nat /\ Len(h2a') = Len(h2a) - d
    BY <1>1, <1>2, StateTypes DEF IsTail
  <2>2. QED
    BY <2>1
<1> DEFINE k == Len(h2a') + 1
<1>5. k \in 1 .. Len(h2a') + 1 /\ k + d = Len(h2a) + 1
  BY <1>4
<1>6. Heard(k + d)
  BY <1>5 DEF HelloOnCourse
<1>7. PICK l \in 1 .. Len(h2a') + 1 : l = k
  BY <1>5
<1>8. Heard(l)'
  BY <1>1, <1>2, <1>3, <1>6, <1>7, HeardPast
<1>9. QED
  BY <1>7, <1>8 DEF HelloOnCourse, Heard

LEMMA HelloReadNext ==
  ASSUME TypeOK, ArkTakes, UNCHANGED hostKey, HelloUnderWay
  PROVE  \/ HelloUnderWay'
         \/ /\ Len(h2a) = 2 /\ h2a' = <<>> /\ arkPc = "hello"
            /\ \A p \in NextPackets(h2a) : p = HostHello(hostKey)
            /\ ~ Glued(h2a)
<1>0. h2a \in Seq(Token) /\ Len(h2a) \in Nat
  BY StateTypes
<1>1. h2a' \in Seq(Token)
  BY ArkFrameRead DEF ArkTakes
<1>2. PICK d \in 1 .. Len(h2a) :
        /\ IsFirstDelim(h2a, d) /\ IsTail(h2a', h2a, d)
        /\ \A k \in 1 .. Len(h2a') : h2a'[k] = h2a[k + d]
  BY ArkFrameRead DEF ArkTakes
<1>3. d = 1 => arkPc' = "hello"
  BY <1>2, EmptyHeard DEF ArkTakes
<1>4. PICK k \in Nat : k = Len(h2a) - 1 /\ k > 0
  BY <1>0 DEF HelloUnderWay
<1>5. /\ h2a[k] = Body(HostHello(hostKey)) /\ h2a[k + 1] = Delim /\ Heard(k)
      /\ k > 1 => h2a[k - 1] = Delim
      /\ k = 1 => arkPc = "hello"
  BY <1>4 DEF HelloUnderWay, Heard
<1>6. Body(HostHello(hostKey)) # Delim
  BY DEF Body, Delim
<1>7. d # k /\ Len(h2a') = Len(h2a) - d /\ Len(h2a') \in Nat
  BY <1>0, <1>1, <1>2, <1>5, <1>6 DEF IsFirstDelim, IsTail
<1>8. CASE d < k
  <2>1. PICK l \in Nat : l = k - d /\ l > 0
    BY <1>8
  <2>2. /\ l + d = k /\ (l + 1) + d = k + 1 /\ l = Len(h2a') - 1
        /\ l \in 1 .. Len(h2a') /\ l + 1 \in 1 .. Len(h2a') /\ l \in 1 .. Len(h2a') + 1
    BY <1>0, <1>4, <1>7, <2>1
  <2>3. h2a'[l] = h2a[l + d] /\ h2a'[l + 1] = h2a[(l + 1) + d]
    BY <1>2, <2>2
  <2>4. h2a'[l] = Body(HostHello(hostKey')) /\ h2a'[l + 1] = Delim
    BY <1>5, <2>2, <2>3
  <2>5. Heard(l + d)
    BY <1>5, <2>2
  <2>6. Heard(l)'
    BY <1>1, <1>2, <1>3, <2>2, <2>5, HeardPast
  <2>7. HelloUnderWay'
    BY <2>1, <2>2, <2>4, <2>6 DEF HelloUnderWay, Heard
  <2>8. QED
    BY <2>7
<1>9. CASE d = k + 1
  <2>1. ~ k > 1
    <3>1. k > 1 => k - 1 \in 1 .. d - 1
      BY <1>9
    <3>2. QED
      BY <1>2, <1>5, <3>1 DEF IsFirstDelim
  <2>2. k = 1 /\ d = 2 /\ Len(h2a) = 2 /\ Len(h2a') = 0
    BY <1>0, <1>4, <1>7, <1>9, <2>1
  <2>3. h2a' = <<>>
    BY <1>1, <2>2
  <2>4. \A p \in NextPackets(h2a) : p = HostHello(hostKey)
    <3>1. h2a[1] = Body(HostHello(hostKey)) /\ h2a[2] = Delim
      BY <1>5, <2>2
    <3>2. QED
      BY <1>0, <1>2, <2>2, <3>1, BodyFirst
  <2>5. ~ Glued(h2a)
    BY <1>0, <1>2, <2>2, FirstFrame
  <2>6. QED
    BY <1>5, <2>2, <2>3, <2>4, <2>5
<1>10. QED
  BY <1>0, <1>4, <1>7, <1>8, <1>9

LEMMA SessionRead ==
  ASSUME WireInv, AnswerLast, ArkReads, UNCHANGED hostVars, hostSession # NoSession, SessionOnCourse
  PROVE  SessionOnCourse'
<1>0. TypeOK
  BY DEF WireInv
<1> USE StateTypes
<1>1. h2a' \in Seq(Token) /\ h2a \in Seq(Token) /\ UNCHANGED hostSession /\ hostSession \in Session
  BY <1>0, ArkFrameRead DEF hostVars
<1>2. PICK d \in 1 .. Len(h2a) :
        /\ IsFirstDelim(h2a, d) /\ IsTail(h2a', h2a, d)
        /\ \A k \in 1 .. Len(h2a') : h2a'[k] = h2a[k + d]
  BY <1>0, ArkFrameRead
<1>3. /\ hostSession.host = arkHost /\ hostSession.ark = arkKey /\ hostSession.host > 0
      /\ hostSession.host \in Nat /\ hostSession.ark \in Nat
      /\ arkSession # NoSession =>
           arkSession.host = hostSession.host /\ arkSession.ark = hostSession.ark /\ arkPc = "serve"
  BY <1>0, SameKeys, SessionTypes DEF AnswerLast
<1>4. CASE arkSession # NoSession /\ Underway(hostSession, arkSession.got + 1)
  <2>1. PICK n \in Nat : n = arkSession.got + 1
    BY <1>0, SessionTypes
  <2>2. n # 0 /\ n - 1 = arkSession.got /\ arkSession.got \in Nat
    <3>1. arkSession.got \in Nat
      BY <1>0, SessionTypes
    <3>2. QED
      BY <2>1, <3>1
  <2>3. UnderwayIn(h2a, hostSession, n)
    BY <1>4, <2>1 DEF Underway, UnderwayIn
  <2>4. /\ d = 2 /\ \A p \in NextPackets(h2a) : p = HostPacket(hostSession, n)
        /\ UnderwayIn(h2a', hostSession, n + 1)
    BY <1>1, <1>2, <2>3, UnderwayRead
  <2>5. HostPacket(hostSession, n) = Message(arkSession.host, arkSession.ark, arkSession.got)
    BY <1>3, <1>4, <2>2 DEF HostPacket
  <2>6. /\ \A p \in NextPackets(h2a) : p.type = "message" /\ p # Empty /\ ArkOpens(p)
        /\ ~ Glued(h2a)
    BY <1>1, <1>2, <2>4, <2>5, FirstFrame, PacketTypesWritten, SpecialTypes DEF ArkOpens
  <2>7. ArkNextMessage
    BY <1>3, <1>4, <2>6 DEF ArkReads, ArkReset, ArkStartOver, ArkEstablish, ArkHandshakeFails, ArkDiscards
  <2>8. arkSession' = [arkSession EXCEPT !.got = @ + 1]
    BY <1>4, <2>6, <2>7 DEF ArkNextMessage
  <2>9. arkSession'.got = n /\ arkSession'.host = arkSession.host
    BY <1>0, <2>1, <2>8 DEF Session
  <2>10. arkSession' # NoSession
    BY <1>3, <1>4, <2>9, SessionFields
  <2>11. Underway(hostSession, arkSession.got + 1)'
    BY <1>1, <2>4, <2>9 DEF Underway, UnderwayIn, HostPacket
  <2>12. QED
    BY <2>10, <2>11 DEF SessionOnCourse
<1>5. CASE arkPc = "ack" /\ Underway(hostSession, 0)
  <2>1. UnderwayIn(h2a, hostSession, 0)
    BY <1>5 DEF Underway, UnderwayIn
  <2>2. /\ \A p \in NextPackets(h2a) : p = HostPacket(hostSession, 0)
        /\ UnderwayIn(h2a', hostSession, 0 + 1) /\ d = 2
    BY <1>1, <1>2, <2>1, UnderwayRead
  <2>3. HostPacket(hostSession, 0) = HostAck(arkHost, arkKey)
    BY <1>3 DEF HostPacket
  <2>4. /\ \A p \in NextPackets(h2a) : p = HostAck(arkHost, arkKey) /\ p # Empty
        /\ ~ Glued(h2a)
    BY <1>1, <1>2, <2>2, <2>3, FirstFrame, PacketTypesWritten, SpecialTypes
  <2>5. ArkEstablish
    BY <1>5, <2>4 DEF ArkReads, ArkReset, ArkNextMessage, ArkStartOver, ArkHandshakeFails, ArkDiscards
  <2>6. arkSession' = NewSession(arkHost, arkKey)
    BY <2>5 DEF ArkEstablish
  <2>7. arkSession'.got = 0 /\ arkSession'.host = arkHost
    BY <2>6 DEF NewSession
  <2>8. arkSession' # NoSession
    BY <1>3, <2>7, SessionFields
  <2>9. Underway(hostSession, arkSession.got + 1)'
    BY <1>1, <2>2, <2>7 DEF Underway, UnderwayIn, HostPacket
  <2>10. QED
    BY <2>8, <2>9 DEF SessionOnCourse
<1>6. QED
  BY <1>4, <1>5 DEF SessionOnCourse

LEMMA ArkReadsOnCourse ==
  ASSUME WireInv, AnswerLast, ArkReads, UNCHANGED hostVars
  PROVE  StaysOnCourse
<1>0. TypeOK /\ UNCHANGED <<hostKey, hostSession>>
  BY DEF WireInv, hostVars
<1>1. ASSUME HelloOnCourse PROVE HelloOnCourse'
  BY <1>0, <1>1, HelloStaysOnCourse DEF ArkTakes
<1>2. ASSUME HelloUnderWay PROVE HelloUnderWay'
  <2>1. CASE /\ arkPc = "hello" /\ \A p \in NextPackets(h2a) : p = HostHello(hostKey)
             /\ ~ Glued(h2a)
    <3>1. HostHello(hostKey).type = "hello" /\ HostHello(hostKey) # Empty
      BY PacketTypesWritten, SpecialTypes
    <3>2. FALSE
      BY <2>1, <3>1 DEF ArkReads, ArkReset, ArkNextMessage, ArkStartOver, ArkEstablish, ArkHandshakeFails,
         ArkDiscards
    <3>3. QED
      BY <3>2
  <2>2. QED
    BY <1>0, <1>2, <2>1, HelloReadNext DEF ArkTakes
<1>3. ~ AnswerUnderWay
  <2>1. PICK d \in 1 .. Len(h2a) : TRUE
    BY <1>0, ArkFrameRead
  <2>2. h2a # <<>>
    BY <1>0, <2>1
  <2>3. QED
    BY <2>2 DEF AnswerUnderWay
<1>4. ASSUME hostSession # NoSession, SessionOnCourse PROVE SessionOnCourse'
  BY <1>4, SessionRead
<1>5. QED
  BY <1>1, <1>2, <1>3, <1>4 DEF StaysOnCourse, AttemptOnCourse

-----------------------------------------------------------------------------
(* What the steps of the Ark cost.                                         *)

Steady == Pieces' <= Pieces /\ Course' <= Course

Shaken ==
  \/ Pieces' <= Pieces /\ Course' <= Course + PerFault
  \/ Pieces' <= Pieces + 1 /\ Course' + MAX_STALE_FRAMES <= Course + PerFault

LEMMA ArkReadsCost ==
  ASSUME WireInv, Sound, Sound', AnswerLast, ArkReads, UNCHANGED hostVars
  PROVE  Steady
<1>1. AnswersKnown
  BY DEF WireInv
<1>2. Leftover' <= Leftover /\ Pieces' <= Pieces
  BY <1>1, ArkReadCounts, LeftoverMoves
<1>3. StaysOnCourse
  BY ArkReadsOnCourse
<1>4. UNCHANGED <<hostPc, stale, hostSession>>
  BY DEF hostVars
<1>5. Course' <= Course
  BY <1>2, <1>3, <1>4, CourseKept
<1>6. QED
  BY <1>2, <1>5 DEF Steady

LEMMA ArkSendHelloOnCourse ==
  ASSUME WireInv, RepliesAhead, HellosIn(h2a) # {}, ArkSendHello(TRUE), UNCHANGED hostVars
  PROVE  StaysOnCourse
<1>0. TypeOK /\ UNCHANGED <<hostKey, hostSession>> /\ ArkTakes
  BY DEF WireInv, hostVars, ArkTakes
<1>1. hostSession = NoSession
  BY DEF RepliesAhead
<1>2. HelloOnCourse => HelloOnCourse'
  BY <1>0, HelloStaysOnCourse
<1>3. ASSUME HelloUnderWay PROVE HelloUnderWay' \/ AnswerUnderWay'
  <2>1. CASE Len(h2a) = 2 /\ h2a' = <<>> /\ \A p \in NextPackets(h2a) : p = HostHello(hostKey)
    <3>1. PICK p \in NextPackets(h2a) :
            arkHost' = p.host /\ ArkWrites(SendPacket(ArkHello(p.host, arkKey'), TRUE))
      BY DEF ArkSendHello
    <3>2. p.host = hostKey /\ arkHost' = hostKey'
      BY <1>0, <2>1, <3>1, PacketTypesWritten
    <3> DEFINE q == ArkHello(hostKey', arkKey')
    <3>3. a2h' = a2h \o <<Body(q), Delim>>
      BY <1>0, <3>1, <3>2 DEF ArkWrites, SendPacket, Frame
    <3>4. q \in Packet
      <4>1. hostKey \in Nat /\ arkKey \in Nat
        BY <1>0, StateTypes
      <4>2. arkKey' \in Nat
        BY <4>1 DEF ArkSendHello
      <4>3. QED
        BY <1>0, <4>1, <4>2, PacketTypes
    <3> HIDE DEF q
    <3>5. <<Body(q), Delim>> \in Seq(Token) /\ a2h \in Seq(Token)
      <4>1. Body(q) \in Token /\ Delim \in Token
        BY <3>4, TokenTypes
      <4>2. a2h \in Seq(Token)
        BY <1>0, StateTypes
      <4>3. QED
        BY <4>1, <4>2
    <3>6. /\ Len(a2h') = Len(a2h) + 2 /\ Len(a2h) \in Nat
          /\ a2h'[Len(a2h) + 1] = Body(q) /\ a2h'[Len(a2h) + 2] = Delim
      BY <3>3, <3>5
    <3>7. PICK k \in Nat : k = Len(a2h') - 1 /\ k > 0 /\ a2h'[k] = Body(q) /\ a2h'[k + 1] = Delim
      <4>1. Len(a2h) + 1 = Len(a2h') - 1 /\ Len(a2h) + 1 > 0 /\ (Len(a2h) + 1) + 1 = Len(a2h) + 2
            /\ Len(a2h) + 1 \in Nat
        BY <3>6
      <4>2. QED
        BY <3>6, <4>1
    <3>8. arkPc' = "ack"
      BY DEF ArkSendHello
    <3>9. AnswerUnderWay'
      BY <2>1, <3>2, <3>7, <3>8 DEF AnswerUnderWay, q
    <3>10. QED
      BY <3>9
  <2>2. QED
    BY <1>0, <1>3, <2>1, HelloReadNext
<1>4. ~ AnswerUnderWay
  <2>1. h2a # <<>>
    BY DEF HellosIn
  <2>2. QED
    BY <2>1 DEF AnswerUnderWay
<1>5. QED
  BY <1>1, <1>2, <1>3, <1>4 DEF StaysOnCourse, AttemptOnCourse

LEMMA ArkSendMessageOnCourse ==
  ASSUME TypeOK, ArkSendMessage(TRUE), UNCHANGED hostVars
  PROVE  StaysOnCourse
<1>1. UNCHANGED <<h2a, hostKey, hostSession, arkPc>> /\ arkPc = "serve" /\ arkSession # NoSession
  BY DEF ArkSendMessage, hostVars
<1>2. arkSession' = [arkSession EXCEPT !.sent = @ + 1]
  BY DEF ArkSendMessage, AfterSend
<1>3. arkSession \in Session /\ arkSession.sent \in Nat
  BY StateTypes, SessionTypes
<1>4. arkSession'.got = arkSession.got /\ arkSession'.sent = arkSession.sent + 1
  BY <1>2, <1>3 DEF Session
<1>5. arkSession' # NoSession
  BY <1>3, <1>4 DEF NoSession, NewSession
<1>6. HelloOnCourse' = HelloOnCourse /\ HelloUnderWay' = HelloUnderWay
  BY <1>1 DEF HelloOnCourse, HelloUnderWay, Heard
<1>7. ~ AnswerUnderWay
  BY <1>1 DEF AnswerUnderWay
<1>8. SessionOnCourse => SessionOnCourse'
  BY <1>1, <1>4, <1>5 DEF SessionOnCourse, Underway
<1>9. QED
  BY <1>6, <1>7, <1>8 DEF StaysOnCourse, AttemptOnCourse

LEMMA ArkWritesCost ==
  ASSUME WireInv, Sound, Sound', AcksKnown, RepliesAhead, UNCHANGED hostVars,
         ArkSendHello(TRUE) \/ ArkSendMessage(TRUE)
  PROVE  Steady
<1>0. TypeOK /\ AnswersKnown /\ UNCHANGED <<hostPc, stale, hostSession>> /\ TRUE \in BOOLEAN
  BY DEF WireInv, hostVars
<1>1. StaysOnCourse
  BY <1>0, ArkSendHelloCounts, ArkSendHelloOnCourse, ArkSendMessageOnCourse
<1>2. Leftover' <= Leftover /\ Pieces' <= Pieces
  <2>1. CASE ArkSendHello(TRUE)
    <3>1. Written(TRUE) /\ Hellos' + 1 <= Hellos /\ RepliesLeft' <= RepliesLeft
      BY <1>0, <2>1, ArkSendHelloCounts
    <3>2. QED
      BY <1>0, <3>1, ArkWritesLeftover
  <2>2. CASE ArkSendMessage(TRUE)
    <3>1. Written(TRUE) /\ Hellos' <= Hellos /\ RepliesLeft' + 1 <= RepliesLeft
      BY <1>0, <2>2, ArkSendMessageCounts
    <3>2. QED
      BY <1>0, <3>1, ArkWritesLeftover
  <2>3. QED
    BY <2>1, <2>2
<1>3. Course' <= Course
  BY <1>0, <1>1, <1>2, CourseKept
<1>4. QED
  BY <1>2, <1>3 DEF Steady

LEMMA ArkFaultsCost ==
  ASSUME WireInv, Sound, Sound', AcksKnown, UNCHANGED hostVars,
         \/ ArkSendHello(FALSE) \/ ArkSendMessage(FALSE) \/ ArkReadFails \/ ArkRestart \/ Noise
  PROVE  Shaken
<1>0. AnswersKnown /\ UNCHANGED <<hostPc, hostSession>> /\ FALSE \in BOOLEAN
  BY DEF WireInv, hostVars
<1>1. CASE ArkReadFails \/ ArkRestart \/ Noise
  <2>1. Leftover' <= Leftover /\ Pieces' <= Pieces
    BY <1>0, <1>1, ArkDisturbedCounts, LeftoverMoves
  <2>2. Course' <= Course + PerFault
    BY <1>0, <2>1, CourseLost
  <2>3. QED
    BY <2>1, <2>2 DEF Shaken
<1>2. CASE ArkSendHello(FALSE) \/ ArkSendMessage(FALSE)
  <2>1. /\ Leftover' <= Leftover /\ Pieces' <= Pieces + 1
        /\ Pieces' <= Pieces \/ Leftover' + 1 <= Leftover
    <3>1. CASE ArkSendHello(FALSE)
      <4>1. Written(FALSE) /\ Hellos' + 1 <= Hellos /\ RepliesLeft' <= RepliesLeft
        BY <1>0, <3>1, ArkSendHelloCounts
      <4>2. QED
        BY <1>0, <4>1, ArkWritesLeftover
    <3>2. CASE ArkSendMessage(FALSE)
      <4>1. Written(FALSE) /\ Hellos' <= Hellos /\ RepliesLeft' + 1 <= RepliesLeft
        BY <1>0, <3>2, ArkSendMessageCounts
      <4>2. QED
        BY <1>0, <4>1, ArkWritesLeftover
    <3>3. QED
      BY <1>2, <3>1, <3>2
  <2>2. /\ Course' <= Course + PerFault
        /\ Leftover' + 1 <= Leftover => Course' + MAX_STALE_FRAMES <= Course + PerFault
    BY <1>0, <2>1, CourseLost
  <2>3. QED
    BY <2>1, <2>2 DEF Shaken
<1>3. QED
  BY <1>1, <1>2

-----------------------------------------------------------------------------
(* What the steps of the host cost: those that begin, end or fail an       *)
(* attempt or a session.                                                   *)

LEMMA HelloAfterReset ==
  ASSUME TypeOK, HostReset(TRUE)
  PROVE  HelloOnCourse'
<1>1. h2a \in Seq(Token) /\ Len(h2a) \in Nat
  BY StateTypes
<1>2. h2a' = h2a \o <<Delim, Delim>>
  BY DEF HostReset, HostWrites, SendReset, Reset
<1>3. <<Delim, Delim>> \in Seq(Token)
  BY TokenTypes
<1>4. Len(h2a') = Len(h2a) + 2 /\ h2a'[Len(h2a) + 1] = Delim /\ h2a'[Len(h2a) + 2] = Delim
  BY <1>1, <1>2, <1>3
<1>5. PICK k \in Nat : k = Len(h2a') + 1 /\ k - 2 = Len(h2a) + 1 /\ k - 1 = Len(h2a) + 2 /\ k # 1
  <2>1. Len(h2a') + 1 \in Nat /\ (Len(h2a') + 1) - 2 = Len(h2a) + 1 /\ (Len(h2a') + 1) - 1 = Len(h2a) + 2
        /\ Len(h2a') + 1 # 1
    BY <1>1, <1>4
  <2>2. QED
    BY <2>1
<1>6. QED
  BY <1>4, <1>5 DEF HelloOnCourse, Heard

LEMMA HostResetCost ==
  ASSUME WireInv, Sound, Sound', RepliesAhead, UNCHANGED arkVars, NEW ok \in BOOLEAN, HostReset(ok)
  PROVE  /\ hostKey' = hostKey + 1 /\ Pieces' <= Pieces
         /\ Course' + MAX_STALE_FRAMES <= Course + PerFault
         /\ ok /\ hostSession = NoSession => Course' + MAX_STALE_FRAMES <= Course
<1>0. TypeOK
  BY DEF WireInv
<1>1. Pieces' <= Pieces /\ Leftover' <= Leftover
  BY HostResetCounts, LeftoverMoves
<1>2. hostKey' = hostKey + 1 /\ hostSession' = NoSession /\ hostPc = "idle"
  BY DEF HostReset
<1>3. hostSession = NoSession \/ Leftover' <= MaxReplies
  BY <1>1, LeftoverFits DEF RepliesAhead
<1>4. CASE ~ ok
  <2>1. hostPc' = "idle"
    BY <1>4 DEF HostReset, HandshakeReturns
  <2>2. QED
    BY <1>1, <1>2, <1>3, <1>4, <2>1, CourseEnded
<1>5. CASE ok
  <2>1. hostPc' = "hello" /\ ok = TRUE
    BY <1>5 DEF HostReset
  <2>2. HelloOnCourse'
    BY <1>0, <2>1, HelloAfterReset
  <2> DEFINE S == MAX_STALE_FRAMES R == MaxReplies F == PerFault
             l == Leftover m == Leftover' c == Course d == Course'
  <2>3. /\ Bounds /\ Bounds' /\ S \in Nat /\ R \in Nat /\ F = 2 * S + R
        /\ l \in Nat /\ m \in Nat /\ c \in Nat /\ d \in Nat
    BY CostTypes
  <2>4. d = m
    BY <1>2, <2>1, <2>2, <2>3 DEF Bounds
  <2>5. hostSession = NoSession => c = S + l
    BY <1>2, <2>3 DEF Bounds
  <2>6. m <= l /\ (hostSession = NoSession \/ m <= R)
    BY <1>1, <1>3
  <2>7. SUFFICES d + S <= c + F /\ (hostSession = NoSession => d + S <= c)
    BY <1>1, <1>2
  <2> HIDE DEF S, R, F, l, m, c, d
  <2>8. QED
    BY <2>3, <2>4, <2>5, <2>6
<1>6. QED
  BY <1>4, <1>5

LEMMA HelloWritten ==
  ASSUME TypeOK, UNCHANGED arkVars, HostSendHello(TRUE), HelloOnCourse
  PROVE  HelloUnderWay'
<1>1. h2a \in Seq(Token) /\ Len(h2a) \in Nat /\ hostKey \in Nat
  BY StateTypes
<1> DEFINE p == HostHello(hostKey)
<1>2. h2a' = h2a \o <<Body(p), Delim>>
  BY DEF HostSendHello, HostWrites, SendPacket, Frame
<1>3. <<Body(p), Delim>> \in Seq(Token)
  BY <1>1, TokenTypes, PacketTypes
<1>4. UNCHANGED <<hostKey>> /\ Heard(Len(h2a) + 1)
  BY DEF HostSendHello, HelloOnCourse
<1>5. p = HostHello(hostKey)
  OBVIOUS
<1> HIDE DEF p
<1>6. /\ Len(h2a') = Len(h2a) + 2 /\ h2a'[Len(h2a) + 1] = Body(p) /\ h2a'[Len(h2a) + 2] = Delim
      /\ \A j \in 1 .. Len(h2a) : h2a'[j] = h2a[j]
  BY <1>1, <1>2, <1>3
<1>7. PICK k \in Nat : k = Len(h2a') - 1 /\ k = Len(h2a) + 1 /\ k + 1 = Len(h2a) + 2 /\ k > 0
  <2>1. /\ Len(h2a) + 1 = Len(h2a') - 1 /\ Len(h2a) + 1 > 0 /\ (Len(h2a) + 1) + 1 = Len(h2a) + 2
        /\ Len(h2a) + 1 \in Nat
    BY <1>1, <1>6
  <2>2. QED
    BY <2>1
<1>8. /\ k > 2 => h2a'[k - 2] = Delim
      /\ k > 1 => h2a'[k - 1] = Delim
  <2>1. k > 2 => k - 2 \in 1 .. Len(h2a)
    BY <1>1, <1>7
  <2>2. k > 1 => k - 1 \in 1 .. Len(h2a)
    BY <1>1, <1>7
  <2>3. (k > 2 => h2a[k - 2] = Delim) /\ (k > 1 => h2a[k - 1] = Delim)
    BY <1>4, <1>7 DEF Heard
  <2>4. QED
    BY <1>6, <2>1, <2>2, <2>3
<1>9. k = 1 => arkPc = "hello"
  BY <1>4, <1>7 DEF Heard
<1>10. QED
  <2>1. k = 1 => arkPc' = "hello"
    BY <1>9 DEF arkVars
  <2>2. QED
    BY <1>4, <1>5, <1>6, <1>7, <1>8, <2>1 DEF HelloUnderWay, Heard

LEMMA HostSendHelloCost ==
  ASSUME WireInv, Sound, Sound', UNCHANGED arkVars, HostSendHello(TRUE)
  PROVE  Steady
<1>0. TypeOK /\ AnswersKnown /\ TRUE \in BOOLEAN
  BY DEF WireInv
<1>1. /\ hostPc = "hello" /\ hostPc' = "ack" /\ hostSession = NoSession /\ hostSession' = NoSession
      /\ stale' = 0
  BY <1>0 DEF HostSendHello, AnswersKnown, Sound
<1>2. Pieces' <= Pieces /\ Leftover' <= Leftover + 1
  BY <1>0, HostSendHelloCounts, LeftoverMoves
<1> DEFINE S == MAX_STALE_FRAMES l == Leftover m == Leftover' c == Course d == Course' e == stale'
<1>3. /\ Bounds /\ Bounds' /\ S \in Nat /\ l \in Nat /\ m \in Nat /\ c \in Nat /\ d \in Nat
  BY CostTypes
<1>4. d <= S + m /\ (AttemptOnCourse' => d + 1 = e + m)
  BY <1>1, <1>3 DEF Bounds
<1>5. IF HelloOnCourse THEN c = l ELSE c = S + l + 1
  BY <1>1, <1>3 DEF Bounds
<1>6. HelloOnCourse => AttemptOnCourse'
  BY <1>0, HelloWritten DEF AttemptOnCourse
<1>7. m <= l + 1 /\ e = 0
  BY <1>1, <1>2
<1>8. SUFFICES d <= c
  BY <1>2 DEF Steady
<1> HIDE DEF S, l, m, c, d, e
<1>9. QED
  BY <1>3, <1>4, <1>5, <1>6, <1>7

LEMMA SessionOpened ==
  ASSUME WireInv, Sound, UNCHANGED arkVars, HostSendAck(TRUE), AttemptOnCourse
  PROVE  SessionOnCourse'
<1>0. TypeOK /\ AnswersKnown /\ HellosInOrder /\ TRUE \in BOOLEAN
  BY DEF WireInv
<1> USE StateTypes
<1>1. PICK p \in NextPackets(a2h) :
        /\ p.type = "arkhello" /\ p.host = hostKey /\ p.ark \in Nat /\ Answered(p.host, p.ark)
        /\ hostSession' = NewSession(p.host, p.ark)
        /\ \E t \in SendPacket(HostAck(p.host, p.ark), TRUE) : h2a' = h2a \o t
  BY <1>0, HostSendAckCounts
<1>2. hostKey <= arkHost
  BY <1>1 DEF Answered
<1>3. ~ HelloUnderWay
  <2>1. SUFFICES ASSUME HelloUnderWay PROVE FALSE
    OBVIOUS
  <2>2. PICK k \in DOMAIN h2a : h2a[k] = Body(HostHello(hostKey))
    <3>1. Len(h2a) - 1 \in DOMAIN h2a
      BY <1>0, <2>1 DEF HelloUnderWay
    <3>2. QED
      BY <2>1, <3>1 DEF HelloUnderWay
  <2>3. h2a[k].packet.type = "hello" /\ h2a[k].packet.host = hostKey
    BY <2>2, PacketTypesWritten DEF Body
  <2>4. arkHost < hostKey
    BY <1>0, <2>3 DEF HellosInOrder
  <2>5. arkHost \in Nat /\ hostKey \in Nat
    BY <1>0
  <2>6. QED
    BY <1>2, <2>4, <2>5
<1>4. h2a = <<>> /\ arkPc = "ack"
  BY <1>3 DEF AttemptOnCourse, AnswerUnderWay
<1>5. h2a' = <<Body(HostAck(p.host, p.ark)), Delim>>
  <2>1. HostAck(p.host, p.ark) \in Packet
    BY <1>0, <1>1, PacketTypes
  <2>2. <<Body(HostAck(p.host, p.ark)), Delim>> \in Seq(Token)
    BY <2>1, TokenTypes
  <2>3. h2a' = <<>> \o <<Body(HostAck(p.host, p.ark)), Delim>>
    BY <1>1, <1>4 DEF SendPacket, Frame
  <2>4. QED
    BY <2>2, <2>3
<1>6. /\ hostSession'.host = p.host /\ hostSession'.ark = p.ark /\ hostSession'.sent = 0
      /\ HostPacket(hostSession', 0) = HostAck(p.host, p.ark)
  BY <1>1 DEF NewSession, HostPacket
<1>7. UnderwayIn(h2a', hostSession', 0)
  <2>1. Len(h2a') = 2 * (0 + 1 - 0) /\ 0 <= 0 + 1
    BY <1>5
  <2>2. ASSUME NEW j \in 0 .. 0 - 0
        PROVE  /\ h2a'[2 * j + 1] = Body(HostPacket(hostSession', 0 + j))
               /\ h2a'[2 * j + 2] = Delim
    <3>1. j = 0 /\ 2 * 0 + 1 = 1 /\ 2 * 0 + 2 = 2 /\ 0 + 0 = 0
      BY <2>2
    <3>2. h2a'[1] = Body(HostPacket(hostSession', 0)) /\ h2a'[2] = Delim
      BY <1>5, <1>6
    <3>3. QED
      BY <3>1, <3>2
  <2>3. QED
    BY <1>6, <2>1, <2>2 DEF UnderwayIn
<1>8. arkPc' = "ack"
  BY <1>4 DEF arkVars
<1>9. Underway(hostSession, 0)'
  BY <1>7 DEF Underway, UnderwayIn, HostPacket
<1>10. QED
  BY <1>8, <1>9 DEF SessionOnCourse

LEMMA HostSendAckCost ==
  ASSUME WireInv, Sound, Sound', AnswerLast, UNCHANGED arkVars, HostSendAck(TRUE)
  PROVE  Steady
<1>0. TypeOK /\ AnswersKnown /\ TRUE \in BOOLEAN
  BY DEF WireInv
<1>1. hostPc = "ack" /\ hostSession = NoSession /\ hostKey > 0
  BY <1>0 DEF HostSendAck, AnswersKnown, AnswerLast
<1>2. Pieces' <= Pieces
  BY <1>0, HostReadCounts
<1>3. hostSession' # NoSession
  <2>1. PICK p \in NextPackets(a2h) : p.host = hostKey /\ hostSession' = NewSession(p.host, p.ark)
    BY <1>0, HostSendAckCounts
  <2>2. hostSession'.host = hostKey
    BY <2>1 DEF NewSession
  <2>3. hostKey \in Nat
    BY <1>0, StateTypes
  <2>4. QED
    BY <1>1, <2>2, <2>3, SessionFields
<1> DEFINE S == MAX_STALE_FRAMES l == Leftover c == Course d == Course'
<1>4. /\ Bounds /\ Bounds' /\ S \in Nat /\ l \in Nat /\ c \in Nat /\ d \in Nat
  BY CostTypes
<1>5. d <= S /\ (SessionOnCourse' => d = 0)
  BY <1>3, <1>4 DEF Bounds
<1>6. ~ AttemptOnCourse => c = S + l
  BY <1>1, <1>4 DEF Bounds
<1>7. AttemptOnCourse => SessionOnCourse'
  BY SessionOpened
<1>8. SUFFICES d <= c
  BY <1>2 DEF Steady
<1> HIDE DEF S, l, c, d
<1>9. QED
  BY <1>4, <1>5, <1>6, <1>7

LEMMA PiecesMore ==
  ASSUME Sound, Sound', Pieces' <= Pieces
  PROVE  Pieces' <= Pieces + 1
<1>1. PICK g \in Nat : g = Pieces
  BY CountsAreTyped DEF Counted
<1>2. PICK h \in Nat : h = Pieces'
  BY CountsStayTyped DEF Counted
<1>3. h <= g + 1
  <2>1. h <= g
    BY <1>1, <1>2
  <2>2. QED
    BY <2>1
<1>4. QED
  BY <1>1, <1>2, <1>3

(* A failed write, a read that gives up and a new process.                 *)
LEMMA HostFailsCost ==
  ASSUME WireInv, Sound, Sound', RepliesAhead, UNCHANGED arkVars,
         \/ HostSendHello(FALSE) \/ HostSendAck(FALSE) \/ HostSendMessage(FALSE)
         \/ HostReadFails \/ HostRestart
  PROVE  Shaken /\ hostKey' = hostKey
<1>0. TypeOK /\ AnswersKnown /\ FALSE \in BOOLEAN
  BY DEF WireInv
<1>1. hostKey' = hostKey /\ hostPc' = "idle" /\ hostSession' = NoSession
  <2>1. hostPc = "hello" => hostSession = NoSession
    BY <1>0 DEF AnswersKnown
  <2>2. QED
    BY <2>1 DEF HostSendHello, HostSendAck, HostSendMessage, HostReadFails, HostRestart,
       HandshakeReturns, AfterSend
<1>2. CASE HostSendHello(FALSE)
  <2>1. Pieces' <= Pieces /\ Leftover' <= Leftover + 1
    BY <1>0, <1>2, HostSendHelloCounts, LeftoverMoves
  <2>2. hostSession = NoSession
    BY <1>0, <1>2 DEF HostSendHello, AnswersKnown
  <2>3. Course' <= Course + PerFault
    BY <1>1, <2>1, <2>2, CourseEnded
  <2>4. QED
    BY <1>1, <2>1, <2>3 DEF Shaken
<1>3. CASE HostSendAck(FALSE)
  <2>1. Pieces' <= Pieces /\ Frames' + 1 <= Frames
    BY <1>0, <1>3, HostReadCounts
  <2>2. Leftover' + 1 <= Leftover + MaxReplies
    BY <1>0, <1>3, <2>1, HostSendAckCounts, LeftoverMoves
  <2>3. hostSession = NoSession /\ hostPc = "ack"
    BY <1>0, <1>3 DEF HostSendAck, AnswersKnown
  <2>4. Course' <= Course + PerFault
    BY <1>1, <2>2, <2>3, CourseEnded
  <2>5. QED
    BY <1>1, <2>1, <2>4 DEF Shaken
<1>4. CASE HostSendMessage(FALSE)
  <2>1. Pieces' <= Pieces /\ Leftover' <= Leftover
    BY <1>0, <1>4, HostSendMessageCounts, LeftoverMoves
  <2>2. Leftover' <= MaxReplies
    BY <1>4, <2>1, LeftoverFits DEF HostSendMessage, RepliesAhead
  <2>3. Course' + MAX_STALE_FRAMES <= Course + PerFault
    BY <1>1, <2>2, CourseEnded
  <2>4. Pieces' <= Pieces + 1
    BY <2>1, PiecesMore
  <2>5. QED
    BY <1>1, <2>3, <2>4 DEF Shaken
<1>5. CASE HostReadFails \/ HostRestart
  <2>1. Pieces' <= Pieces + 1 /\ Frames' <= Frames
    <3>1. CASE HostReadFails
      <4>1. a2h' = a2h
        BY <3>1 DEF HostReadFails
      <4>2. Pieces' = Pieces /\ Frames' = Frames
        BY <4>1 DEF Pieces, Frames
      <4>3. Pieces \in Nat /\ Frames \in Nat
        BY CountsAreTyped DEF Counted, Frames
      <4>4. QED
        BY <4>2, <4>3
    <3>2. CASE HostRestart
      <4>1. a2h' \in Remains(a2h) /\ a2h \in Seq(Token)
        BY <1>0, <3>2, StateTypes DEF HostRestart
      <4>2. QED
        BY <4>1, FramesRemain DEF Pieces, Frames
    <3>3. QED
      BY <1>5, <3>1, <3>2
  <2>2. Leftover' <= Leftover
    BY <1>5, <2>1, HostReadLeaves, LeftoverMoves
  <2>3. hostSession = NoSession \/ Leftover' <= MaxReplies
    BY <2>2, LeftoverFits DEF RepliesAhead
  <2>4. Course' + MAX_STALE_FRAMES <= Course + PerFault
    BY <1>1, <2>2, <2>3, CourseEnded
  <2>5. QED
    BY <1>1, <2>1, <2>4 DEF Shaken
<1>6. QED
  BY <1>2, <1>3, <1>4, <1>5

-----------------------------------------------------------------------------
(* What the steps of the host cost: those that read.                       *)

Spent == Pieces' + 1 <= Pieces /\ Course' <= Course + MAX_STALE_FRAMES

LEMMA LeftoverLess ==
  ASSUME Sound, Sound', Leftover' + 1 <= Leftover
  PROVE  Leftover' <= Leftover
<1>1. PICK l \in Nat : l = Leftover
  BY CountsAreTyped DEF Counted
<1>2. PICK m \in Nat : m = Leftover'
  BY CountsStayTyped DEF Counted
<1>3. m + 1 <= l
  BY <1>1, <1>2
<1>4. m <= l
  BY <1>3
<1>5. QED
  BY <1>1, <1>2, <1>4

LEMMA AttemptContinues ==
  ASSUME Sound, Sound', hostPc = "ack", hostPc' = "ack", UNCHANGED hostSession,
         hostSession = NoSession, Leftover' + 1 <= Leftover
  PROVE  Course' <= Course + MAX_STALE_FRAMES
<1> DEFINE S == MAX_STALE_FRAMES l == Leftover m == Leftover' c == Course d == Course'
<1>1. /\ Bounds /\ Bounds' /\ S \in Nat /\ l \in Nat /\ m \in Nat /\ c \in Nat /\ d \in Nat
  BY CostTypes
<1>2. d <= S + m /\ l <= c + 1
  BY <1>1 DEF Bounds
<1>3. m + 1 <= l
  OBVIOUS
<1>4. SUFFICES d <= c + S
  OBVIOUS
<1> HIDE DEF S, l, m, c, d
<1>5. QED
  BY <1>1, <1>2, <1>3

(* What spoils the frame read pays for what the attempt loses.             *)
LEMMA SpoiledRead ==
  ASSUME WireInv, Sound, Sound', HostReads, UNCHANGED arkVars,
         hostPc = "ack", hostPc' \in {"idle", "ack"}, UNCHANGED hostSession,
         NEW d \in 1 .. Len(a2h), Spoiled(a2h, d)
  PROVE  Spent
<1>0. TypeOK /\ AnswersKnown
  BY DEF WireInv
<1>1. hostSession = NoSession
  BY <1>0 DEF AnswersKnown
<1>2. Pieces' + 1 <= Pieces /\ Frames' + 1 <= Frames
  BY <1>0, HostReadCounts
<1>3. Leftover' + 1 <= Leftover
  BY <1>2, HostReadLeaves, LeftoverMoves
<1>4. Course' <= Course + MAX_STALE_FRAMES
  BY <1>1, <1>3, AttemptContinues, CourseEnded
<1>5. QED
  BY <1>2, <1>4 DEF Spent

LEMMA HostAbortCost ==
  ASSUME WireInv, Sound, Sound', AnswerLast, HostAbort, UNCHANGED arkVars
  PROVE  Spent
<1>0. TypeOK /\ HostReads
  BY DEF WireInv, HostReads
<1> USE StateTypes
<1>1. PICK d \in 1 .. Len(a2h) : IsFirstDelim(a2h, d)
  BY <1>0, HostFrameRead
<1>2. Undecodable \in Decodings(a2h, d)
  BY <1>0, <1>1, FirstFrame DEF HostAbort
<1>3. Spoiled(a2h, d)
  <2>1. Undecodable # Empty
    BY SpecialTypes
  <2>2. d # 1
    BY <1>2, <2>1 DEF Decodings
  <2>3. a2h[1].kind = "body" => a2h[1].packet # Undecodable
    <3>1. 1 \in DOMAIN a2h
      BY <1>0
    <3>2. QED
      BY <3>1, SpecialTypes DEF AnswerLast
  <2>4. QED
    BY <1>1, <1>2, <2>2, <2>3 DEF Spoiled, Decodings
<1>4. hostPc = "ack" /\ hostPc' = "idle" /\ hostSession' = hostSession
  BY DEF HostAbort, HandshakeReturns
<1>5. QED
  BY <1>0, <1>3, <1>4, SpoiledRead

LEMMA HostDiscardsCost ==
  ASSUME WireInv, Sound, Sound', RepliesAhead, HostDiscards, UNCHANGED arkVars
  PROVE  Steady \/ Spent
<1>0. TypeOK /\ HostReads /\ UNCHANGED <<hostPc, hostSession>>
  BY DEF WireInv, HostReads, HostDiscards, hostVars
<1> USE StateTypes
<1>1. PICK d \in 1 .. Len(a2h) : IsFirstDelim(a2h, d)
  BY <1>0, HostFrameRead
<1>2. d > 2
  BY <1>0, <1>1, FirstFrame DEF HostDiscards
<1>3. hostSession = NoSession
  <2>1. hostSession # NoSession => d = 2
    BY <1>0, <1>1, ReplyNext DEF RepliesAhead
  <2>2. QED
    BY <1>2, <2>1
<1>4. CASE hostPc = "ack"
  <2>1. Spoiled(a2h, d)
    BY <1>1, <1>2 DEF Spoiled
  <2>2. QED
    BY <1>0, <1>4, <2>1, SpoiledRead
<1>5. CASE hostPc = "idle"
  <2>1. Pieces' <= Pieces /\ Frames' + 1 <= Frames
    BY <1>0, HostReadCounts
  <2>2. Leftover' <= Leftover
    BY <1>0, <2>1, HostReadLeaves, LeftoverMoves, LeftoverLess
  <2>3. Course' <= Course
    BY <1>0, <1>3, <1>5, <2>2, CourseEnded
  <2>4. QED
    BY <2>1, <2>3 DEF Steady
<1>6. QED
  BY <1>4, <1>5 DEF HostDiscards

(* A frame that is skipped is not the answer.                              *)
LEMMA AttemptGoesOn ==
  ASSUME TypeOK, HostSkipStale, UNCHANGED arkVars, AttemptOnCourse,
         NEW d \in 1 .. Len(a2h), IsFirstDelim(a2h, d), ~ Spoiled(a2h, d)
  PROVE  AttemptOnCourse'
<1> USE StateTypes
<1>0. HostReads /\ UNCHANGED <<h2a, hostKey, arkKey, arkPc, arkHost>>
  BY DEF HostReads, HostSkipStale, arkVars
<1>1. CASE HelloUnderWay
  BY <1>0, <1>1 DEF AttemptOnCourse, HelloUnderWay, Heard
<1>2. CASE AnswerUnderWay
  <2>0. Len(a2h) \in Nat
    BY StateTypes
  <2>1. PICK k \in Nat : k = Len(a2h) - 1 /\ k > 0
    <3>1. Len(a2h) - 1 > 0
      BY <1>2 DEF AnswerUnderWay
    <3>2. Len(a2h) - 1 \in Nat
      BY <2>0, <3>1
    <3>3. QED
      BY <3>1, <3>2
  <2>2. /\ a2h[k] = Body(ArkHello(hostKey, arkKey)) /\ a2h[k + 1] = Delim
        /\ h2a = <<>> /\ arkPc = "ack" /\ arkHost = hostKey
    BY <1>2, <2>1 DEF AnswerUnderWay
  <2>3. Body(ArkHello(hostKey, arkKey)) # Delim
    BY DEF Body, Delim
  <2>4. PICK e \in 1 .. Len(a2h) :
          /\ IsFirstDelim(a2h, e) /\ IsTail(a2h', a2h, e)
          /\ \A j \in 1 .. Len(a2h') : a2h'[j] = a2h[j + e]
    BY <1>0, HostFrameRead
  <2>5. e = d
    <3>1. a2h[e] = Delim /\ a2h[d] = Delim
      BY <2>4 DEF IsFirstDelim
    <3>2. e \notin 1 .. d - 1 /\ d \notin 1 .. e - 1
      BY <2>4, <3>1 DEF IsFirstDelim
    <3>3. QED
      BY <3>2
  <2>6. a2h' \in Seq(Token) /\ Len(a2h') \in Nat /\ Len(a2h') = Len(a2h) - d
    BY <1>0, <2>4, <2>5, HostFrameRead DEF IsTail
  <2>7. d # k
    BY <2>2, <2>3 DEF IsFirstDelim
  <2>8. d # k + 1
    <3>1. SUFFICES ASSUME d = k + 1 PROVE FALSE
      OBVIOUS
    <3>2. d = 2 /\ k = 1 /\ a2h[1].kind = "body"
      BY <2>1, <3>1 DEF Spoiled
    <3>3. a2h[1] = Body(ArkHello(hostKey, arkKey)) /\ a2h[2] = Delim /\ 2 <= Len(a2h)
      <4>1. k + 1 = 2
        BY <3>2
      <4>2. QED
        BY <2>2, <3>2, <4>1
    <3>4. \A p \in NextPackets(a2h) : p = ArkHello(hostKey, arkKey)
      BY <3>3, BodyFirst
    <3>5. \A p \in NextPackets(a2h) : IsAnswer(p)
      BY <3>4, PacketTypesWritten DEF IsAnswer
    <3>6. QED
      BY <3>5 DEF HostSkipStale
  <2>9. d < k /\ d \in Nat /\ Len(a2h) \in Nat
    <3>1. d \in Nat /\ d <= k + 1
      BY <2>0, <2>1
    <3>2. QED
      BY <2>0, <2>7, <2>8, <3>1
  <2>10. PICK l \in Nat : l = k - d
    BY <2>9
  <2>11. /\ l > 0 /\ l + d = k /\ (l + 1) + d = k + 1 /\ l = Len(a2h') - 1
         /\ l \in 1 .. Len(a2h') /\ l + 1 \in 1 .. Len(a2h')
    BY <2>1, <2>6, <2>9, <2>10
  <2>12. a2h'[l] = a2h[l + d] /\ a2h'[l + 1] = a2h[(l + 1) + d]
    BY <2>4, <2>5, <2>11
  <2>13. a2h'[l] = Body(ArkHello(hostKey', arkKey')) /\ a2h'[l + 1] = Delim
    BY <1>0, <2>2, <2>11, <2>12
  <2>14. AnswerUnderWay'
    BY <1>0, <2>2, <2>11, <2>13 DEF AnswerUnderWay
  <2>15. QED
    BY <2>14 DEF AttemptOnCourse
<1>3. QED
  BY <1>1, <1>2 DEF AttemptOnCourse

LEMMA HostSkipStaleCost ==
  ASSUME WireInv, Sound, Sound', HostSkipStale, UNCHANGED arkVars
  PROVE  Steady \/ Spent
<1>0. TypeOK /\ AnswersKnown /\ HostReads /\ UNCHANGED hostSession /\ hostPc = "ack"
  BY DEF WireInv, HostReads, HostSkipStale
<1>1. PICK d \in 1 .. Len(a2h) : IsFirstDelim(a2h, d)
  BY <1>0, HostFrameRead
<1>2. hostPc' \in {"idle", "ack"} /\ hostSession = NoSession
  BY <1>0 DEF HostSkipStale, HandshakeReturns, AnswersKnown
<1>3. CASE Spoiled(a2h, d)
  BY <1>0, <1>2, <1>3, SpoiledRead
<1>4. CASE ~ Spoiled(a2h, d)
  <2>1. AttemptOnCourse => AttemptOnCourse'
    BY <1>0, <1>1, <1>4, AttemptGoesOn
  <2>2. Pieces' <= Pieces /\ Frames' + 1 <= Frames
    BY <1>0, HostReadCounts
  <2>3. Leftover' + 1 <= Leftover
    BY <1>0, <2>2, HostReadLeaves, LeftoverMoves
  <2> DEFINE S == MAX_STALE_FRAMES l == Leftover m == Leftover' c == Course b == Course'
             e == stale f == stale'
  <2>4. /\ Bounds /\ Bounds' /\ S \in Nat /\ l \in Nat /\ m \in Nat /\ c \in Nat /\ b \in Nat
        /\ e \in Nat /\ e <= S /\ f \in Nat
    BY CostTypes
  <2>5. IF AttemptOnCourse THEN c + 1 = e + l ELSE c = S + l
    BY <1>0, <1>2, <2>4 DEF Bounds
  <2>6. \/ e + 1 > S /\ hostPc' = "idle"
        \/ f = e + 1 /\ hostPc' = "ack"
    BY <1>0 DEF HostSkipStale, TooManyStale, HandshakeReturns
  <2>7. hostPc' = "idle" => b = S + m
    BY <1>0, <1>2, <2>4 DEF Bounds
  <2>8. hostPc' = "ack" => b <= S + m /\ (AttemptOnCourse' => b + 1 = f + m)
    BY <1>0, <1>2, <2>4 DEF Bounds
  <2>9. m + 1 <= l
    BY <2>3
  <2>10. SUFFICES b <= c
    BY <2>2 DEF Steady
  <2> HIDE DEF S, l, m, c, b, e, f
  <2>11. CASE e + 1 > S /\ hostPc' = "idle"
    BY <2>4, <2>5, <2>7, <2>9, <2>11
  <2>12. CASE f = e + 1 /\ hostPc' = "ack"
    BY <2>1, <2>4, <2>5, <2>8, <2>9, <2>12
  <2>13. QED
    BY <2>6, <2>11, <2>12
<1>5. QED
  BY <1>3, <1>4

LEMMA UnderwayWritten ==
  ASSUME NEW s \in Seq(Token), NEW h \in Session, NEW i \in Session, NEW n \in Nat,
         UnderwayIn(s, h, n),
         i.host = h.host, i.ark = h.ark, i.sent = h.sent + 1
  PROVE  UnderwayIn(s \o Frame(Message(h.host, h.ark, h.sent)), i, n)
<1> DEFINE t == h.sent p == Message(h.host, h.ark, h.sent) r == s \o Frame(p) l == Len(s)
<1>1. /\ t \in Nat /\ l = 2 * (t + 1 - n) /\ n <= t + 1 /\ l \in Nat
      /\ h.host \in Nat /\ h.ark \in Nat
  BY SessionTypes DEF UnderwayIn
<1>2. <<Body(p), Delim>> \in Seq(Token) /\ Frame(p) = <<Body(p), Delim>>
  BY <1>1, PacketTypes, TokenTypes DEF Frame
<1>3. \A m \in Nat : HostPacket(i, m) = HostPacket(h, m)
  BY DEF HostPacket
<1>4. p = HostPacket(h, t + 1)
  BY <1>1 DEF HostPacket
<1>5. r = s \o <<Body(p), Delim>>
  BY <1>2
<1> HIDE DEF p, r, l
<1>6. /\ Len(r) = l + 2 /\ \A k \in 1 .. l : r[k] = s[k]
      /\ r[l + 1] = Body(p) /\ r[l + 2] = Delim
  BY <1>2, <1>5 DEF l
<1>7. \A j \in 0 .. t - n :
        s[2 * j + 1] = Body(HostPacket(h, n + j)) /\ s[2 * j + 2] = Delim
  BY DEF UnderwayIn
<1> HIDE DEF t
<1>8. Len(r) = 2 * ((t + 1) + 1 - n) /\ n <= (t + 1) + 1
  BY <1>1, <1>6
<1>9. ASSUME NEW j \in 0 .. (t + 1) - n
      PROVE  r[2 * j + 1] = Body(HostPacket(i, n + j)) /\ r[2 * j + 2] = Delim
  <2>0. j \in Nat /\ n + j \in Nat
    BY <1>1, <1>9
  <2>1. CASE j \in 0 .. t - n
    <3>1. 2 * j + 1 \in 1 .. l /\ 2 * j + 2 \in 1 .. l
      BY <1>1, <2>0, <2>1
    <3>2. r[2 * j + 1] = s[2 * j + 1] /\ r[2 * j + 2] = s[2 * j + 2]
      BY <1>6, <3>1
    <3>3. QED
      BY <1>3, <1>7, <2>0, <2>1, <3>2
  <2>2. CASE j \notin 0 .. t - n
    <3>1. j = (t + 1) - n
      BY <1>1, <1>9, <2>0, <2>2
    <3>2. n + j = t + 1 /\ 2 * j + 1 = l + 1 /\ 2 * j + 2 = l + 2
      BY <1>1, <2>0, <3>1
    <3>3. QED
      BY <1>3, <1>4, <1>6, <2>0, <3>2
  <2>3. QED
    BY <2>1, <2>2
<1>10. UnderwayIn(r, i, n)
  BY <1>8, <1>9 DEF UnderwayIn, t
<1>11. QED
  BY <1>10 DEF r, p

LEMMA HostSendMessageCost ==
  ASSUME WireInv, Sound, Sound', HostSendMessage(TRUE), UNCHANGED arkVars
  PROVE  Steady
<1>0. TypeOK /\ TRUE \in BOOLEAN
  BY DEF WireInv
<1> USE StateTypes
<1>1. /\ hostSession # NoSession /\ UNCHANGED <<a2h, hostPc, stale, arkPc, arkSession>>
      /\ h2a' = h2a \o Frame(Message(hostSession.host, hostSession.ark, hostSession.sent))
      /\ hostSession' = [hostSession EXCEPT !.sent = @ + 1]
  BY DEF HostSendMessage, AfterSend, HostWrites, SendPacket, arkVars
<1>2. /\ hostSession'.host = hostSession.host /\ hostSession'.ark = hostSession.ark
      /\ hostSession'.sent = hostSession.sent + 1 /\ hostSession' \in Session
      /\ hostSession.sent \in Nat
  BY <1>0, <1>1, SessionTypes DEF Session
<1>3. hostSession' # NoSession
  BY <1>2 DEF NoSession, NewSession
<1>4. ASSUME NEW n \in Nat, Underway(hostSession, n) PROVE UnderwayIn(h2a', hostSession', n)
  <2>1. UnderwayIn(h2a, hostSession, n) /\ hostSession \in Session /\ h2a \in Seq(Token)
    BY <1>0, <1>4 DEF Underway, UnderwayIn
  <2>2. QED
    BY <1>1, <1>2, <2>1, UnderwayWritten
<1>5. ASSUME SessionOnCourse PROVE SessionOnCourse'
  <2>1. CASE arkSession # NoSession /\ Underway(hostSession, arkSession.got + 1)
    <3>1. PICK n \in Nat : n = arkSession.got + 1
      BY <1>0, SessionTypes
    <3>2. UnderwayIn(h2a', hostSession', n)
      BY <1>4, <2>1, <3>1
    <3>3. n = arkSession'.got + 1 /\ arkSession' # NoSession
      BY <1>1, <2>1, <3>1
    <3>4. Underway(hostSession, arkSession.got + 1)'
      BY <3>2, <3>3 DEF Underway, UnderwayIn, HostPacket
    <3>5. QED
      BY <3>3, <3>4 DEF SessionOnCourse
  <2>2. CASE arkPc = "ack" /\ Underway(hostSession, 0)
    <3>1. UnderwayIn(h2a', hostSession', 0)
      BY <1>4, <2>2
    <3>2. Underway(hostSession, 0)'
      BY <3>1 DEF Underway, UnderwayIn, HostPacket
    <3>3. QED
      BY <1>1, <2>2, <3>2 DEF SessionOnCourse
  <2>3. QED
    BY <1>5, <2>1, <2>2 DEF SessionOnCourse
<1>6. StaysOnCourse
  BY <1>1, <1>5 DEF StaysOnCourse
<1>7. Pieces' <= Pieces /\ Leftover' <= Leftover
  BY <1>0, HostSendMessageCounts, LeftoverMoves
<1>8. Course' <= Course
  BY <1>1, <1>3, <1>6, <1>7, CourseKept
<1>9. QED
  BY <1>7, <1>8 DEF Steady

LEMMA HostNextMessageCost ==
  ASSUME WireInv, Sound, Sound', RepliesAhead, HostNextMessage, UNCHANGED arkVars
  PROVE  Steady
<1>0. TypeOK /\ HostReads /\ UNCHANGED <<hostPc, stale, h2a, arkPc, arkSession>> /\ hostPc = "idle"
  BY DEF WireInv, HostReads, HostNextMessage, arkVars
<1> USE StateTypes
<1>1. Pieces' <= Pieces /\ Frames' + 1 <= Frames
  BY <1>0, HostReadCounts
<1>2. Leftover' <= Leftover
  BY <1>0, <1>1, HostReadLeaves, LeftoverMoves, LeftoverLess
<1>3. CASE hostSession = NoSession
  <2>1. hostSession' = NoSession
    BY <1>3 DEF HostNextMessage
  <2>2. Course' <= Course
    BY <1>0, <1>2, <1>3, <2>1, CourseEnded
  <2>3. QED
    BY <1>1, <2>2 DEF Steady
<1>4. CASE hostSession # NoSession
  <2>1. hostSession' = [hostSession EXCEPT !.got = @ + 1]
    BY <1>0, <1>4, NextReplyOpened
  <2>2. /\ hostSession'.host = hostSession.host /\ hostSession'.ark = hostSession.ark
        /\ hostSession'.sent = hostSession.sent /\ hostSession'.got = hostSession.got + 1
        /\ hostSession.got \in Nat
    BY <1>0, <2>1, SessionTypes DEF Session
  <2>3. hostSession' # NoSession
    BY <2>2 DEF NoSession, NewSession
  <2>4. SessionOnCourse => SessionOnCourse'
    BY <1>0, <2>2 DEF SessionOnCourse, Underway, HostPacket
  <2>5. StaysOnCourse
    BY <1>4, <2>4 DEF StaysOnCourse
  <2>6. Course' <= Course
    BY <1>0, <1>2, <1>4, <2>3, <2>5, CourseKept
  <2>7. QED
    BY <1>1, <2>6 DEF Steady
<1>5. QED
  BY <1>3, <1>4

(* A host that gives up when nothing it waits for can come was off course. *)
LEMMA NothingLeft ==
  ASSUME WireInv, AcksKnown, RepliesAhead, Quiet, ~ InSession, hostSession # NoSession
  PROVE  ~ SessionOnCourse /\ Leftover = 0
<1>0. TypeOK
  BY DEF WireInv
<1> USE StateTypes
<1>1. arkSession = NoSession
  BY SameKeys DEF InSession, SameContexts
<1>2. \A k \in DOMAIN h2a : h2a[k] # Delim
  BY DEF Quiet, HasFrame
<1>3. \A k \in DOMAIN a2h : a2h[k] # Delim
  BY DEF Quiet, HasFrame
<1>4. ~ SessionOnCourse
  <2>1. SUFFICES ASSUME Underway(hostSession, 0) PROVE FALSE
    BY <1>1 DEF SessionOnCourse
  <2>2. hostSession.sent \in Nat
    BY <1>0, SessionTypes
  <2>3. 0 \in 0 .. hostSession.sent - 0 /\ 2 * 0 + 2 = 2
    BY <2>2
  <2>4. h2a[2] = Delim /\ Len(h2a) = 2 * (hostSession.sent + 1 - 0)
    BY <2>1, <2>3 DEF Underway
  <2>5. 2 \in DOMAIN h2a
    BY <1>0, <2>2, <2>4
  <2>6. QED
    BY <1>2, <2>4, <2>5
<1>5. RepliesLeft = 0
  <2>1. ~ AckIn(h2a, arkHost, arkKey)
    <3>1. SUFFICES ASSUME NEW k \in DOMAIN h2a, h2a[k].packet = HostAck(arkHost, arkKey) PROVE FALSE
      BY DEF AckIn
    <3>2. h2a[k].packet.type = "ack"
      BY <3>1, PacketTypesWritten
    <3>3. PICK l \in k + 1 .. Len(h2a) : h2a[l] = Delim
      BY <3>2 DEF AcksKnown
    <3>4. l \in DOMAIN h2a
      BY <1>0, <3>3
    <3>5. QED
      BY <1>2, <3>3, <3>4
  <2>2. QED
    BY <1>1, <2>1 DEF RepliesLeft
<1>6. FramesIn(a2h) = {} /\ HellosIn(h2a) = {}
  BY <1>3 DEF FramesIn, RepliesAhead
<1>7. Leftover = 0
  BY <1>5, <1>6, FS_EmptySet DEF Leftover
<1>8. QED
  BY <1>4, <1>7

LEMMA HostGivesUpCost ==
  ASSUME WireInv, Sound, Sound', AcksKnown, RepliesAhead, HostReadFails, Quiet, ~ InSession,
         UNCHANGED arkVars
  PROVE  Steady
<1>0. /\ TypeOK /\ AnswersKnown /\ UNCHANGED <<h2a, a2h>>
      /\ hostPc' = "idle" /\ hostSession' = NoSession /\ hostPc \in {"idle", "ack"}
  BY DEF WireInv, HostReadFails, HandshakeReturns
<1> USE StateTypes
<1>1. Leftover' = Leftover /\ Pieces' = Pieces /\ Leftover \in Nat /\ Pieces \in Nat
  <2>1. UNCHANGED <<arkPc, arkKey, arkHost, arkSession>>
    BY DEF arkVars
  <2>2. Leftover' = Leftover /\ Pieces' = Pieces
    BY <1>0, <2>1 DEF Leftover, RepliesLeft, Pieces
  <2>3. QED
    BY <2>2, CountsAreTyped DEF Counted
<1>2. CASE hostSession = NoSession /\ hostPc = "idle"
  <2>1. Leftover' <= Leftover
    BY <1>1
  <2>2. Course' <= Course
    BY <1>0, <1>2, <2>1, CourseEnded
  <2>3. QED
    BY <1>1, <2>2 DEF Steady
<1> DEFINE S == MAX_STALE_FRAMES l == Leftover m == Leftover' c == Course d == Course'
<1>3. /\ Bounds /\ Bounds' /\ S \in Nat /\ l \in Nat /\ m \in Nat /\ c \in Nat /\ d \in Nat
  BY CostTypes
<1>4. d = S + m
  BY <1>0, <1>3 DEF Bounds
<1>5. CASE hostPc = "ack"
  <2>1. ~ HelloUnderWay
    <3>1. SUFFICES ASSUME HelloUnderWay PROVE FALSE
      OBVIOUS
    <3>2. (Len(h2a) - 1) + 1 \in DOMAIN h2a
      BY <1>0, <3>1 DEF HelloUnderWay
    <3>3. QED
      BY <3>1, <3>2 DEF HelloUnderWay, Quiet, HasFrame
  <2>2. ~ AnswerUnderWay
    <3>1. SUFFICES ASSUME AnswerUnderWay PROVE FALSE
      OBVIOUS
    <3>2. (Len(a2h) - 1) + 1 \in DOMAIN a2h
      BY <1>0, <3>1 DEF AnswerUnderWay
    <3>3. QED
      BY <3>1, <3>2 DEF AnswerUnderWay, Quiet, HasFrame
  <2>3. hostSession = NoSession
    BY <1>0, <1>5 DEF AnswersKnown
  <2>4. c = S + l
    BY <1>3, <1>5, <2>1, <2>2, <2>3 DEF Bounds, AttemptOnCourse
  <2>5. m = l
    BY <1>1
  <2>6. SUFFICES d <= c
    BY <1>1 DEF Steady
  <2> HIDE DEF S, l, m, c, d
  <2>7. QED
    BY <1>3, <1>4, <2>4, <2>5
<1>6. CASE hostSession # NoSession
  <2>1. ~ SessionOnCourse /\ l = 0
    BY <1>6, NothingLeft
  <2>2. c = S
    BY <1>3, <1>6, <2>1 DEF Bounds
  <2>3. m = l
    BY <1>1
  <2>4. SUFFICES d <= c
    BY <1>1 DEF Steady
  <2> HIDE DEF S, l, m, c, d
  <2>5. QED
    BY <1>3, <1>4, <2>1, <2>2, <2>3
<1>7. QED
  BY <1>0, <1>2, <1>5, <1>6

-----------------------------------------------------------------------------
(* The account is kept by every step.                                      *)

LEMMA SteadyPays ==
  ASSUME Sound, Sound', Paid, Steady \/ Spent, UNCHANGED <<hostKey, faults>>
  PROVE  Paid'
BY PaidStep DEF Steady, Spent

LEMMA ShakenPays ==
  ASSUME Sound, Sound', Paid, Shaken, hostKey' = hostKey, faults' = faults + 1
  PROVE  Paid'
BY PaidStep DEF Shaken

LEMMA PaidKept ==
  ASSUME RecoveryInv, Sound, Sound', Next
  PROVE  Paid'
<1>0. WireInv /\ AcksKnown /\ AnswerLast /\ RepliesAhead /\ Paid /\ AnswersKnown
  BY DEF RecoveryInv, WireInv
<1>1. CASE HostStep
  <2>0. UNCHANGED arkVars /\ faults' = faults /\ TRUE \in BOOLEAN
    BY <1>1 DEF HostStep
  <2>1. CASE hostSession = NoSession /\ HostReset(TRUE)
    <3>1. hostKey' = hostKey + 1 /\ Pieces' <= Pieces /\ Course' + MAX_STALE_FRAMES <= Course
      BY <1>0, <2>0, <2>1, HostResetCost
    <3>2. QED
      BY <1>0, <2>0, <3>1, PaidStep
  <2>2. CASE HostSendHello(TRUE) \/ HostSendAck(TRUE) \/ HostSendMessage(TRUE)
    <3>1. hostKey' = hostKey
      BY <2>2 DEF HostSendHello, HostSendAck, HostSendMessage
    <3>2. QED
      BY <1>0, <2>0, <2>2, <3>1, HostSendHelloCost, HostSendAckCost, HostSendMessageCost, SteadyPays
  <2>3. CASE HostReject
    BY <2>3, RecoveryAssumption DEF HostReject
  <2>4. CASE HostSkipStale \/ HostAbort \/ HostNextMessage
    <3>1. hostKey' = hostKey
      BY <2>4 DEF HostSkipStale, HostAbort, HostNextMessage
    <3>2. QED
      BY <1>0, <2>0, <2>4, <3>1, HostSkipStaleCost, HostAbortCost, HostNextMessageCost, SteadyPays
  <2>5. CASE Quiet /\ ~ InSession /\ HostReadFails
    <3>1. hostKey' = hostKey
      BY <2>5 DEF HostReadFails
    <3>2. QED
      BY <1>0, <2>0, <2>5, <3>1, HostGivesUpCost, SteadyPays
  <2>6. QED
    BY <1>1, <2>1, <2>2, <2>3, <2>4, <2>5 DEF HostStep
<1>2. CASE ArkStep
  <2>0. UNCHANGED hostVars /\ faults' = faults /\ hostKey' = hostKey
    BY <1>2 DEF ArkStep, hostVars
  <2>1. ArkReads \/ ArkSendHello(TRUE) \/ ArkSendMessage(TRUE)
    BY <1>2 DEF ArkStep, ArkReads
  <2>2. Steady
    BY <1>0, <2>0, <2>1, ArkReadsCost, ArkWritesCost
  <2>3. QED
    BY <1>0, <2>0, <2>2, SteadyPays
<1>3. CASE Timeout \/ Torn \/ Reconnect \/ HostRestart \/ ArkRestart \/ Noise
  <2>0. faults' = faults + 1 /\ FALSE \in BOOLEAN /\ TRUE \in BOOLEAN
    BY <1>3 DEF Timeout, Torn, Reconnect, HostRestart, ArkRestart, Noise, Disturbed
  <2>1. \/ /\ UNCHANGED arkVars
           /\ \/ HostSendHello(FALSE) \/ HostSendAck(FALSE) \/ HostSendMessage(FALSE)
              \/ HostReadFails \/ HostRestart
        \/ UNCHANGED arkVars /\ (HostReset(FALSE) \/ HostReset(TRUE))
        \/ /\ UNCHANGED hostVars
           /\ \/ ArkSendHello(FALSE) \/ ArkSendMessage(FALSE) \/ ArkReadFails \/ ArkRestart \/ Noise
    <3>1. CASE Timeout
      BY <3>1 DEF Timeout
    <3>2. CASE Torn
      BY <3>2 DEF Torn
    <3>3. CASE Reconnect
      BY <3>3 DEF Reconnect
    <3>4. CASE HostRestart
      <4>1. UNCHANGED arkVars
        BY <3>4 DEF HostRestart
      <4>2. QED
        BY <3>4, <4>1
    <3>5. CASE ArkRestart \/ Noise
      <4>1. UNCHANGED hostVars
        BY <3>5 DEF ArkRestart, Noise
      <4>2. QED
        BY <3>5, <4>1
    <3>6. QED
      BY <1>3, <3>1, <3>2, <3>3, <3>4, <3>5
  <2>2. CASE /\ UNCHANGED arkVars
             /\ \/ HostSendHello(FALSE) \/ HostSendAck(FALSE) \/ HostSendMessage(FALSE)
                \/ HostReadFails \/ HostRestart
    BY <1>0, <2>0, <2>2, HostFailsCost, ShakenPays
  <2>3. CASE UNCHANGED arkVars /\ (HostReset(FALSE) \/ HostReset(TRUE))
    <3>1. /\ hostKey' = hostKey + 1 /\ Pieces' <= Pieces
          /\ Course' + MAX_STALE_FRAMES <= Course + PerFault
      BY <1>0, <2>0, <2>3, HostResetCost
    <3>2. QED
      BY <1>0, <2>0, <3>1, PaidStep
  <2>4. CASE /\ UNCHANGED hostVars
             /\ \/ ArkSendHello(FALSE) \/ ArkSendMessage(FALSE) \/ ArkReadFails \/ ArkRestart
                \/ Noise
    <3>1. Shaken /\ hostKey' = hostKey
      BY <1>0, <2>4, ArkFaultsCost DEF hostVars
    <3>2. QED
      BY <1>0, <2>0, <3>1, ShakenPays
  <2>5. QED
    BY <2>1, <2>2, <2>3, <2>4
<1>4. CASE Oversize
  <2>1. faults' = faults
    BY <1>4 DEF Oversize
  <2>2. CASE HostDiscards /\ UNCHANGED arkVars
    <3>1. hostKey' = hostKey
      BY <2>2 DEF HostDiscards, hostVars
    <3>2. QED
      BY <1>0, <2>1, <2>2, <3>1, HostDiscardsCost, SteadyPays
  <2>3. CASE ArkDiscards /\ UNCHANGED hostVars
    <3>1. hostKey' = hostKey /\ ArkReads
      BY <2>3 DEF hostVars, ArkReads
    <3>2. QED
      BY <1>0, <2>1, <2>3, <3>1, ArkReadsCost, SteadyPays
  <2>4. QED
    BY <1>4, <2>2, <2>3 DEF Oversize
<1>5. QED
  BY <1>1, <1>2, <1>3, <1>4 DEF Next

-----------------------------------------------------------------------------
LEMMA RecoveryInvInit == Init => RecoveryInv
<1> SUFFICES ASSUME Init PROVE RecoveryInv
  OBVIOUS
<1>1. /\ h2a = <<>> /\ a2h = <<>> /\ hostPc = "idle" /\ hostKey = 0 /\ stale = 0
      /\ hostSession = NoSession /\ arkSession = NoSession /\ arkPc = "serve" /\ faults = 0
  BY DEF Init, HostInit, ArkInit
<1>2. MAX_STALE_FRAMES \in Nat /\ MaxReplies \in Nat
  BY HostAssumption, ArkAssumption
<1>3. AcksKnown /\ AnswerLast
  BY <1>1 DEF AcksKnown, AnswerLast
<1>4. RepliesAhead
  BY <1>1, <1>2 DEF RepliesAhead, NoSession, NewSession
<1>5. Paid
  <2>1. FramesIn(a2h) = {} /\ HellosIn(h2a) = {} /\ PiecesIn(a2h) = {}
    BY <1>1 DEF FramesIn, HellosIn, PiecesIn
  <2>2. Cardinality({}) = 0
    BY FS_EmptySet
  <2>3. Leftover = 0
    <3>1. RepliesLeft = 0
      BY <1>1 DEF RepliesLeft
    <3>2. Cardinality(FramesIn(a2h)) = 0 /\ Cardinality(HellosIn(h2a)) = 0
      BY <2>1, <2>2
    <3>3. QED
      BY <3>1, <3>2 DEF Leftover
  <2>4. Course = MAX_STALE_FRAMES
    BY <1>1, <1>2, <2>3 DEF Course
  <2>5. PerFault \in Nat
    BY <1>2 DEF PerFault
  <2>6. MAX_STALE_FRAMES * 0 = 0 /\ PerFault * 0 = 0
    BY <1>2, <2>5
  <2>7. MAX_STALE_FRAMES * hostKey = 0 /\ PerFault * faults = 0 /\ Owed = MAX_STALE_FRAMES
    <3>1. Cardinality(PiecesIn(a2h)) = 0
      BY <2>1, <2>2
    <3>2. MAX_STALE_FRAMES * hostKey = 0 /\ PerFault * faults = 0
          /\ MAX_STALE_FRAMES * Cardinality(PiecesIn(a2h)) = 0
      BY <1>1, <2>6, <3>1
    <3>3. Owed = 0 + MAX_STALE_FRAMES
      BY <2>4, <3>2 DEF Owed
    <3>4. QED
      BY <1>2, <3>2, <3>3
  <2>8. QED
    BY <1>2, <2>7 DEF Paid
<1>6. QED
  BY <1>3, <1>4, <1>5, WireInvInit DEF RecoveryInv

LEMMA RecoveryInvStep == RecoveryInv /\ [Next]_vars => RecoveryInv'
<1> SUFFICES ASSUME RecoveryInv, [Next]_vars PROVE RecoveryInv'
  OBVIOUS
<1>1. WireInv /\ AcksKnown /\ AnswerLast /\ RepliesAhead /\ Paid
  BY DEF RecoveryInv
<1>2. WireInv'
  BY <1>1, WireInvStep
<1>3. CASE Next
  <2>1. AcksKnown'
    BY <1>1, <1>2, <1>3, AcksKnownStep
  <2>2. AnswerLast'
    BY <1>1, <1>3, AnswerLastStep
  <2>3. RepliesAhead'
    BY <1>1, <1>2, <1>3, <2>2, RepliesAheadStep
  <2>4. Sound /\ Sound'
    BY <1>1, <1>2, <1>3, <2>2, SoundStep
  <2>5. Paid'
    BY <1>3, <2>4, PaidKept
  <2>6. QED
    BY <1>2, <2>1, <2>2, <2>3, <2>5 DEF RecoveryInv
<1>4. CASE UNCHANGED vars
  <2>1. UNCHANGED <<h2a, a2h, hostPc, hostKey, stale, hostSession, arkPc, arkKey, arkHost, arkSession,
                    faults>>
    BY <1>4 DEF vars, hostVars, arkVars
  <2>2. AcksKnown' /\ AnswerLast'
    BY <1>1, <2>1 DEF AcksKnown, AnswerLast
  <2>3. Leftover' = Leftover
    BY <2>1 DEF Leftover, RepliesLeft
  <2>4. RepliesAhead'
    BY <1>1, <2>1, <2>3 DEF RepliesAhead, OnlyReplies
  <2>5. /\ SessionOnCourse' = SessionOnCourse /\ HelloOnCourse' = HelloOnCourse
        /\ AttemptOnCourse' = AttemptOnCourse
    BY <2>1 DEF SessionOnCourse, Underway, HostPacket, HelloOnCourse, AttemptOnCourse, HelloUnderWay,
       AnswerUnderWay, Heard
  <2>6. Course' = Course
    BY <2>1, <2>3, <2>5 DEF Course
  <2>7. Paid'
    BY <1>1, <2>1, <2>6 DEF Paid, Owed
  <2>8. QED
    BY <1>2, <2>2, <2>4, <2>7 DEF RecoveryInv
<1>5. QED
  BY <1>3, <1>4

(* What the host has tried, and what the leftovers on the wire may still   *)
(* cost it, is paid for by the disturbances: whatever they are, whatever   *)
(* the stale limit, the capacities and the number of messages.             *)
THEOREM RecoveryInvariant == Spec => []RecoveryInv
BY RecoveryInvInit, RecoveryInvStep, PTL DEF Spec

LEMMA RecoveryInvBounds ==
  ASSUME RecoveryInv
  PROVE  RecoveryBound /\ (faults = 0 => hostKey <= 1)
<1>1. Sound /\ Paid
  BY DEF RecoveryInv, WireInv, Sound, RepliesAhead, AnswerLast
<1>2. Counted /\ Bounds
  BY <1>1, CountsAreTyped, CourseBounds
<1> DEFINE a == MAX_STALE_FRAMES k == hostKey g == Pieces c == Course f == faults e == PerFault
           ak == a * k ag == a * g ef == e * f
<1>3. /\ a \in Nat /\ a > 0 /\ k \in Nat /\ g \in Nat /\ c \in Nat /\ f \in Nat /\ e \in Nat
  BY <1>2 DEF Counted, Bounds, PerFault
<1>4. ak + (ag + c) <= a + ef
  BY <1>1 DEF Paid, Owed, Pieces
<1>5. SUFFICES ak <= a + ef /\ (f = 0 => k <= 1)
  BY DEF RecoveryBound
<1> HIDE DEF a, k, g, c, f, e
<1>6. ak \in Nat /\ ag \in Nat /\ ef \in Nat
  BY <1>3, Product
<1>7. f = 0 => ef = 0
  BY <1>3
<1>8. k > 1 => a * 2 <= ak
  <2>1. 2 \in Nat /\ (k > 1 => 2 <= k)
    BY <1>3
  <2>2. QED
    BY <1>3, <2>1, Product
<1>9. a * 2 = a + a
  BY <1>3
<1> HIDE DEF ak, ag, ef
<1>10. ak <= a + ef
  BY <1>3, <1>4, <1>6
<1>11. f = 0 => k <= 1
  <2>1. SUFFICES ASSUME f = 0, k > 1 PROVE FALSE
    BY <1>3
  <2>2. ef = 0 /\ a + a <= ak
    BY <1>7, <1>8, <1>9, <2>1
  <2>3. ak <= a
    BY <1>3, <1>10, <2>2
  <2>4. QED
    BY <1>3, <1>6, <2>2, <2>3
<1>12. QED
  BY <1>10, <1>11

(* A disturbance costs the host a bounded number of handshakes.            *)
THEOREM DisturbancesCostBounded == Spec => []RecoveryBound
BY RecoveryInvariant, RecoveryInvBounds, PTL

(* A host that nothing disturbs never needs a second handshake.            *)
THEOREM UndisturbedTriesOnce == Spec => [](faults = 0 => hostKey <= 1)
BY RecoveryInvariant, RecoveryInvBounds, PTL
=============================================================================
