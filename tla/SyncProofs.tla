----------------------------- MODULE SyncProofs -----------------------------
(***************************************************************************)
(* Nothing is lost, repeated or reordered between two ends of one session: *)
(* what is on its way is what was sealed and not yet opened.  The wire     *)
(* therefore implements SecureLink.                                        *)
(***************************************************************************)
EXTENDS AgreementProofs, FiniteSetTheorems

-----------------------------------------------------------------------------
(* Messages of a session.                                                  *)

LEMMA MessageFields ==
  \A h, a, n : /\ Message(h, a, n).type = "message" /\ Message(h, a, n).host = h
               /\ Message(h, a, n).ark = a /\ Message(h, a, n).seq = n
BY DEF Message, Sealed

LEMMA SpecialNoMessage ==
  \A c : ~IsMessage(Delim, c) /\ ~IsMessage(Cut, c)
BY SpecialTypes DEF IsMessage

(* What is said of a session's messages depends on its contexts only.      *)
LEMMA SameMessages ==
  ASSUME NEW c, NEW e, SameContexts(c, e)
  PROVE  /\ \A t : IsMessage(t, c) <=> IsMessage(t, e)
         /\ \A s, f, g : Exactly(s, c, f, g) <=> Exactly(s, e, f, g)
         /\ \A s : Fenced(s, c) <=> Fenced(s, e)
<1>1. \A t : IsMessage(t, c) <=> IsMessage(t, e)
  BY DEF IsMessage, SameContexts
<1>2. \A s, f, g : Exactly(s, c, f, g) <=> Exactly(s, e, f, g)
  BY <1>1 DEF Exactly
<1>3. \A s : Fenced(s, c) <=> Fenced(s, e)
  BY <1>1 DEF Fenced
<1>4. QED
  BY <1>1, <1>2, <1>3

LEMMA NoneOnTheWay ==
  ASSUME NEW s, NEW c, NEW f \in Nat, \A k \in DOMAIN s : ~IsMessage(s[k], c)
  PROVE  Exactly(s, c, f, f)
BY DEF Exactly

(* What is read before the session's messages does not matter.             *)
LEMMA ExactlyBehind ==
  ASSUME NEW s \in Seq(Token), NEW r \in Seq(Token), NEW n \in 0 .. Len(s), Len(r) = Len(s) - n,
         \A k \in 1 .. Len(r) : r[k] = s[k + n],
         NEW c, \A k \in 1 .. n : ~IsMessage(s[k], c),
         NEW f \in Nat, NEW g \in Nat, Exactly(s, c, f, g)
  PROVE  Exactly(r, c, f, g)
<1>1. DOMAIN s = 1 .. Len(s) /\ DOMAIN r = 1 .. Len(r)
  OBVIOUS
<1>2. \A k \in 1 .. Len(r) : k + n \in 1 .. Len(s)
  OBVIOUS
<1>3. ASSUME NEW k \in 1 .. Len(r), IsMessage(r[k], c) PROVE r[k].packet.seq \in f .. g - 1
  BY <1>1, <1>2, <1>3 DEF Exactly
<1>4. ASSUME NEW k \in 1 .. Len(r), NEW l \in 1 .. Len(r), k < l,
             IsMessage(r[k], c), IsMessage(r[l], c)
      PROVE  r[k].packet.seq < r[l].packet.seq
  <2>1. k + n < l + n
    BY <1>4
  <2>2. IsMessage(s[k + n], c) /\ IsMessage(s[l + n], c)
    BY <1>4
  <2>3. s[k + n].packet.seq < s[l + n].packet.seq
    BY <1>1, <1>2, <2>1, <2>2 DEF Exactly
  <2>4. QED
    BY <2>3
<1>5. ASSUME NEW m \in f .. g - 1
      PROVE  \E k \in 1 .. Len(r) : IsMessage(r[k], c) /\ r[k].packet.seq = m
  <2>1. PICK k \in 1 .. Len(s) : IsMessage(s[k], c) /\ s[k].packet.seq = m
    BY <1>1 DEF Exactly
  <2>2. k \notin 1 .. n
    BY <2>1
  <2>3. k - n \in 1 .. Len(r) /\ (k - n) + n = k
    BY <2>2
  <2>4. r[k - n] = s[k]
    BY <2>3
  <2>5. QED
    BY <2>1, <2>3, <2>4
<1>6. f <= g
  BY DEF Exactly
<1>7. QED
  BY <1>1, <1>3, <1>4, <1>5, <1>6 DEF Exactly

(* The message that is expected is read.                                   *)
LEMMA ExactlyOpened ==
  ASSUME NEW s \in Seq(Token), NEW r \in Seq(Token), Len(s) >= 2, Len(r) = Len(s) - 2,
         \A k \in 1 .. Len(r) : r[k] = s[k + 2],
         NEW c, NEW f \in Nat, NEW g \in Nat, Exactly(s, c, f, g),
         s[1].packet = Message(c.host, c.ark, f), s[2] = Delim
  PROVE  Exactly(r, c, f + 1, g)
<1>1. DOMAIN s = 1 .. Len(s) /\ DOMAIN r = 1 .. Len(r) /\ 1 \in 1 .. Len(s)
  OBVIOUS
<1>2. IsMessage(s[1], c) /\ s[1].packet.seq = f /\ ~IsMessage(s[2], c)
  BY MessageFields, SpecialNoMessage DEF IsMessage, SameContexts
<1>3. f \in f .. g - 1
  BY <1>1, <1>2 DEF Exactly
<1>4. \A k \in 1 .. Len(r) : k + 2 \in 1 .. Len(s) /\ 1 < k + 2
  OBVIOUS
<1>5. ASSUME NEW k \in 1 .. Len(r), IsMessage(r[k], c) PROVE r[k].packet.seq \in f + 1 .. g - 1
  <2>1. IsMessage(s[k + 2], c)
    BY <1>5
  <2>2. s[k + 2].packet.seq \in f .. g - 1 /\ f < s[k + 2].packet.seq
    BY <1>1, <1>2, <1>4, <2>1 DEF Exactly
  <2>3. s[k + 2].packet.seq \in f + 1 .. g - 1
    BY <2>2
  <2>4. QED
    BY <2>3
<1>6. ASSUME NEW k \in 1 .. Len(r), NEW l \in 1 .. Len(r), k < l,
             IsMessage(r[k], c), IsMessage(r[l], c)
      PROVE  r[k].packet.seq < r[l].packet.seq
  <2>1. k + 2 < l + 2
    BY <1>6
  <2>2. IsMessage(s[k + 2], c) /\ IsMessage(s[l + 2], c)
    BY <1>6
  <2>3. s[k + 2].packet.seq < s[l + 2].packet.seq
    BY <1>1, <1>4, <2>1, <2>2 DEF Exactly
  <2>4. QED
    BY <2>3
<1>7. ASSUME NEW m \in f + 1 .. g - 1
      PROVE  \E k \in 1 .. Len(r) : IsMessage(r[k], c) /\ r[k].packet.seq = m
  <2>0. m \in f .. g - 1 /\ m # f
    OBVIOUS
  <2>1. PICK k \in 1 .. Len(s) : IsMessage(s[k], c) /\ s[k].packet.seq = m
    BY <1>1, <2>0 DEF Exactly
  <2>2. k # 1 /\ k # 2
    BY <1>2, <2>0, <2>1
  <2>3. k - 2 \in 1 .. Len(r) /\ (k - 2) + 2 = k
    BY <2>2
  <2>4. r[k - 2] = s[k]
    BY <2>3
  <2>5. QED
    BY <2>1, <2>3, <2>4
<1>8. f + 1 <= g
  BY <1>3
<1>9. QED
  BY <1>1, <1>5, <1>6, <1>7, <1>8 DEF Exactly

(* Something else is written.                                              *)
LEMMA ExactlyBefore ==
  ASSUME NEW s \in Seq(Token), NEW t \in Seq(Token), NEW c,
         \A k \in 1 .. Len(t) : ~IsMessage(t[k], c),
         NEW f \in Nat, NEW g \in Nat, Exactly(s, c, f, g)
  PROVE  Exactly(s \o t, c, f, g)
<1> DEFINE r == s \o t
<1>1. /\ r \in Seq(Token) /\ Len(r) = Len(s) + Len(t)
      /\ \A k \in 1 .. Len(s) : r[k] = s[k]
      /\ \A k \in Len(s) + 1 .. Len(s) + Len(t) : r[k] = t[k - Len(s)]
  BY Joined
<1> HIDE DEF r
<1>2. DOMAIN s = 1 .. Len(s) /\ DOMAIN r = 1 .. Len(r)
  BY <1>1
<1>3. ASSUME NEW k \in 1 .. Len(r), IsMessage(r[k], c)
      PROVE  k \in 1 .. Len(s) /\ r[k] = s[k]
  <2>1. k \notin 1 .. Len(s) => k - Len(s) \in 1 .. Len(t) /\ r[k] = t[k - Len(s)]
    BY <1>1
  <2>2. QED
    BY <1>1, <1>3, <2>1
<1>4. \A k \in 1 .. Len(s) : k \in 1 .. Len(r) /\ r[k] = s[k]
  BY <1>1
<1>5. Exactly(r, c, f, g)
  BY <1>2, <1>3, <1>4 DEF Exactly
<1>6. QED
  BY <1>5 DEF r

(* The next message of the session is written, first of all.               *)
LEMMA ExactlyGrows ==
  ASSUME NEW s \in Seq(Token), NEW c, NEW f \in Nat, NEW g \in Nat, Exactly(s, c, f, g),
         NEW t \in Seq(Token), Len(t) >= 1, t[1].packet = Message(c.host, c.ark, g),
         \A k \in 2 .. Len(t) : ~IsMessage(t[k], c)
  PROVE  Exactly(s \o t, c, f, g + 1)
<1> DEFINE r == s \o t
           n == Len(s)
           l == Len(t)
<1>2. /\ r \in Seq(Token) /\ Len(r) = n + l /\ n \in Nat /\ l \in Nat /\ l >= 1
      /\ \A k \in 1 .. n : r[k] = s[k]
      /\ \A k \in n + 1 .. n + l : r[k] = t[k - n]
  BY Joined
<1> HIDE DEF r
<1>2a. DOMAIN s = 1 .. n /\ DOMAIN r = 1 .. n + l
  BY <1>2
<1>3. r[n + 1] = t[1] /\ \A k \in n + 2 .. n + l : ~IsMessage(r[k], c)
  <2>1. n + 1 \in n + 1 .. n + l /\ (n + 1) - n = 1
    BY <1>2
  <2>2. ASSUME NEW k \in n + 2 .. n + l PROVE ~IsMessage(r[k], c)
    <3>1. k \in n + 1 .. n + l /\ k - n \in 2 .. l
      BY <1>2
    <3>2. QED
      BY <1>2, <3>1
  <2>3. QED
    BY <1>2, <2>1, <2>2
<1> HIDE DEF n, l
<1>4. IsMessage(r[n + 1], c) /\ r[n + 1].packet.seq = g
  BY <1>3, MessageFields DEF IsMessage, SameContexts
<1>5. ASSUME NEW k \in 1 .. n + l, IsMessage(r[k], c)
      PROVE  \/ k \in 1 .. n /\ IsMessage(s[k], c) /\ r[k] = s[k] /\ s[k].packet.seq \in f .. g - 1
             \/ k = n + 1
  <2>1. k \in 1 .. n \/ k = n + 1 \/ k \in n + 2 .. n + l
    BY <1>2
  <2>2. QED
    BY <1>2, <1>2a, <1>3, <1>5, <2>1 DEF Exactly
<1>6. f <= g
  BY DEF Exactly
<1>7. ASSUME NEW k \in 1 .. n + l, IsMessage(r[k], c) PROVE r[k].packet.seq \in f .. g
  BY <1>4, <1>5, <1>6, <1>7
<1>8. ASSUME NEW k \in 1 .. n + l, NEW j \in 1 .. n + l, k < j,
             IsMessage(r[k], c), IsMessage(r[j], c)
      PROVE  r[k].packet.seq < r[j].packet.seq
  <2>1. CASE j \in 1 .. n
    <3>1. k \in 1 .. n
      BY <1>2, <1>8, <2>1
    <3>2. IsMessage(s[k], c) /\ IsMessage(s[j], c)
      BY <1>2, <1>8, <2>1, <3>1
    <3>3. s[k].packet.seq < s[j].packet.seq
      BY <1>2a, <1>8, <2>1, <3>1, <3>2 DEF Exactly
    <3>4. QED
      BY <1>2, <2>1, <3>1, <3>3
  <2>2. CASE j = n + 1
    <3>1. k \in 1 .. n
      BY <1>2, <1>8, <2>2
    <3>2. r[k].packet.seq \in f .. g - 1
      BY <1>2, <1>5, <1>8, <3>1
    <3>3. QED
      BY <1>4, <2>2, <3>2
  <2>3. QED
    BY <1>5, <1>8, <2>1, <2>2
<1>9. ASSUME NEW i \in f .. g PROVE \E k \in 1 .. n + l : IsMessage(r[k], c) /\ r[k].packet.seq = i
  <2>1. CASE i = g
    <3>1. n + 1 \in 1 .. n + l
      BY <1>2
    <3>2. QED
      BY <1>4, <2>1, <3>1
  <2>2. CASE i # g
    <3>1. i \in f .. g - 1
      BY <2>2
    <3>2. PICK k \in 1 .. n : IsMessage(s[k], c) /\ s[k].packet.seq = i
      BY <1>2a, <3>1 DEF Exactly
    <3>3. k \in 1 .. n + l /\ r[k] = s[k]
      BY <1>2, <3>2
    <3>4. QED
      BY <3>2, <3>3
  <2>3. QED
    BY <2>1, <2>2
<1>10. (g + 1) - 1 = g /\ f <= g + 1
  BY <1>6
<1>11. Exactly(r, c, f, g + 1)
  BY <1>2a, <1>7, <1>8, <1>9, <1>10 DEF Exactly
<1>12. QED
  BY <1>11 DEF r

LEMMA ExactlySealed ==
  ASSUME NEW s \in Seq(Token), NEW c, NEW f \in Nat, NEW g \in Nat, Exactly(s, c, f, g),
         NEW m \in Packet, m = Message(c.host, c.ark, g)
  PROVE  Exactly(s \o Frame(m), c, f, g + 1)
<1> DEFINE t == Frame(m)
<1>1. t \in Seq(Token) /\ Len(t) = 2 /\ t[1] = Body(m) /\ t[2] = Delim
  BY TokenTypes DEF Frame
<1> HIDE DEF t
<1>2. t[1].packet = m /\ \A k \in 2 .. Len(t) : ~IsMessage(t[k], c)
  BY <1>1, SpecialNoMessage DEF Body
<1>3. Len(t) >= 1 /\ t[1].packet = Message(c.host, c.ark, g)
  BY <1>1, <1>2
<1>4. Exactly(s \o t, c, f, g + 1)
  BY <1>1, <1>2, <1>3, ExactlyGrows, Zenon
<1>5. QED
  BY <1>4 DEF t

-----------------------------------------------------------------------------
(* Messages in frames of their own.                                        *)

LEMMA CleanTail ==
  ASSUME NEW s \in Seq(Token), NEW r \in Seq(Token), NEW n \in 0 .. Len(s),
         IsTail(r, s, n), SameDelims(r, s, n), EndsClean(s)
  PROVE  EndsClean(r)
<1> SUFFICES ASSUME r # <<>> PROVE r[Len(r)] = Delim
  BY DEF EndsClean
<1>1. Len(r) \in 1 .. Len(r) /\ Len(r) + n = Len(s) /\ s # <<>>
  BY DEF IsTail
<1>2. s[Len(s)] = Delim
  BY <1>1 DEF EndsClean
<1>3. QED
  BY <1>1, <1>2 DEF SameDelims

LEMMA FencedTail ==
  ASSUME NEW s \in Seq(Token), NEW r \in Seq(Token), NEW n \in 0 .. Len(s),
         IsTail(r, s, n), SameDelims(r, s, n), NEW c, Fenced(s, c)
  PROVE  Fenced(r, c)
<1>1. EndsClean(r)
  BY CleanTail DEF Fenced
<1>2. DOMAIN s = 1 .. Len(s) /\ DOMAIN r = 1 .. Len(r) /\ Len(r) = Len(s) - n
  BY DEF IsTail
<1>3. ASSUME NEW k \in 1 .. Len(r), IsMessage(r[k], c)
      PROVE  /\ k = 1 \/ r[k - 1] = Delim
             /\ k < Len(r) /\ r[k + 1] = Delim
  <2>1. k + n \in 1 .. Len(s)
    BY <1>2
  <2>2. IsMessage(s[k + n], c)
    BY <1>3, SpecialNoMessage DEF IsTail
  <2>3. /\ k + n = 1 \/ s[k + n - 1] = Delim
        /\ k + n < Len(s) /\ s[k + n + 1] = Delim
    BY <1>2, <2>1, <2>2 DEF Fenced
  <2>4. k < Len(r) /\ k + 1 \in 1 .. Len(r) /\ (k + 1) + n = k + n + 1
    BY <1>2, <2>3
  <2>5. r[k + 1] = Delim
    BY <2>3, <2>4 DEF SameDelims
  <2>6. ASSUME k # 1 PROVE r[k - 1] = Delim
    <3>1. k - 1 \in 1 .. Len(r) /\ (k - 1) + n = k + n - 1 /\ k + n # 1
      BY <2>6
    <3>2. QED
      BY <2>3, <3>1 DEF SameDelims
  <2>7. QED
    BY <2>4, <2>5, <2>6
<1>4. QED
  BY <1>1, <1>2, <1>3 DEF Fenced

LEMMA CleanJoined ==
  ASSUME NEW s \in Seq(Token), NEW t \in Seq(Token), EndsClean(t), EndsClean(s) \/ t # <<>>
  PROVE  EndsClean(s \o t)
<1>1. CASE t = <<>>
  BY <1>1, NothingWritten
<1>2. CASE t # <<>>
  <2>1. Len(t) \in 1 .. Len(t) /\ t[Len(t)] = Delim
    BY <1>2 DEF EndsClean
  <2>2. /\ Len(s) + Len(t) \in Len(s) + 1 .. Len(s) + Len(t)
        /\ (Len(s) + Len(t)) - Len(s) = Len(t)
    BY <2>1
  <2>3. (s \o t)[Len(s) + Len(t)] = t[Len(t)] /\ Len(s \o t) = Len(s) + Len(t)
    BY <2>2, Joined
  <2>4. QED
    BY <2>1, <2>3 DEF EndsClean
<1>3. QED
  BY <1>1, <1>2

LEMMA FencedJoined ==
  ASSUME NEW s \in Seq(Token), NEW t \in Seq(Token), NEW c, Fenced(s, c), Fenced(t, c)
  PROVE  Fenced(s \o t, c)
<1> DEFINE r == s \o t
<1>1. /\ r \in Seq(Token) /\ Len(r) = Len(s) + Len(t)
      /\ \A k \in 1 .. Len(s) : r[k] = s[k]
      /\ \A k \in Len(s) + 1 .. Len(s) + Len(t) : r[k] = t[k - Len(s)]
  BY Joined
<1>2. EndsClean(r)
  BY CleanJoined DEF Fenced
<1> HIDE DEF r
<1>3. DOMAIN s = 1 .. Len(s) /\ DOMAIN t = 1 .. Len(t) /\ DOMAIN r = 1 .. Len(r)
  BY <1>1
<1>4. ASSUME NEW k \in 1 .. Len(r), IsMessage(r[k], c)
      PROVE  /\ k = 1 \/ r[k - 1] = Delim
             /\ k < Len(r) /\ r[k + 1] = Delim
  <2>1. CASE k \in 1 .. Len(s)
    <3>1. IsMessage(s[k], c)
      BY <1>1, <1>4, <2>1
    <3>2. /\ k = 1 \/ s[k - 1] = Delim
          /\ k < Len(s) /\ s[k + 1] = Delim
      BY <1>3, <2>1, <3>1 DEF Fenced
    <3>3. k + 1 \in 1 .. Len(s) /\ k < Len(r) /\ (k # 1 => k - 1 \in 1 .. Len(s))
      BY <1>1, <2>1, <3>2
    <3>4. QED
      BY <1>1, <3>2, <3>3
  <2>2. CASE k \notin 1 .. Len(s)
    <3>1. k \in Len(s) + 1 .. Len(s) + Len(t)
      BY <1>1, <2>2
    <3>2. PICK j \in 1 .. Len(t) : k = j + Len(s) /\ r[k] = t[j]
      <4>1. k - Len(s) \in 1 .. Len(t) /\ k = (k - Len(s)) + Len(s)
        BY <3>1
      <4>2. QED
        BY <1>1, <3>1, <4>1
    <3>3. /\ j = 1 \/ t[j - 1] = Delim
          /\ j < Len(t) /\ t[j + 1] = Delim
      BY <1>3, <1>4, <3>2 DEF Fenced
    <3>4. k < Len(r) /\ r[k + 1] = Delim
      <4>1. k + 1 \in Len(s) + 1 .. Len(s) + Len(t) /\ (k + 1) - Len(s) = j + 1 /\ k < Len(r)
        BY <1>1, <3>2, <3>3
      <4>2. QED
        BY <1>1, <3>3, <4>1
    <3>5. ASSUME j # 1 PROVE r[k - 1] = Delim
      <4>1. k - 1 \in Len(s) + 1 .. Len(s) + Len(t) /\ (k - 1) - Len(s) = j - 1
        BY <3>2, <3>5
      <4>2. QED
        BY <1>1, <3>3, <3>5, <4>1
    <3>6. ASSUME j = 1, k # 1 PROVE r[k - 1] = Delim
      <4>1. k - 1 = Len(s) /\ k - 1 \in 1 .. Len(s) /\ s # <<>>
        BY <3>2, <3>6
      <4>2. s[k - 1] = Delim
        BY <4>1 DEF Fenced, EndsClean
      <4>3. QED
        BY <1>1, <4>1, <4>2
    <3>7. QED
      BY <3>4, <3>5, <3>6
  <2>3. QED
    BY <2>1, <2>2
<1>5. Fenced(r, c)
  BY <1>2, <1>3, <1>4 DEF Fenced
<1>6. QED
  BY <1>5 DEF r

(* A frame that is written whole.                                          *)
LEMMA FrameFenced ==
  ASSUME NEW p \in Packet, NEW c
  PROVE  Frame(p) \in Seq(Token) /\ Frame(p) # <<>> /\ EndsClean(Frame(p)) /\ Fenced(Frame(p), c)
<1> DEFINE t == Frame(p)
<1>1. t \in Seq(Token) /\ Len(t) = 2 /\ t[2] = Delim /\ t # <<>>
  BY TokenTypes DEF Frame
<1> HIDE DEF t
<1>2. EndsClean(t)
  BY <1>1 DEF EndsClean
<1>3. ASSUME NEW k \in DOMAIN t, IsMessage(t[k], c)
      PROVE  k = 1 /\ k < Len(t) /\ t[k + 1] = Delim
  <2>1. k \in 1 .. 2
    BY <1>1
  <2>2. k # 2
    BY <1>1, <1>3, SpecialNoMessage
  <2>3. k = 1
    BY <2>1, <2>2
  <2>4. QED
    BY <1>1, <2>3
<1>4. Fenced(t, c)
  BY <1>2, <1>3 DEF Fenced
<1>5. QED
  BY <1>1, <1>2, <1>4 DEF t

(* What is glued together and read past holds no message in a frame of its *)
(* own.                                                                    *)
LEMMA FencedApart ==
  ASSUME NEW s \in Seq(Token), NEW c, Fenced(s, c)
  PROVE  Apart(s, c)
BY DEF Fenced, Apart

LEMMA GluedHoldsNone ==
  ASSUME NEW s \in Seq(Token), NEW c, Apart(s, c),
         NEW d \in 1 .. Len(s), IsFirstDelim(s, d), d > 2
  PROVE  \A k \in 1 .. d : ~IsMessage(s[k], c)
<1> SUFFICES ASSUME NEW k \in 1 .. d, IsMessage(s[k], c) PROVE FALSE
  OBVIOUS
<1>1. s[d] = Delim /\ \A j \in 1 .. d - 1 : s[j] # Delim
  BY DEF IsFirstDelim
<1>2. k # d
  BY <1>1, SpecialNoMessage
<1>3. k \in DOMAIN s /\ k # Len(s)
  BY <1>2
<1>4. (k = 1 \/ s[k - 1] = Delim) /\ s[k + 1] = Delim
  BY <1>3 DEF Apart
<1>5. k + 1 = d
  <2>1. k + 1 \notin 1 .. d - 1
    BY <1>1, <1>4
  <2>2. QED
    BY <1>2, <2>1
<1>6. k - 1 \in 1 .. d - 1 /\ k # 1
  BY <1>5
<1>7. QED
  BY <1>1, <1>4, <1>6

-----------------------------------------------------------------------------
(* Keys on their way.                                                      *)

LEMMA BelowTail ==
  ASSUME NEW s \in Seq(Token), NEW r \in Seq(Token), NEW n \in 0 .. Len(s), IsTail(r, s, n),
         NEW key
  PROVE  /\ HostsBelow(s, key) => HostsBelow(r, key)
         /\ ArksBelow(s, key) => ArksBelow(r, key)
<1>1. DOMAIN s = 1 .. Len(s) /\ DOMAIN r = 1 .. Len(r)
  OBVIOUS
<1>2. ASSUME NEW k \in 1 .. Len(r), r[k].packet.type \in {"ack", "message"}
      PROVE  k + n \in 1 .. Len(s) /\ r[k] = s[k + n]
  BY <1>2, SpecialTypes DEF IsTail
<1>3. QED
  BY <1>1, <1>2 DEF HostsBelow, ArksBelow

LEMMA BelowJoined ==
  ASSUME NEW s \in Seq(Token), NEW t \in Seq(Token), NEW key
  PROVE  /\ HostsBelow(s, key) /\ HostsBelow(t, key) => HostsBelow(s \o t, key)
         /\ ArksBelow(s, key) /\ ArksBelow(t, key) => ArksBelow(s \o t, key)
<1> DEFINE r == s \o t
<1>1. /\ r \in Seq(Token) /\ Len(r) = Len(s) + Len(t)
      /\ \A k \in 1 .. Len(s) : r[k] = s[k]
      /\ \A k \in Len(s) + 1 .. Len(s) + Len(t) : r[k] = t[k - Len(s)]
  BY Joined
<1> HIDE DEF r
<1>2. DOMAIN s = 1 .. Len(s) /\ DOMAIN t = 1 .. Len(t) /\ DOMAIN r = 1 .. Len(r)
  BY <1>1
<1>3. ASSUME NEW k \in 1 .. Len(r)
      PROVE  (k \in 1 .. Len(s) /\ r[k] = s[k]) \/ \E j \in 1 .. Len(t) : r[k] = t[j]
  <2>1. CASE k \in 1 .. Len(s)
    BY <1>1, <2>1
  <2>2. CASE k \notin 1 .. Len(s)
    <3>1. k \in Len(s) + 1 .. Len(s) + Len(t) /\ k - Len(s) \in 1 .. Len(t)
      BY <1>1, <2>2
    <3>2. QED
      BY <1>1, <3>1
  <2>3. QED
    BY <2>1, <2>2
<1>4. /\ HostsBelow(s, key) /\ HostsBelow(t, key) => HostsBelow(r, key)
      /\ ArksBelow(s, key) /\ ArksBelow(t, key) => ArksBelow(r, key)
  BY <1>2, <1>3 DEF HostsBelow, ArksBelow
<1>5. QED
  BY <1>4 DEF r

LEMMA BelowMore ==
  ASSUME NEW s \in Seq(Token), NEW key \in Nat, NEW more \in Nat, key <= more
  PROVE  /\ HostsBelow(s, key) => HostsBelow(s, more)
         /\ ArksBelow(s, key) => ArksBelow(s, more)
<1>1. ASSUME NEW k \in DOMAIN s PROVE s[k].packet.host \in Nat /\ s[k].packet.ark \in Nat
  <2>1. s[k] \in Token
    OBVIOUS
  <2>2. QED
    BY <2>1 DEF Token, Packet
<1>2. QED
  BY <1>1 DEF HostsBelow, ArksBelow

(* A write that says nothing of keys.                                      *)
LEMMA BelowSilent ==
  ASSUME NEW t \in Seq(Token), NEW key
  PROVE  /\ (\A k \in 1 .. Len(t) : t[k].packet.type \notin {"ack", "message"}) => HostsBelow(t, key)
         /\ (\A k \in 1 .. Len(t) : t[k].packet.type # "message") => ArksBelow(t, key)
<1>1. DOMAIN t = 1 .. Len(t)
  OBVIOUS
<1>2. QED
  BY <1>1 DEF HostsBelow, ArksBelow

(* No message of a session whose keys are not yet used.                    *)
LEMMA NotUsedNoMessage ==
  ASSUME NEW s, NEW c, c.host \in Nat, c.ark \in Nat,
         HostsBelow(s, c.host) \/ ArksBelow(s, c.ark)
  PROVE  \A k \in DOMAIN s : ~IsMessage(s[k], c)
BY DEF HostsBelow, ArksBelow, IsMessage, SameContexts

-----------------------------------------------------------------------------
(* What becomes of a session's messages when a packet is read.             *)

LEMMA OtherPast ==
  ASSUME NEW s \in Seq(Token), NEW p \in NextPackets(s),
         p.type \notin {"message", "undecodable", "junk"},
         NEW c, NEW f \in Nat, NEW g \in Nat, Exactly(s, c, f, g)
  PROVE  Exactly(Rest(s), c, f, g)
<1>1. PICK d \in 1 .. Len(s) :
        /\ IsFirstDelim(s, d) /\ IsTail(Rest(s), s, d) /\ p \in Decodings(s, d)
        /\ \A k \in 1 .. Len(Rest(s)) : Rest(s)[k] = s[k + d]
  BY RestIsTail
<1>2. s[d] = Delim /\ (d = 1 \/ (d = 2 /\ s[1].packet = p))
  BY <1>1, SpecialTypes DEF Decodings, IsFirstDelim
<1>3. \A k \in 1 .. d : ~IsMessage(s[k], c)
  <2>1. d = 2 => ~IsMessage(s[1], c)
    BY <1>2, SpecialTypes DEF IsMessage
  <2>2. \A k \in 1 .. d : k = d \/ (d = 2 /\ k = 1)
    BY <1>2
  <2>3. QED
    BY <1>2, <2>1, <2>2, SpecialNoMessage
<1>4. Rest(s) \in Seq(Token) /\ Len(Rest(s)) = Len(s) - d /\ d \in 0 .. Len(s)
  BY <1>1, RestIsTail DEF IsTail
<1>5. QED
  BY <1>1, <1>3, <1>4, ExactlyBehind

LEMMA GluedPast ==
  ASSUME NEW s \in Seq(Token), Glued(s), NEW c, Apart(s, c),
         NEW f \in Nat, NEW g \in Nat, Exactly(s, c, f, g)
  PROVE  Exactly(Rest(s), c, f, g)
<1>1. PICK d \in 1 .. Len(s) :
        /\ IsFirstDelim(s, d) /\ IsTail(Rest(s), s, d)
        /\ \A k \in 1 .. Len(Rest(s)) : Rest(s)[k] = s[k + d]
  BY GluedRead, RestIsTail
<1>2. d > 2
  <2>1. PICK e \in DOMAIN s : IsFirstDelim(s, e) /\ e > 2
    BY DEF Glued
  <2>2. d = e
    BY <1>1, <2>1 DEF IsFirstDelim
  <2>3. QED
    BY <2>1, <2>2
<1>3. \A k \in 1 .. d : ~IsMessage(s[k], c)
  BY <1>1, <1>2, GluedHoldsNone
<1>4. Rest(s) \in Seq(Token) /\ Len(Rest(s)) = Len(s) - d /\ d \in 0 .. Len(s)
  BY <1>1, GluedRead, RestIsTail DEF IsTail
<1>5. QED
  BY <1>1, <1>3, <1>4, ExactlyBehind

LEMMA OpenedPast ==
  ASSUME NEW s \in Seq(Token), NEW p \in NextPackets(s),
         NEW c, NEW f \in Nat, NEW g \in Nat, Exactly(s, c, f, g),
         p = Message(c.host, c.ark, f)
  PROVE  Exactly(Rest(s), c, f + 1, g)
<1>1. p.type = "message"
  BY MessageFields
<1>2. /\ Len(s) >= 2 /\ s[1].packet = p /\ s[2] = Delim
      /\ Rest(s) \in Seq(Token) /\ Len(Rest(s)) = Len(s) - 2
      /\ \A k \in 1 .. Len(Rest(s)) : Rest(s)[k] = s[k + 2]
  BY <1>1, SentPacketRead DEF IsTail
<1>3. QED
  BY <1>2, ExactlyOpened

-----------------------------------------------------------------------------
(* What the invariant says of a step's state.                              *)

LEMMA SyncTypes ==
  ASSUME TypeOK
  PROVE  /\ h2a \in Seq(Token) /\ a2h \in Seq(Token)
         /\ hostKey \in Nat /\ arkKey \in Nat /\ arkHost \in Nat
         /\ hostSession \in Session /\ arkSession \in Session
         /\ hostPc \in {"idle", "hello", "ack"} /\ arkPc \in {"serve", "hello", "ack"}
         /\ hostSession.host \in Nat /\ hostSession.ark \in Nat
         /\ hostSession.sent \in Nat /\ hostSession.got \in Nat
         /\ arkSession.host \in Nat /\ arkSession.ark \in Nat
         /\ arkSession.sent \in Nat /\ arkSession.got \in Nat
BY SessionTypes DEF TypeOK, HostTypeOK, ArkTypeOK

LEMMA MatchedFacts ==
  /\ \A s, t : Secure!Matched(s, t) =>
       s.host > 0 /\ s.host = t.host /\ s.ark = t.ark /\ SameContexts(s, t)
         /\ s # NoSession /\ t # NoSession
  /\ \A s : ~Secure!Matched(s, NoSession) /\ ~Secure!Matched(NoSession, s)
BY SessionFields DEF Secure!Matched, SameContexts

LEMMA SessionsKnown ==
  ASSUME SyncInv
  PROVE  /\ hostSession # NoSession =>
              hostPc = "idle" /\ hostSession.host = hostKey /\ hostSession.ark <= arkKey
         /\ arkSession # NoSession =>
              arkPc = "serve" /\ arkSession.host = arkHost /\ arkSession.ark = arkKey
BY DEF SyncInv, WireInv, AnswersKnown, Answered

(* The parts of the invariant that are new.                                *)
SyncParts == NotYetUsed /\ HostAhead /\ SessionsFenced /\ InSync

(* A packet is read, or what a reader had is lost with it.                 *)
LEMMA ReadIsTail ==
  ASSUME NEW s \in Seq(Token),
         NEW r, \/ r = s
                \/ r \in Remains(s)
                \/ Glued(s) /\ r = Rest(s)
                \/ r = Rest(s) /\ \E p : p \in NextPackets(s)
  PROVE  /\ r \in Seq(Token)
         /\ \E n \in 0 .. Len(s) : IsTail(r, s, n) /\ SameDelims(r, s, n)
<1>1. CASE r = s
  <2>1. 0 \in 0 .. Len(s) /\ IsTail(s, s, 0) /\ SameDelims(s, s, 0)
    BY DEF IsTail, SameDelims
  <2>2. QED
    BY <1>1, <2>1
<1>2. CASE r \in Remains(s)
  BY <1>2, RemainsIsTail
<1>3. CASE r = Rest(s) /\ \E p : p \in NextPackets(s)
  <2>1. PICK d \in 1 .. Len(s) :
          IsTail(Rest(s), s, d) /\ \A k \in 1 .. Len(Rest(s)) : Rest(s)[k] = s[k + d]
    BY <1>3, RestIsTail
  <2>2. d \in 0 .. Len(s) /\ SameDelims(Rest(s), s, d)
    BY <2>1 DEF SameDelims
  <2>3. QED
    BY <1>3, <2>1, <2>2, RestIsTail
<1>4. QED
  BY <1>1, <1>2, <1>3, GluedRead

-----------------------------------------------------------------------------
(* An end without a session.                                               *)

LEMMA WithoutHostSession ==
  ASSUME SyncInv, UNCHANGED arkVars, hostSession' = NoSession,
         a2h' \in Seq(Token), \E n \in 0 .. Len(a2h) : IsTail(a2h', a2h, n) /\ SameDelims(a2h', a2h, n),
         HostsBelow(h2a', IF hostPc' = "idle" THEN hostKey' + 1 ELSE hostKey'),
         hostPc' # "idle" /\ arkSession # NoSession => arkSession.host < hostKey'
  PROVE  SyncParts'
<1>1. PICK n \in 0 .. Len(a2h) : IsTail(a2h', a2h, n) /\ SameDelims(a2h', a2h, n)
  OBVIOUS
<1>2. a2h \in Seq(Token)
  BY SyncTypes DEF SyncInv, WireInv
<1>3. arkPc' = arkPc /\ arkKey' = arkKey /\ arkHost' = arkHost /\ arkSession' = arkSession
  BY DEF arkVars
<1>4. NotYetUsed'
  <2>1. ArksBelow(a2h', IF arkPc = "ack" THEN arkKey ELSE arkKey + 1)
    BY <1>1, <1>2, BelowTail DEF SyncInv, NotYetUsed
  <2>2. QED
    BY <1>3, <2>1 DEF NotYetUsed
<1>5. HostAhead' /\ InSync'
  BY MatchedFacts DEF HostAhead, InSync
<1>6. SessionsFenced'
  <2>1. arkSession # NoSession => Fenced(a2h', arkSession)
    BY <1>1, <1>2, FencedTail DEF SyncInv, SessionsFenced
  <2>2. arkPc = "ack" => EndsClean(a2h')
    BY <1>1, <1>2, CleanTail DEF SyncInv, SessionsFenced
  <2>3. QED
    BY <1>3, <2>1, <2>2 DEF SessionsFenced
<1>7. QED
  BY <1>4, <1>5, <1>6 DEF SyncParts

LEMMA WithoutArkSession ==
  ASSUME SyncInv, UNCHANGED hostVars, arkSession' = NoSession, arkPc' # "ack",
         h2a' \in Seq(Token), \E n \in 0 .. Len(h2a) : IsTail(h2a', h2a, n) /\ SameDelims(h2a', h2a, n),
         ArksBelow(a2h', arkKey' + 1)
  PROVE  SyncParts'
<1>1. PICK n \in 0 .. Len(h2a) : IsTail(h2a', h2a, n) /\ SameDelims(h2a', h2a, n)
  OBVIOUS
<1>2. h2a \in Seq(Token)
  BY SyncTypes DEF SyncInv, WireInv
<1>3. hostPc' = hostPc /\ hostKey' = hostKey /\ hostSession' = hostSession
  BY DEF hostVars
<1>4. NotYetUsed'
  <2>1. HostsBelow(h2a', IF hostPc = "idle" THEN hostKey + 1 ELSE hostKey)
    BY <1>1, <1>2, BelowTail DEF SyncInv, NotYetUsed
  <2>2. QED
    BY <1>3, <2>1 DEF NotYetUsed
<1>5. HostAhead' /\ InSync'
  BY MatchedFacts DEF HostAhead, InSync
<1>6. SessionsFenced'
  <2>1. hostSession # NoSession => "noise" \in Disturbances \/ Fenced(h2a', hostSession)
    BY <1>1, <1>2, FencedTail DEF SyncInv, SessionsFenced
  <2>2. QED
    BY <1>3, <2>1 DEF SessionsFenced
<1>7. QED
  BY <1>4, <1>5, <1>6 DEF SyncParts

-----------------------------------------------------------------------------
(* The steps of the host.                                                  *)

LEMMA HostResetKeepsSync ==
  ASSUME SyncInv, UNCHANGED arkVars, NEW ok \in BOOLEAN, HostReset(ok)
  PROVE  SyncParts'
<1>1. /\ hostSession' = NoSession /\ hostKey' = hostKey + 1 /\ a2h' = a2h
  BY DEF HostReset
<1>2. /\ h2a \in Seq(Token) /\ a2h \in Seq(Token) /\ hostKey \in Nat
      /\ arkSession.host \in Nat
  BY SyncTypes DEF SyncInv, WireInv
<1>3. PICK t \in SendReset(ok) : h2a' = h2a \o t
  BY DEF HostReset, HostWrites
<1>4. t \in Seq(Token) /\ \A k \in 1 .. Len(t) : t[k] = Delim
  BY <1>3, ResetWritten
<1>5. HostsBelow(h2a, hostKey + 1)
  BY <1>2, BelowMore DEF SyncInv, NotYetUsed
<1>6. HostsBelow(h2a', hostKey + 1)
  BY <1>2, <1>3, <1>4, <1>5, BelowSilent, BelowJoined, SpecialTypes
<1>7. h2a' \in Seq(Token)
  BY <1>2, <1>3, <1>4, Joined
<1>8. HostsBelow(h2a', (hostKey + 1) + 1)
  BY <1>2, <1>6, <1>7, BelowMore
<1>9. arkSession # NoSession => arkSession.host < hostKey'
  <2>1. arkSession # NoSession => arkSession.host <= hostKey
    BY DEF SyncInv, WireInv, AnswersKnown, HellosInOrder
  <2>2. QED
    BY <1>1, <1>2, <2>1
<1>10. HostsBelow(h2a', IF hostPc' = "idle" THEN hostKey' + 1 ELSE hostKey')
  BY <1>1, <1>6, <1>8
<1>11. a2h' \in Seq(Token) /\ \E n \in 0 .. Len(a2h) : IsTail(a2h', a2h, n) /\ SameDelims(a2h', a2h, n)
  BY <1>1, <1>2, ReadIsTail
<1>12. QED
  BY <1>1, <1>9, <1>10, <1>11, WithoutHostSession

LEMMA HostSendHelloKeepsSync ==
  ASSUME SyncInv, UNCHANGED arkVars, NEW ok \in BOOLEAN, HostSendHello(ok)
  PROVE  SyncParts'
<1>1. /\ hostPc = "hello" /\ UNCHANGED <<a2h, hostKey, hostSession>>
  BY DEF HostSendHello
<1>2. /\ h2a \in Seq(Token) /\ a2h \in Seq(Token) /\ hostKey \in Nat
      /\ HostHello(hostKey) \in Packet
  BY SyncTypes, PacketTypes DEF SyncInv, WireInv
<1>3. PICK t \in SendPacket(HostHello(hostKey), ok) : h2a' = h2a \o t
  BY DEF HostSendHello, HostWrites
<1>4. /\ t \in Seq(Token)
      /\ \A k \in 1 .. Len(t) : \/ k = 1 /\ t[k].packet \in {HostHello(hostKey), Junk}
                                \/ t[k] = Delim
  BY <1>2, <1>3, PacketWritten
<1>5. \A k \in 1 .. Len(t) : t[k].packet.type \notin {"ack", "message"}
  BY <1>4, PacketTypesWritten, SpecialTypes
<1>6. HostsBelow(h2a, hostKey)
  BY <1>1 DEF SyncInv, NotYetUsed
<1>7. HostsBelow(h2a', hostKey)
  BY <1>2, <1>3, <1>4, <1>5, <1>6, BelowSilent, BelowJoined
<1>8. h2a' \in Seq(Token)
  BY <1>2, <1>3, <1>4, Joined
<1>9. HostsBelow(h2a', hostKey + 1)
  BY <1>2, <1>7, <1>8, BelowMore
<1>10. HostsBelow(h2a', IF hostPc' = "idle" THEN hostKey' + 1 ELSE hostKey')
  BY <1>1, <1>7, <1>9
<1>11. arkSession # NoSession => arkSession.host < hostKey'
  BY <1>1 DEF SyncInv, NotYetUsed
<1>12. hostSession' = NoSession
  BY <1>1, SessionsKnown
<1>13. a2h' \in Seq(Token) /\ \E n \in 0 .. Len(a2h) : IsTail(a2h', a2h, n) /\ SameDelims(a2h', a2h, n)
  BY <1>1, <1>2, ReadIsTail
<1>14. QED
  BY <1>10, <1>11, <1>12, <1>13, WithoutHostSession

(* The host reads or gives up without a session afterwards.                *)
LEMMA HostGivesUpKeepsSync ==
  ASSUME SyncInv, UNCHANGED arkVars, hostSession' = NoSession,
         \/ HostReject \/ HostSkipStale \/ HostAbort \/ HostReadFails
         \/ HostNextMessage \/ HostRestart
  PROVE  SyncParts'
<1>1. h2a' = h2a /\ hostKey' = hostKey /\ (hostPc' = hostPc \/ hostPc' = "idle")
  BY DEF HostReject, HostSkipStale, HostAbort, HostReadFails, HostNextMessage, HostRestart,
         HandshakeReturns
<1>2. h2a \in Seq(Token) /\ a2h \in Seq(Token) /\ hostKey \in Nat
  BY SyncTypes DEF SyncInv, WireInv
<1>3. a2h' \in Seq(Token) /\ \E n \in 0 .. Len(a2h) : IsTail(a2h', a2h, n) /\ SameDelims(a2h', a2h, n)
  <2>1. \/ a2h' = a2h
        \/ a2h' \in Remains(a2h)
        \/ a2h' = Rest(a2h) /\ \E p : p \in NextPackets(a2h)
    BY DEF HostReject, HostSkipStale, HostAbort, HostReadFails, HostNextMessage, HostRestart
  <2>2. QED
    BY <1>2, <2>1, ReadIsTail
<1>4. HostsBelow(h2a, hostKey) => HostsBelow(h2a, hostKey + 1)
  BY <1>2, BelowMore
<1>5. HostsBelow(h2a', IF hostPc' = "idle" THEN hostKey' + 1 ELSE hostKey')
  BY <1>1, <1>4 DEF SyncInv, NotYetUsed
<1>6. hostPc' # "idle" /\ arkSession # NoSession => arkSession.host < hostKey'
  BY <1>1 DEF SyncInv, NotYetUsed
<1>7. QED
  BY <1>3, <1>5, <1>6, WithoutHostSession

(* The host is in a session afterwards.                                    *)
LEMMA WithHostSession ==
  ASSUME SyncInv, UNCHANGED arkVars, hostPc' = "idle", hostKey' = hostKey,
         a2h' \in Seq(Token), \E n \in 0 .. Len(a2h) : IsTail(a2h', a2h, n) /\ SameDelims(a2h', a2h, n),
         HostsBelow(h2a', hostKey + 1),
         "noise" \in Disturbances \/ Fenced(h2a', hostSession'),
         HostAhead', InSync'
  PROVE  SyncParts'
<1>1. PICK n \in 0 .. Len(a2h) : IsTail(a2h', a2h, n) /\ SameDelims(a2h', a2h, n)
  OBVIOUS
<1>2. a2h \in Seq(Token)
  BY SyncTypes DEF SyncInv, WireInv
<1>3. arkPc' = arkPc /\ arkKey' = arkKey /\ arkHost' = arkHost /\ arkSession' = arkSession
  BY DEF arkVars
<1>4. NotYetUsed'
  <2>1. ArksBelow(a2h', IF arkPc = "ack" THEN arkKey ELSE arkKey + 1)
    BY <1>1, <1>2, BelowTail DEF SyncInv, NotYetUsed
  <2>2. QED
    BY <1>3, <2>1 DEF NotYetUsed
<1>5. SessionsFenced'
  <2>1. arkSession # NoSession => Fenced(a2h', arkSession)
    BY <1>1, <1>2, FencedTail DEF SyncInv, SessionsFenced
  <2>2. arkPc = "ack" => EndsClean(a2h')
    BY <1>1, <1>2, CleanTail DEF SyncInv, SessionsFenced
  <2>3. QED
    BY <1>3, <2>1, <2>2 DEF SessionsFenced
<1>6. QED
  BY <1>4, <1>5 DEF SyncParts

LEMMA HostSendAckKeepsSync ==
  ASSUME SyncInv, UNCHANGED arkVars, NEW ok \in BOOLEAN, HostSendAck(ok)
  PROVE  SyncParts'
<1>1. /\ hostPc = "ack" /\ hostPc' = "idle" /\ hostKey' = hostKey /\ a2h' = Rest(a2h)
  BY DEF HostSendAck, HandshakeReturns
<1>2. PICK p \in NextPackets(a2h) :
        /\ IsAnswer(p)
        /\ HostWrites(SendPacket(HostAck(p.host, p.ark), ok))
        /\ hostSession' = IF ok THEN NewSession(p.host, p.ark) ELSE NoSession
  BY DEF HostSendAck
<1>3. /\ h2a \in Seq(Token) /\ a2h \in Seq(Token) /\ hostKey \in Nat
      /\ arkSession.host \in Nat
  BY SyncTypes DEF SyncInv, WireInv
<1>4. p.host = hostKey /\ p.host \in Nat /\ p.ark \in Nat
  BY <1>2, <1>3, PacketsRead DEF Packet, IsAnswer
<1> DEFINE q == HostAck(p.host, p.ark)
<1>5. q \in Packet /\ q.type = "ack" /\ q.host = hostKey
  BY <1>4, PacketTypes DEF HostAck, Sealed
<1>6. PICK t \in SendPacket(q, ok) : h2a' = h2a \o t
  BY <1>2 DEF HostWrites
<1> HIDE DEF q
<1>7. /\ t \in Seq(Token)
      /\ \A k \in 1 .. Len(t) : \/ k = 1 /\ t[k].packet \in {q, Junk}
                                \/ t[k] = Delim
  BY <1>5, <1>6, PacketWritten
<1>8. HostsBelow(h2a, hostKey)
  BY <1>1 DEF SyncInv, NotYetUsed
<1>9. HostsBelow(h2a', hostKey + 1)
  <2>1. DOMAIN t = 1 .. Len(t)
    BY <1>7
  <2>2. \A k \in 1 .. Len(t) : t[k].packet.type \in {"ack", "message"} => t[k].packet.host = hostKey
    BY <1>5, <1>7, SpecialTypes
  <2>3. HostsBelow(t, hostKey + 1)
    BY <1>3, <2>1, <2>2 DEF HostsBelow
  <2>4. QED
    BY <1>3, <1>6, <1>7, <1>8, <2>3, BelowMore, BelowJoined
<1>10. a2h' \in Seq(Token) /\ \E n \in 0 .. Len(a2h) : IsTail(a2h', a2h, n) /\ SameDelims(a2h', a2h, n)
  BY <1>1, <1>2, <1>3, ReadIsTail
<1>11. CASE ~ok
  <2>1. hostSession' = NoSession
    BY <1>2, <1>11
  <2>2. HostsBelow(h2a', IF hostPc' = "idle" THEN hostKey' + 1 ELSE hostKey')
    BY <1>1, <1>9
  <2>3. QED
    BY <1>1, <1>10, <2>1, <2>2, WithoutHostSession
<1>12. CASE ok
  <2> DEFINE c == NewSession(p.host, p.ark)
  <2>1. hostSession' = c /\ c.host = hostKey /\ c.ark \in Nat /\ c.sent = 0 /\ c.got = 0
    BY <1>2, <1>4, <1>12 DEF NewSession
  <2> HIDE DEF c
  <2>2. t = Frame(q)
    BY <1>6, <1>12 DEF SendPacket
  <2>3. \A k \in DOMAIN h2a : ~IsMessage(h2a[k], c)
    BY <1>3, <1>8, <2>1, NotUsedNoMessage
  <2>4. \A k \in 1 .. Len(t) : ~IsMessage(t[k], c)
    BY <1>5, <1>7, SpecialTypes DEF IsMessage
  <2>5. Exactly(h2a', c, 0, 0)
    BY <1>3, <1>6, <1>7, <2>3, <2>4, NoneOnTheWay, ExactlyBefore
  <2>6. HostAhead'
    BY <2>1, <2>5 DEF HostAhead
  <2>7. InSync'
    <3>1. arkSession' = arkSession
      BY DEF arkVars
    <3>2. ~Secure!Matched(c, arkSession)
      <4> SUFFICES ASSUME Secure!Matched(c, arkSession) PROVE FALSE
        OBVIOUS
      <4>1. arkSession # NoSession /\ arkSession.host = hostKey
        BY <2>1, MatchedFacts
      <4>2. arkSession.host < hostKey
        BY <1>1, <4>1 DEF SyncInv, NotYetUsed
      <4>3. QED
        BY <1>3, <4>1, <4>2
    <3>3. QED
      BY <2>1, <3>1, <3>2 DEF InSync
  <2>8. Fenced(h2a', c)
    <3>1. t # <<>> /\ EndsClean(t)
      BY <1>5, <2>2, FrameFenced
    <3>2. EndsClean(h2a')
      BY <1>3, <1>6, <1>7, <3>1, CleanJoined
    <3>3. \A k \in DOMAIN h2a' : ~IsMessage(h2a'[k], c)
      BY <2>5 DEF Exactly
    <3>4. QED
      BY <3>2, <3>3 DEF Fenced
  <2>9. QED
    BY <1>1, <1>9, <1>10, <2>1, <2>6, <2>7, <2>8, WithHostSession
<1>13. QED
  BY <1>11, <1>12

LEMMA HostSendMessageKeepsSync ==
  ASSUME SyncInv, UNCHANGED arkVars, NEW ok \in BOOLEAN, HostSendMessage(ok)
  PROVE  SyncParts'
<1>1. /\ hostPc = "idle" /\ hostPc' = "idle" /\ hostKey' = hostKey /\ a2h' = a2h
      /\ hostSession' = IF ok THEN [hostSession EXCEPT !.sent = @ + 1] ELSE NoSession
      /\ hostSession # NoSession
  BY DEF HostSendMessage, AfterSend
<1>2. /\ h2a \in Seq(Token) /\ a2h \in Seq(Token) /\ hostKey \in Nat
      /\ hostSession \in Session /\ hostSession.host \in Nat /\ hostSession.ark \in Nat
      /\ hostSession.sent \in Nat /\ hostSession.got \in Nat /\ hostSession.host = hostKey
      /\ arkSession.got \in Nat
  BY <1>1, SyncTypes, SessionsKnown DEF SyncInv, WireInv
<1> DEFINE m == Message(hostSession.host, hostSession.ark, hostSession.sent)
<1>3. m \in Packet
  BY <1>2, PacketTypes
<1>4. m.type = "message" /\ m.host = hostKey
  BY <1>2, MessageFields
<1>5. PICK t \in SendPacket(m, ok) : h2a' = h2a \o t
  BY DEF HostSendMessage, HostWrites
<1>6. m = Message(hostSession.host, hostSession.ark, hostSession.sent)
  OBVIOUS
<1> HIDE DEF m
<1>7. /\ t \in Seq(Token)
      /\ \A k \in 1 .. Len(t) : \/ k = 1 /\ t[k].packet \in {m, Junk}
                                \/ t[k] = Delim
  BY <1>3, <1>5, PacketWritten
<1>8. HostsBelow(h2a', hostKey + 1)
  <2>1. DOMAIN t = 1 .. Len(t)
    BY <1>7
  <2>2. \A k \in 1 .. Len(t) : t[k].packet.type \in {"ack", "message"} => t[k].packet.host = hostKey
    BY <1>4, <1>7, SpecialTypes
  <2>3. HostsBelow(t, hostKey + 1)
    BY <1>2, <2>1, <2>2 DEF HostsBelow
  <2>4. HostsBelow(h2a, hostKey + 1)
    BY <1>1 DEF SyncInv, NotYetUsed
  <2>5. QED
    BY <1>2, <1>5, <1>7, <2>3, <2>4, BelowJoined
<1>9. a2h' \in Seq(Token) /\ \E n \in 0 .. Len(a2h) : IsTail(a2h', a2h, n) /\ SameDelims(a2h', a2h, n)
  BY <1>1, <1>2, ReadIsTail
<1>10. CASE ~ok
  <2>1. hostSession' = NoSession
    BY <1>1, <1>10
  <2>2. HostsBelow(h2a', IF hostPc' = "idle" THEN hostKey' + 1 ELSE hostKey')
    BY <1>1, <1>8
  <2>3. QED
    BY <1>1, <1>9, <2>1, <2>2, WithoutHostSession
<1>11. CASE ok
  <2>1. /\ SameContexts(hostSession, hostSession')
        /\ hostSession'.sent = hostSession.sent + 1 /\ hostSession'.got = hostSession.got
    BY <1>1, <1>2, <1>11 DEF SameContexts, Session
  <2>2. h2a' = h2a \o Frame(m)
    BY <1>5, <1>11 DEF SendPacket
  <2>3. ASSUME NEW f \in Nat, Exactly(h2a, hostSession, f, hostSession.sent)
        PROVE  Exactly(h2a', hostSession', f, hostSession'.sent)
    <3>1. Exactly(h2a', hostSession, f, hostSession.sent + 1)
      BY <1>2, <1>3, <1>6, <2>2, <2>3, ExactlySealed
    <3>2. QED
      BY <2>1, <3>1, SameMessages
  <2>4. \A s : Secure!Matched(hostSession', s) => Secure!Matched(hostSession, s)
    BY <2>1 DEF Secure!Matched, SameContexts
  <2>5. arkPc' = arkPc /\ arkKey' = arkKey /\ arkHost' = arkHost /\ arkSession' = arkSession
    BY DEF arkVars
  <2>6. HostAhead'
    <3> SUFFICES ASSUME arkPc = "ack", Secure!Matched(hostSession', NewSession(arkHost, arkKey))
                 PROVE  hostSession'.got = 0 /\ Exactly(h2a', hostSession', 0, hostSession'.sent)
      BY <2>5 DEF HostAhead
    <3>1. hostSession.got = 0 /\ Exactly(h2a, hostSession, 0, hostSession.sent)
      BY <2>4 DEF SyncInv, HostAhead
    <3>2. QED
      BY <2>1, <2>3, <3>1
  <2>7. InSync'
    <3> SUFFICES ASSUME Secure!Matched(hostSession', arkSession)
                 PROVE  /\ Exactly(h2a', hostSession', arkSession.got, hostSession'.sent)
                        /\ Exactly(a2h', arkSession, hostSession'.got, arkSession.sent)
      BY <2>5 DEF InSync
    <3>1. /\ Exactly(h2a, hostSession, arkSession.got, hostSession.sent)
          /\ Exactly(a2h, arkSession, hostSession.got, arkSession.sent)
      BY <2>4 DEF SyncInv, InSync
    <3>2. QED
      BY <1>1, <1>2, <2>1, <2>3, <3>1
  <2>8. "noise" \in Disturbances \/ Fenced(h2a', hostSession')
    <3> SUFFICES ASSUME "noise" \notin Disturbances PROVE Fenced(h2a', hostSession')
      OBVIOUS
    <3>1. Fenced(h2a, hostSession)
      BY <1>1 DEF SyncInv, SessionsFenced
    <3>2. Fenced(h2a', hostSession)
      BY <1>2, <1>3, <2>2, <3>1, FrameFenced, FencedJoined
    <3>3. QED
      BY <2>1, <3>2, SameMessages
  <2>9. QED
    BY <1>1, <1>8, <1>9, <2>6, <2>7, <2>8, WithHostSession
<1>12. QED
  BY <1>10, <1>11

LEMMA HostNextMessageKeepsSync ==
  ASSUME SyncInv, UNCHANGED arkVars, HostNextMessage
  PROVE  SyncParts'
<1>1. /\ hostPc = "idle" /\ hostPc' = "idle" /\ hostKey' = hostKey
      /\ h2a' = h2a /\ a2h' = Rest(a2h)
  BY DEF HostNextMessage
<1>2. PICK p \in NextPackets(a2h) :
        hostSession' = IF p.type = "empty" THEN hostSession
                       ELSE IF hostSession # NoSession /\ HostOpens(p)
                         THEN [hostSession EXCEPT !.got = @ + 1]
                       ELSE NoSession
  BY DEF HostNextMessage
<1>3. /\ h2a \in Seq(Token) /\ a2h \in Seq(Token) /\ hostSession \in Session
      /\ hostSession.host \in Nat /\ hostSession.ark \in Nat
      /\ hostSession.sent \in Nat /\ hostSession.got \in Nat
      /\ arkSession.sent \in Nat /\ arkKey \in Nat /\ arkHost \in Nat
  BY SyncTypes DEF SyncInv, WireInv
<1>4. arkPc' = arkPc /\ arkKey' = arkKey /\ arkHost' = arkHost /\ arkSession' = arkSession
  BY DEF arkVars
<1>5. CASE hostSession' = NoSession
  BY <1>5, HostGivesUpKeepsSync
<1>6. CASE hostSession' # NoSession
  <2>1. a2h' \in Seq(Token) /\ \E n \in 0 .. Len(a2h) : IsTail(a2h', a2h, n) /\ SameDelims(a2h', a2h, n)
    BY <1>1, <1>2, <1>3, ReadIsTail
  <2>2. HostsBelow(h2a', hostKey + 1)
    BY <1>1 DEF SyncInv, NotYetUsed
  <2>3. \/ p.type = "empty" /\ hostSession' = hostSession
        \/ HostOpens(p) /\ hostSession' = [hostSession EXCEPT !.got = @ + 1]
    BY <1>2, <1>6
  <2>4. SameContexts(hostSession, hostSession') /\ hostSession'.sent = hostSession.sent
    BY <1>3, <2>3 DEF SameContexts, Session
  <2>5. hostSession # NoSession
    BY <1>2, <1>6
  <2>6. "noise" \in Disturbances \/ Fenced(h2a', hostSession')
    BY <1>1, <2>4, <2>5, SameMessages DEF SyncInv, SessionsFenced
  <2>7. \A s : Secure!Matched(hostSession', s) => Secure!Matched(hostSession, s)
    BY <2>4 DEF Secure!Matched, SameContexts
  <2>8. HostAhead'
    <3> SUFFICES ASSUME arkPc = "ack", Secure!Matched(hostSession', NewSession(arkHost, arkKey))
                 PROVE  hostSession'.got = 0 /\ Exactly(h2a', hostSession', 0, hostSession'.sent)
      BY <1>4 DEF HostAhead
    <3>1. hostSession.got = 0 /\ Exactly(h2a, hostSession, 0, hostSession.sent)
      BY <2>7 DEF SyncInv, HostAhead
    <3>2. ~HostOpens(p)
      <4> SUFFICES ASSUME HostOpens(p) PROVE FALSE
        OBVIOUS
      <4>1. hostSession.ark = arkKey
        BY <1>3, <2>7, MatchedFacts, SessionFields
      <4>2. p.type = "message" /\ p.ark = arkKey
        BY <4>1, MessageFields DEF HostOpens
      <4>3. 1 \in DOMAIN a2h /\ a2h[1].packet = p
        BY <1>3, <4>2, SentPacketRead
      <4>4. p.ark < arkKey
        BY <4>2, <4>3 DEF SyncInv, NotYetUsed, ArksBelow
      <4>5. QED
        BY <1>3, <4>2, <4>4
    <3>3. hostSession' = hostSession
      BY <2>3, <3>2
    <3>4. QED
      BY <1>1, <3>1, <3>3
  <2>9. InSync'
    <3> SUFFICES ASSUME Secure!Matched(hostSession', arkSession)
                 PROVE  /\ Exactly(h2a', hostSession', arkSession.got, hostSession'.sent)
                        /\ Exactly(a2h', arkSession, hostSession'.got, arkSession.sent)
      BY <1>4 DEF InSync
    <3>1. /\ Exactly(h2a, hostSession, arkSession.got, hostSession.sent)
          /\ Exactly(a2h, arkSession, hostSession.got, arkSession.sent)
      BY <2>7 DEF SyncInv, InSync
    <3>2. Exactly(h2a', hostSession', arkSession.got, hostSession'.sent)
      BY <1>1, <2>4, <3>1, SameMessages
    <3>3. CASE p.type = "empty" /\ hostSession' = hostSession
      <4>1. Exactly(Rest(a2h), arkSession, hostSession.got, arkSession.sent)
        BY <1>3, <3>1, <3>3, OtherPast
      <4>2. QED
        BY <1>1, <3>2, <3>3, <4>1
    <3>4. CASE HostOpens(p) /\ hostSession' = [hostSession EXCEPT !.got = @ + 1]
      <4>1. hostSession.host = arkSession.host /\ hostSession.ark = arkSession.ark
        BY <2>7, MatchedFacts
      <4>2. p = Message(arkSession.host, arkSession.ark, hostSession.got)
        BY <3>4, <4>1 DEF HostOpens
      <4>3. Exactly(Rest(a2h), arkSession, hostSession.got + 1, arkSession.sent)
        BY <1>3, <3>1, <4>2, OpenedPast
      <4>4. hostSession'.got = hostSession.got + 1
        BY <1>3, <3>4 DEF Session
      <4>5. QED
        BY <1>1, <3>2, <4>3, <4>4
    <3>5. QED
      BY <2>3, <3>3, <3>4
  <2>10. QED
    BY <1>1, <2>1, <2>2, <2>6, <2>8, <2>9, WithHostSession
<1>7. QED
  BY <1>5, <1>6

LEMMA HostDiscardsKeepsSync ==
  ASSUME SyncInv, UNCHANGED arkVars, HostDiscards
  PROVE  SyncParts'
<1>1. /\ Glued(a2h) /\ a2h' = Rest(a2h) /\ h2a' = h2a
      /\ hostPc' = hostPc /\ hostKey' = hostKey /\ hostSession' = hostSession
  BY DEF HostDiscards, hostVars
<1>2. /\ h2a \in Seq(Token) /\ a2h \in Seq(Token)
      /\ hostSession.got \in Nat /\ arkSession.sent \in Nat
  BY SyncTypes DEF SyncInv, WireInv
<1>3. a2h' \in Seq(Token) /\ \E n \in 0 .. Len(a2h) : IsTail(a2h', a2h, n) /\ SameDelims(a2h', a2h, n)
  BY <1>1, <1>2, ReadIsTail
<1>4. HostsBelow(h2a', IF hostPc' = "idle" THEN hostKey' + 1 ELSE hostKey')
  BY <1>1 DEF SyncInv, NotYetUsed
<1>5. CASE hostSession = NoSession
  <2>1. hostPc' # "idle" /\ arkSession # NoSession => arkSession.host < hostKey'
    BY <1>1 DEF SyncInv, NotYetUsed
  <2>2. QED
    BY <1>1, <1>3, <1>4, <1>5, <2>1, WithoutHostSession
<1>6. CASE hostSession # NoSession
  <2>1. hostPc' = "idle"
    BY <1>1, <1>6, SessionsKnown
  <2>2. HostsBelow(h2a', hostKey + 1)
    BY <1>1, <1>4, <2>1
  <2>3. "noise" \in Disturbances \/ Fenced(h2a', hostSession')
    BY <1>1, <1>6 DEF SyncInv, SessionsFenced
  <2>4. arkPc' = arkPc /\ arkKey' = arkKey /\ arkHost' = arkHost /\ arkSession' = arkSession
    BY DEF arkVars
  <2>5. HostAhead'
    BY <1>1, <2>4 DEF SyncInv, HostAhead
  <2>6. InSync'
    <3> SUFFICES ASSUME Secure!Matched(hostSession, arkSession)
                 PROVE  /\ Exactly(h2a, hostSession, arkSession.got, hostSession.sent)
                        /\ Exactly(a2h', arkSession, hostSession.got, arkSession.sent)
      BY <1>1, <2>4 DEF InSync
    <3>1. /\ Exactly(h2a, hostSession, arkSession.got, hostSession.sent)
          /\ Exactly(a2h, arkSession, hostSession.got, arkSession.sent)
      BY DEF SyncInv, InSync
    <3>2. Apart(a2h, arkSession)
      BY <1>2, MatchedFacts, FencedApart DEF SyncInv, SessionsFenced
    <3>3. QED
      BY <1>1, <1>2, <3>1, <3>2, GluedPast
  <2>7. QED
    BY <1>1, <1>3, <2>1, <2>2, <2>3, <2>5, <2>6, WithHostSession
<1>7. QED
  BY <1>5, <1>6

-----------------------------------------------------------------------------
(* The steps of the Ark.                                                   *)

LEMMA ArkGivesUpKeepsSync ==
  ASSUME SyncInv, UNCHANGED hostVars, arkSession' = NoSession,
         \/ ArkReset \/ ArkNextMessage \/ ArkStartOver \/ ArkHandshakeFails
         \/ ArkReadFails \/ ArkRestart
  PROVE  SyncParts'
<1>1. a2h' = a2h /\ arkKey' = arkKey /\ arkPc' # "ack"
  BY DEF ArkReset, ArkNextMessage, ArkStartOver, ArkHandshakeFails, ArkReadFails, ArkRestart
<1>2. h2a \in Seq(Token) /\ a2h \in Seq(Token) /\ arkKey \in Nat
  BY SyncTypes DEF SyncInv, WireInv
<1>3. h2a' \in Seq(Token) /\ \E n \in 0 .. Len(h2a) : IsTail(h2a', h2a, n) /\ SameDelims(h2a', h2a, n)
  <2>1. \/ h2a' = h2a
        \/ h2a' \in Remains(h2a)
        \/ h2a' = Rest(h2a) /\ \E p : p \in NextPackets(h2a)
    BY DEF ArkReset, ArkNextMessage, ArkStartOver, ArkHandshakeFails, ArkReadFails, ArkRestart
  <2>2. QED
    BY <1>2, <2>1, ReadIsTail
<1>4. ArksBelow(a2h, arkKey) => ArksBelow(a2h, arkKey + 1)
  BY <1>2, BelowMore
<1>5. ArksBelow(a2h', arkKey' + 1)
  BY <1>1, <1>4 DEF SyncInv, NotYetUsed
<1>6. QED
  BY <1>1, <1>3, <1>5, WithoutArkSession

LEMMA WithArkSession ==
  ASSUME SyncInv, UNCHANGED hostVars, arkPc' = "serve",
         h2a' \in Seq(Token), \E n \in 0 .. Len(h2a) : IsTail(h2a', h2a, n) /\ SameDelims(h2a', h2a, n),
         ArksBelow(a2h', arkKey' + 1),
         hostPc # "idle" => arkSession'.host < hostKey,
         Fenced(a2h', arkSession'), InSync'
  PROVE  SyncParts'
<1>1. PICK n \in 0 .. Len(h2a) : IsTail(h2a', h2a, n) /\ SameDelims(h2a', h2a, n)
  OBVIOUS
<1>2. h2a \in Seq(Token)
  BY SyncTypes DEF SyncInv, WireInv
<1>3. hostPc' = hostPc /\ hostKey' = hostKey /\ hostSession' = hostSession
  BY DEF hostVars
<1>4. NotYetUsed'
  <2>1. HostsBelow(h2a', IF hostPc = "idle" THEN hostKey + 1 ELSE hostKey)
    BY <1>1, <1>2, BelowTail DEF SyncInv, NotYetUsed
  <2>2. QED
    BY <1>3, <2>1 DEF NotYetUsed
<1>5. HostAhead'
  BY DEF HostAhead
<1>6. SessionsFenced'
  <2>1. hostSession # NoSession => "noise" \in Disturbances \/ Fenced(h2a', hostSession)
    BY <1>1, <1>2, FencedTail DEF SyncInv, SessionsFenced
  <2>2. QED
    BY <1>3, <2>1 DEF SessionsFenced
<1>7. QED
  BY <1>4, <1>5, <1>6 DEF SyncParts

LEMMA ArkNextMessageKeepsSync ==
  ASSUME SyncInv, UNCHANGED hostVars, ArkNextMessage
  PROVE  SyncParts'
<1>1. /\ arkPc = "serve" /\ arkPc' = "serve" /\ arkKey' = arkKey
      /\ a2h' = a2h /\ h2a' = Rest(h2a)
  BY DEF ArkNextMessage
<1>2. PICK p \in NextPackets(h2a) :
        arkSession' = IF arkSession # NoSession /\ ArkOpens(p)
                        THEN [arkSession EXCEPT !.got = @ + 1]
                        ELSE NoSession
  BY DEF ArkNextMessage
<1>3. /\ h2a \in Seq(Token) /\ a2h \in Seq(Token) /\ arkSession \in Session
      /\ arkSession.got \in Nat /\ hostSession.sent \in Nat
  BY SyncTypes DEF SyncInv, WireInv
<1>4. hostPc' = hostPc /\ hostKey' = hostKey /\ hostSession' = hostSession
  BY DEF hostVars
<1>5. CASE ~(arkSession # NoSession /\ ArkOpens(p))
  BY <1>2, <1>5, ArkGivesUpKeepsSync
<1>6. CASE arkSession # NoSession /\ ArkOpens(p)
  <2>1. h2a' \in Seq(Token) /\ \E n \in 0 .. Len(h2a) : IsTail(h2a', h2a, n) /\ SameDelims(h2a', h2a, n)
    BY <1>1, <1>2, <1>3, ReadIsTail
  <2>2. ArksBelow(a2h', arkKey' + 1)
    BY <1>1 DEF SyncInv, NotYetUsed
  <2>3. /\ SameContexts(arkSession, arkSession') /\ arkSession'.host = arkSession.host
        /\ arkSession'.sent = arkSession.sent /\ arkSession'.got = arkSession.got + 1
    BY <1>2, <1>3, <1>6 DEF SameContexts, Session
  <2>4. hostPc # "idle" => arkSession'.host < hostKey
    BY <1>6, <2>3 DEF SyncInv, NotYetUsed
  <2>5. Fenced(a2h', arkSession')
    BY <1>1, <1>6, <2>3, SameMessages DEF SyncInv, SessionsFenced
  <2>6. InSync'
    <3> SUFFICES ASSUME Secure!Matched(hostSession, arkSession')
                 PROVE  /\ Exactly(h2a', hostSession, arkSession'.got, hostSession.sent)
                        /\ Exactly(a2h', arkSession', hostSession.got, arkSession'.sent)
      BY <1>4 DEF InSync
    <3>1. Secure!Matched(hostSession, arkSession)
      BY <2>3 DEF Secure!Matched, SameContexts
    <3>2. /\ Exactly(h2a, hostSession, arkSession.got, hostSession.sent)
          /\ Exactly(a2h, arkSession, hostSession.got, arkSession.sent)
      BY <3>1 DEF SyncInv, InSync
    <3>3. p = Message(hostSession.host, hostSession.ark, arkSession.got)
      BY <1>6, <3>1, MatchedFacts DEF ArkOpens
    <3>4. Exactly(Rest(h2a), hostSession, arkSession.got + 1, hostSession.sent)
      BY <1>3, <3>2, <3>3, OpenedPast
    <3>5. Exactly(a2h', arkSession', hostSession.got, arkSession'.sent)
      BY <1>1, <2>3, <3>2, SameMessages
    <3>6. QED
      BY <1>1, <2>3, <3>4, <3>5
  <2>7. QED
    BY <1>1, <2>1, <2>2, <2>4, <2>5, <2>6, WithArkSession
<1>7. QED
  BY <1>5, <1>6

LEMMA ArkEstablishKeepsSync ==
  ASSUME SyncInv, UNCHANGED hostVars, ArkEstablish
  PROVE  SyncParts'
<1>1. /\ arkPc = "ack" /\ arkPc' = "serve" /\ arkKey' = arkKey
      /\ a2h' = a2h /\ h2a' = Rest(h2a)
  BY DEF ArkEstablish
<1> DEFINE c == NewSession(arkHost, arkKey)
           p == HostAck(arkHost, arkKey)
<1>2. p \in NextPackets(h2a) /\ arkSession' = c
  BY DEF ArkEstablish
<1>3. /\ h2a \in Seq(Token) /\ a2h \in Seq(Token) /\ arkKey \in Nat /\ arkHost \in Nat
      /\ hostKey \in Nat /\ hostSession.sent \in Nat
  BY SyncTypes DEF SyncInv, WireInv
<1>4. hostPc' = hostPc /\ hostKey' = hostKey /\ hostSession' = hostSession
  BY DEF hostVars
<1>5. c.host = arkHost /\ c.ark = arkKey /\ c.got = 0 /\ c.sent = 0
  BY DEF NewSession
<1>6. p.type = "ack" /\ p.host = arkHost
  BY DEF HostAck, Sealed
<1>6a. c = NewSession(arkHost, arkKey)
  OBVIOUS
<1> HIDE DEF c, p
<1>7. h2a' \in Seq(Token) /\ \E n \in 0 .. Len(h2a) : IsTail(h2a', h2a, n) /\ SameDelims(h2a', h2a, n)
  BY <1>1, <1>2, <1>3, ReadIsTail
<1>8. ArksBelow(a2h, arkKey)
  BY <1>1 DEF SyncInv, NotYetUsed
<1>9. ArksBelow(a2h', arkKey' + 1)
  BY <1>1, <1>3, <1>8, BelowMore
<1>10. hostPc # "idle" => arkSession'.host < hostKey
  <2> SUFFICES ASSUME hostPc # "idle" PROVE arkHost < hostKey
    BY <1>2, <1>5
  <2>1. 1 \in DOMAIN h2a /\ h2a[1].packet = p
    BY <1>2, <1>3, <1>6, SentPacketRead
  <2>2. QED
    BY <1>6, <2>1 DEF SyncInv, NotYetUsed, HostsBelow
<1>11. \A k \in DOMAIN a2h : ~IsMessage(a2h[k], c)
  BY <1>3, <1>5, <1>8, NotUsedNoMessage
<1>12. Fenced(a2h', arkSession')
  <2>1. EndsClean(a2h)
    BY <1>1 DEF SyncInv, SessionsFenced
  <2>2. QED
    BY <1>1, <1>2, <1>11, <2>1 DEF Fenced
<1>13. InSync'
  <2> SUFFICES ASSUME Secure!Matched(hostSession, c)
               PROVE  /\ Exactly(h2a', hostSession, c.got, hostSession.sent)
                      /\ Exactly(a2h', c, hostSession.got, c.sent)
    BY <1>2, <1>4 DEF InSync
  <2>1. hostSession.got = 0 /\ Exactly(h2a, hostSession, 0, hostSession.sent)
    BY <1>1, <1>6a DEF SyncInv, HostAhead
  <2>2. Exactly(Rest(h2a), hostSession, 0, hostSession.sent)
    BY <1>2, <1>3, <1>6, <2>1, OtherPast
  <2>3. Exactly(a2h, c, 0, 0)
    BY <1>11, NoneOnTheWay
  <2>4. QED
    BY <1>1, <1>5, <2>1, <2>2, <2>3
<1>14. QED
  BY <1>1, <1>7, <1>9, <1>10, <1>12, <1>13, WithArkSession

LEMMA ArkSendMessageKeepsSync ==
  ASSUME SyncInv, UNCHANGED hostVars, NEW ok \in BOOLEAN, ArkSendMessage(ok)
  PROVE  SyncParts'
<1>1. /\ arkPc = "serve" /\ arkPc' = "serve" /\ arkKey' = arkKey /\ h2a' = h2a
      /\ arkSession' = IF ok THEN [arkSession EXCEPT !.sent = @ + 1] ELSE NoSession
      /\ arkSession # NoSession
  BY DEF ArkSendMessage, AfterSend
<1>2. /\ h2a \in Seq(Token) /\ a2h \in Seq(Token) /\ arkKey \in Nat
      /\ arkSession \in Session /\ arkSession.host \in Nat /\ arkSession.ark \in Nat
      /\ arkSession.sent \in Nat /\ arkSession.got \in Nat /\ arkSession.ark = arkKey
      /\ hostSession.got \in Nat
  BY <1>1, SyncTypes, SessionsKnown DEF SyncInv, WireInv
<1> DEFINE m == Message(arkSession.host, arkSession.ark, arkSession.sent)
<1>3. m \in Packet
  BY <1>2, PacketTypes
<1>4. m.type = "message" /\ m.ark = arkKey
  BY <1>2, MessageFields
<1>5. PICK t \in SendPacket(m, ok) : a2h' = a2h \o t
  BY DEF ArkSendMessage, ArkWrites
<1>6. m = Message(arkSession.host, arkSession.ark, arkSession.sent)
  OBVIOUS
<1> HIDE DEF m
<1>7. /\ t \in Seq(Token)
      /\ \A k \in 1 .. Len(t) : \/ k = 1 /\ t[k].packet \in {m, Junk}
                                \/ t[k] = Delim
  BY <1>3, <1>5, PacketWritten
<1>8. ArksBelow(a2h', arkKey' + 1)
  <2>1. DOMAIN t = 1 .. Len(t)
    BY <1>7
  <2>2. \A k \in 1 .. Len(t) : t[k].packet.type = "message" => t[k].packet.ark = arkKey
    BY <1>4, <1>7, SpecialTypes
  <2>3. ArksBelow(t, arkKey + 1)
    BY <1>2, <2>1, <2>2 DEF ArksBelow
  <2>4. ArksBelow(a2h, arkKey + 1)
    BY <1>1 DEF SyncInv, NotYetUsed
  <2>5. QED
    BY <1>1, <1>2, <1>5, <1>7, <2>3, <2>4, BelowJoined
<1>9. h2a' \in Seq(Token) /\ \E n \in 0 .. Len(h2a) : IsTail(h2a', h2a, n) /\ SameDelims(h2a', h2a, n)
  BY <1>1, <1>2, ReadIsTail
<1>10. CASE ~ok
  <2>1. arkSession' = NoSession
    BY <1>1, <1>10
  <2>2. QED
    BY <1>1, <1>8, <1>9, <2>1, WithoutArkSession
<1>11. CASE ok
  <2>1. /\ SameContexts(arkSession, arkSession') /\ arkSession'.host = arkSession.host
        /\ arkSession'.sent = arkSession.sent + 1 /\ arkSession'.got = arkSession.got
    BY <1>1, <1>2, <1>11 DEF SameContexts, Session
  <2>2. a2h' = a2h \o Frame(m)
    BY <1>5, <1>11 DEF SendPacket
  <2>3. hostPc # "idle" => arkSession'.host < hostKey
    BY <1>1, <2>1 DEF SyncInv, NotYetUsed
  <2>4. Fenced(a2h', arkSession')
    <3>1. Fenced(a2h, arkSession)
      BY <1>1 DEF SyncInv, SessionsFenced
    <3>2. Fenced(a2h', arkSession)
      BY <1>2, <1>3, <2>2, <3>1, FrameFenced, FencedJoined
    <3>3. QED
      BY <2>1, <3>2, SameMessages
  <2>5. hostSession' = hostSession
    BY DEF hostVars
  <2>6. InSync'
    <3> SUFFICES ASSUME Secure!Matched(hostSession, arkSession')
                 PROVE  /\ Exactly(h2a', hostSession, arkSession'.got, hostSession.sent)
                        /\ Exactly(a2h', arkSession', hostSession.got, arkSession'.sent)
      BY <2>5 DEF InSync
    <3>1. Secure!Matched(hostSession, arkSession)
      BY <2>1 DEF Secure!Matched, SameContexts
    <3>2. /\ Exactly(h2a, hostSession, arkSession.got, hostSession.sent)
          /\ Exactly(a2h, arkSession, hostSession.got, arkSession.sent)
      BY <3>1 DEF SyncInv, InSync
    <3>3. Exactly(a2h', arkSession, hostSession.got, arkSession.sent + 1)
      BY <1>2, <1>3, <1>6, <2>2, <3>2, ExactlySealed
    <3>4. Exactly(a2h', arkSession', hostSession.got, arkSession'.sent)
      BY <2>1, <3>3, SameMessages
    <3>5. QED
      BY <1>1, <2>1, <3>2, <3>4
  <2>7. QED
    BY <1>1, <1>8, <1>9, <2>3, <2>4, <2>6, WithArkSession
<1>12. QED
  BY <1>10, <1>11

LEMMA ArkSendHelloKeepsSync ==
  ASSUME SyncInv, UNCHANGED hostVars, NEW ok \in BOOLEAN, ArkSendHello(ok)
  PROVE  SyncParts'
<1>1. /\ arkPc = "hello" /\ arkKey' = arkKey + 1 /\ h2a' = Rest(h2a) /\ arkSession' = arkSession
      /\ arkPc' = IF ok THEN "ack" ELSE "serve"
  BY DEF ArkSendHello
<1>2. PICK p \in NextPackets(h2a) :
        /\ arkHost' = p.host
        /\ ArkWrites(SendPacket(ArkHello(p.host, arkKey'), ok))
  BY DEF ArkSendHello
<1>3. /\ h2a \in Seq(Token) /\ a2h \in Seq(Token) /\ arkKey \in Nat /\ arkKey' \in Nat
      /\ hostSession.ark \in Nat
  BY <1>1, SyncTypes DEF SyncInv, WireInv
<1>4. p.host \in Nat
  BY <1>3, PacketsRead DEF Packet
<1> DEFINE q == ArkHello(p.host, arkKey')
<1>5. q \in Packet /\ q.type = "arkhello"
  BY <1>3, <1>4, PacketTypes, PacketTypesWritten
<1>6. PICK t \in SendPacket(q, ok) : a2h' = a2h \o t
  BY <1>2 DEF ArkWrites
<1> HIDE DEF q
<1>7. /\ t \in Seq(Token)
      /\ \A k \in 1 .. Len(t) : \/ k = 1 /\ t[k].packet \in {q, Junk}
                                \/ t[k] = Delim
  BY <1>5, <1>6, PacketWritten
<1>8. arkSession' = NoSession
  BY <1>1, SessionsKnown
<1>9. ArksBelow(a2h', arkKey + 1)
  <2>1. \A k \in 1 .. Len(t) : t[k].packet.type # "message"
    BY <1>5, <1>7, SpecialTypes
  <2>2. ArksBelow(t, arkKey + 1)
    BY <1>7, <2>1, BelowSilent
  <2>3. ArksBelow(a2h, arkKey + 1)
    BY <1>1 DEF SyncInv, NotYetUsed
  <2>4. QED
    BY <1>3, <1>6, <1>7, <2>2, <2>3, BelowJoined
<1>10. h2a' \in Seq(Token) /\ \E n \in 0 .. Len(h2a) : IsTail(h2a', h2a, n) /\ SameDelims(h2a', h2a, n)
  BY <1>1, <1>2, <1>3, ReadIsTail
<1>11. CASE ~ok
  <2>1. a2h' \in Seq(Token)
    BY <1>3, <1>6, <1>7, Joined
  <2>2. ArksBelow(a2h', arkKey' + 1)
    BY <1>1, <1>3, <1>9, <2>1, BelowMore
  <2>3. arkPc' # "ack"
    BY <1>1, <1>11
  <2>4. QED
    BY <1>8, <1>10, <2>2, <2>3, WithoutArkSession
<1>12. CASE ok
  <2>1. PICK n \in 0 .. Len(h2a) : IsTail(h2a', h2a, n) /\ SameDelims(h2a', h2a, n)
    BY <1>10
  <2>2. arkPc' = "ack" /\ hostPc' = hostPc /\ hostKey' = hostKey /\ hostSession' = hostSession
    BY <1>1, <1>12 DEF hostVars
  <2>3. NotYetUsed'
    <3>1. HostsBelow(h2a', IF hostPc = "idle" THEN hostKey + 1 ELSE hostKey)
      BY <1>3, <1>10, <2>1, BelowTail DEF SyncInv, NotYetUsed
    <3>2. QED
      BY <1>1, <1>8, <1>9, <2>2, <3>1 DEF NotYetUsed
  <2>4. HostAhead'
    <3>1. ~Secure!Matched(hostSession, NewSession(p.host, arkKey'))
      <4> SUFFICES ASSUME Secure!Matched(hostSession, NewSession(p.host, arkKey')) PROVE FALSE
        OBVIOUS
      <4>1. hostSession # NoSession /\ hostSession.ark = arkKey'
        BY <1>3, <1>4, MatchedFacts, SessionFields
      <4>2. hostSession.ark <= arkKey
        BY <4>1, SessionsKnown
      <4>3. QED
        BY <1>1, <1>3, <4>1, <4>2
    <3>2. QED
      BY <1>2, <2>2, <3>1 DEF HostAhead
  <2>5. SessionsFenced'
    <3>1. hostSession # NoSession => "noise" \in Disturbances \/ Fenced(h2a', hostSession)
      BY <1>3, <1>10, <2>1, FencedTail DEF SyncInv, SessionsFenced
    <3>2. t = Frame(q)
      BY <1>6, <1>12 DEF SendPacket
    <3>3. EndsClean(a2h')
      BY <1>3, <1>5, <1>6, <1>7, <3>2, FrameFenced, CleanJoined
    <3>4. QED
      BY <1>8, <2>2, <3>1, <3>3 DEF SessionsFenced
  <2>6. InSync'
    BY <1>8, MatchedFacts DEF InSync
  <2>7. QED
    BY <2>3, <2>4, <2>5, <2>6 DEF SyncParts
<1>13. QED
  BY <1>11, <1>12

(* What the Ark discards holds no message of the host's session, unless    *)
(* somebody else writes to it.                                             *)
LEMMA ArkDiscardsKeepsSync ==
  ASSUME SyncInv, UNCHANGED hostVars, ArkDiscards, "noise" \notin Disturbances
  PROVE  SyncParts'
<1>1. /\ Glued(h2a) /\ h2a' = Rest(h2a) /\ a2h' = a2h
      /\ arkPc' = arkPc /\ arkKey' = arkKey /\ arkHost' = arkHost /\ arkSession' = arkSession
      /\ hostPc' = hostPc /\ hostKey' = hostKey /\ hostSession' = hostSession
  BY DEF ArkDiscards, arkVars, hostVars
<1>2. /\ h2a \in Seq(Token) /\ hostSession.sent \in Nat /\ arkSession.got \in Nat
  BY SyncTypes DEF SyncInv, WireInv
<1>3. h2a' \in Seq(Token) /\ \E n \in 0 .. Len(h2a) : IsTail(h2a', h2a, n) /\ SameDelims(h2a', h2a, n)
  BY <1>1, <1>2, ReadIsTail
<1>4. PICK n \in 0 .. Len(h2a) : IsTail(h2a', h2a, n) /\ SameDelims(h2a', h2a, n)
  BY <1>3
<1>5. ASSUME NEW s, Secure!Matched(hostSession, s),
             NEW f \in Nat, Exactly(h2a, hostSession, f, hostSession.sent)
      PROVE  Exactly(h2a', hostSession, f, hostSession.sent)
  <2>1. Apart(h2a, hostSession)
    BY <1>2, <1>5, MatchedFacts, FencedApart DEF SyncInv, SessionsFenced
  <2>2. QED
    BY <1>1, <1>2, <1>5, <2>1, GluedPast
<1>6. NotYetUsed'
  <2>1. HostsBelow(h2a', IF hostPc = "idle" THEN hostKey + 1 ELSE hostKey)
    BY <1>2, <1>3, <1>4, BelowTail DEF SyncInv, NotYetUsed
  <2>2. QED
    BY <1>1, <2>1 DEF SyncInv, NotYetUsed
<1>7. HostAhead'
  <2> SUFFICES ASSUME arkPc = "ack", Secure!Matched(hostSession, NewSession(arkHost, arkKey))
               PROVE  hostSession.got = 0 /\ Exactly(h2a', hostSession, 0, hostSession.sent)
    BY <1>1 DEF HostAhead
  <2>1. hostSession.got = 0 /\ Exactly(h2a, hostSession, 0, hostSession.sent)
    BY DEF SyncInv, HostAhead
  <2>2. QED
    BY <1>5, <2>1
<1>8. SessionsFenced'
  <2>1. hostSession # NoSession => Fenced(h2a', hostSession)
    BY <1>2, <1>3, <1>4, FencedTail DEF SyncInv, SessionsFenced
  <2>2. QED
    BY <1>1, <2>1 DEF SyncInv, SessionsFenced
<1>9. InSync'
  <2> SUFFICES ASSUME Secure!Matched(hostSession, arkSession)
               PROVE  /\ Exactly(h2a', hostSession, arkSession.got, hostSession.sent)
                      /\ Exactly(a2h, arkSession, hostSession.got, arkSession.sent)
    BY <1>1 DEF InSync
  <2>1. /\ Exactly(h2a, hostSession, arkSession.got, hostSession.sent)
        /\ Exactly(a2h, arkSession, hostSession.got, arkSession.sent)
    BY DEF SyncInv, InSync
  <2>2. QED
    BY <1>2, <1>5, <2>1
<1>10. QED
  BY <1>6, <1>7, <1>8, <1>9 DEF SyncParts

LEMMA NoiseKeepsSync ==
  ASSUME SyncInv, Noise
  PROVE  SyncParts'
<1>1. /\ a2h' = a2h /\ "noise" \in Disturbances
      /\ arkPc' = arkPc /\ arkKey' = arkKey /\ arkHost' = arkHost /\ arkSession' = arkSession
      /\ hostPc' = hostPc /\ hostKey' = hostKey /\ hostSession' = hostSession
  BY DEF Noise, Disturbed, arkVars, hostVars
<1>2. PICK token \in {Cut, Delim} : h2a' = Append(h2a, token)
  BY DEF Noise
<1>3. /\ h2a \in Seq(Token) /\ hostSession.sent \in Nat /\ arkSession.got \in Nat
      /\ hostKey \in Nat
  BY SyncTypes DEF SyncInv, WireInv
<1> DEFINE t == <<token>>
<1>4. /\ t \in Seq(Token) /\ h2a' = h2a \o t
      /\ \A k \in 1 .. Len(t) : t[k] = token
  BY <1>2, <1>3, TokenTypes
<1> HIDE DEF t
<1>5. NotYetUsed'
  <2>1. \A k \in 1 .. Len(t) : t[k].packet.type \notin {"ack", "message"}
    BY <1>4, SpecialTypes
  <2>2. HostsBelow(h2a', IF hostPc = "idle" THEN hostKey + 1 ELSE hostKey)
    BY <1>3, <1>4, <2>1, BelowSilent, BelowJoined DEF SyncInv, NotYetUsed
  <2>3. QED
    BY <1>1, <2>2 DEF SyncInv, NotYetUsed
<1>6. ASSUME NEW f \in Nat, Exactly(h2a, hostSession, f, hostSession.sent)
      PROVE  Exactly(h2a', hostSession, f, hostSession.sent)
  <2>1. \A k \in 1 .. Len(t) : ~IsMessage(t[k], hostSession)
    BY <1>4, SpecialNoMessage
  <2>2. QED
    BY <1>3, <1>4, <1>6, <2>1, ExactlyBefore
<1>7. HostAhead'
  BY <1>1, <1>6 DEF SyncInv, HostAhead
<1>8. SessionsFenced'
  BY <1>1 DEF SyncInv, SessionsFenced
<1>9. InSync'
  BY <1>1, <1>3, <1>6 DEF SyncInv, InSync
<1>10. QED
  BY <1>5, <1>7, <1>8, <1>9 DEF SyncParts

-----------------------------------------------------------------------------
(* The invariant.                                                          *)

LEMMA SyncInvInit == Init => SyncInv
<1> SUFFICES ASSUME Init PROVE SyncInv
  OBVIOUS
<1>1. WireInv
  BY WireInvInit
<1>2. /\ h2a = <<>> /\ a2h = <<>> /\ hostSession = NoSession /\ arkSession = NoSession
      /\ arkPc = "serve"
  BY DEF Init, HostInit, ArkInit
<1>3. HostsBelow(h2a, IF hostPc = "idle" THEN hostKey + 1 ELSE hostKey)
        /\ ArksBelow(a2h, IF arkPc = "ack" THEN arkKey ELSE arkKey + 1)
  BY <1>2 DEF HostsBelow, ArksBelow
<1>4. NotYetUsed
  BY <1>2, <1>3 DEF NotYetUsed
<1>5. HostAhead /\ SessionsFenced /\ InSync
  BY <1>2, MatchedFacts DEF HostAhead, SessionsFenced, InSync
<1>6. QED
  BY <1>1, <1>4, <1>5 DEF SyncInv

(* Somebody else who writes to the Ark may glue a message of the session   *)
(* to what is discarded.                                                   *)
SyncAssumption == ~("noise" \in Disturbances /\ "oversize" \in Disturbances)

LEMMA SyncInvStep ==
  ASSUME SyncAssumption
  PROVE  SyncInv /\ [Next]_vars => SyncInv'
<1> SUFFICES ASSUME SyncInv, [Next]_vars PROVE SyncInv'
  OBVIOUS
<1>1. WireInv'
  BY WireInvStep DEF SyncInv
<1>2. CASE Next
  <2>1. CASE HostOp /\ UNCHANGED arkVars
    <3>1. ASSUME \E ok \in BOOLEAN : HostReset(ok) \/ HostSendHello(ok) \/ HostSendAck(ok)
                                      \/ HostSendMessage(ok)
          PROVE  SyncParts'
      BY <2>1, <3>1, HostResetKeepsSync, HostSendHelloKeepsSync, HostSendAckKeepsSync,
         HostSendMessageKeepsSync, Zenon
    <3>2. ASSUME HostReject \/ HostSkipStale \/ HostAbort \/ HostReadFails
          PROVE  SyncParts'
      <4>1. hostSession' = NoSession
        <5>1. CASE HostReadFails
          BY <5>1 DEF HostReadFails
        <5>2. CASE HostReject \/ HostSkipStale \/ HostAbort
          <6>1. hostPc = "ack" /\ hostSession' = hostSession
            BY <5>2 DEF HostReject, HostSkipStale, HostAbort
          <6>2. QED
            BY <6>1, SessionsKnown
        <5>3. QED
          BY <3>2, <5>1, <5>2
      <4>2. QED
        BY <2>1, <3>2, <4>1, HostGivesUpKeepsSync
    <3>3. ASSUME HostNextMessage
          PROVE  SyncParts'
      BY <2>1, <3>3, HostNextMessageKeepsSync
    <3>4. ASSUME HostDiscards
          PROVE  SyncParts'
      BY <2>1, <3>4, HostDiscardsKeepsSync
    <3>5. SyncParts'
      BY <2>1, <3>1, <3>2, <3>3, <3>4, Zenon DEF HostOp
    <3>6. QED
      BY <1>1, <3>5 DEF SyncInv, SyncParts
  <2>2. CASE ArkOp /\ UNCHANGED hostVars
    <3>1. ASSUME \E ok \in BOOLEAN : ArkSendHello(ok) \/ ArkSendMessage(ok)
          PROVE  SyncParts'
      BY <2>2, <3>1, ArkSendHelloKeepsSync, ArkSendMessageKeepsSync, Zenon
    <3>2. ASSUME ArkReset \/ ArkStartOver \/ ArkHandshakeFails \/ ArkReadFails
          PROVE  SyncParts'
      <4>1. arkSession' = NoSession
        <5>1. CASE ArkReset
          BY <5>1 DEF ArkReset
        <5>2. CASE ArkStartOver \/ ArkHandshakeFails \/ ArkReadFails
          <6>1. arkPc # "serve" /\ arkSession' = arkSession
            BY <5>2 DEF ArkStartOver, ArkHandshakeFails, ArkReadFails
          <6>2. QED
            BY <6>1, SessionsKnown
        <5>3. QED
          BY <3>2, <5>1, <5>2
      <4>2. QED
        BY <2>2, <3>2, <4>1, ArkGivesUpKeepsSync
    <3>3. ASSUME ArkNextMessage
          PROVE  SyncParts'
      BY <2>2, <3>3, ArkNextMessageKeepsSync
    <3>4. ASSUME ArkEstablish
          PROVE  SyncParts'
      BY <2>2, <3>4, ArkEstablishKeepsSync
    <3>5. ASSUME "oversize" \in Disturbances /\ ArkDiscards
          PROVE  SyncParts'
      BY <2>2, <3>5, ArkDiscardsKeepsSync DEF SyncAssumption
    <3>6. SyncParts'
      BY <2>2, <3>1, <3>2, <3>3, <3>4, <3>5, Zenon DEF ArkOp
    <3>7. QED
      BY <1>1, <3>6 DEF SyncInv, SyncParts
  <2>3. CASE HostRestart
    <3>1. UNCHANGED arkVars /\ hostSession' = NoSession
      BY <2>3 DEF HostRestart
    <3>2. QED
      BY <1>1, <2>3, <3>1, HostGivesUpKeepsSync DEF SyncInv, SyncParts
  <2>4. CASE ArkRestart
    <3>1. UNCHANGED hostVars /\ arkSession' = NoSession
      BY <2>4 DEF ArkRestart
    <3>2. QED
      BY <1>1, <2>4, <3>1, ArkGivesUpKeepsSync DEF SyncInv, SyncParts
  <2>5. CASE Noise
    BY <1>1, <2>5, NoiseKeepsSync DEF SyncInv, SyncParts
  <2>6. faults \in 0 .. MaxFaults
    BY DEF SyncInv, WireInv, TypeOK
  <2>7. QED
    BY <1>2, <2>1, <2>2, <2>3, <2>4, <2>5, <2>6, StepCases
<1>3. CASE UNCHANGED vars
  <2>1. /\ h2a' = h2a /\ a2h' = a2h
        /\ arkPc' = arkPc /\ arkKey' = arkKey /\ arkHost' = arkHost /\ arkSession' = arkSession
        /\ hostPc' = hostPc /\ hostKey' = hostKey /\ hostSession' = hostSession
    BY <1>3 DEF vars, hostVars, arkVars
  <2>2. NotYetUsed' /\ HostAhead' /\ SessionsFenced' /\ InSync'
    BY <2>1 DEF SyncInv, NotYetUsed, HostAhead, SessionsFenced, InSync
  <2>3. QED
    BY <1>1, <2>2 DEF SyncInv
<1>4. QED
  BY <1>2, <1>3

(* The strengthening holds throughout: no ack and no message of a session  *)
(* is on its way before its time, a host that is ahead has all it sealed   *)
(* in the stream, and every message is in a frame of its own.              *)
THEOREM SyncInvariant ==
  ASSUME SyncAssumption
  PROVE  Spec => []SyncInv
BY SyncInvInit, SyncInvStep, PTL DEF Spec

(* While both ends are in one session nothing is lost, repeated or         *)
(* reordered between them, whatever was cut short, restarted or timed out  *)
(* before or meanwhile: send_message and next_message on both sides.       *)
THEOREM MessagesInSync ==
  ASSUME SyncAssumption
  PROVE  Spec => []InSync
<1>1. SyncInv => InSync
  BY DEF SyncInv
<1>2. QED
  BY <1>1, SyncInvariant, PTL

-----------------------------------------------------------------------------
(* What is on its way, as SecureLink sees it.                              *)

(* Places are counted by the positions they hold.                          *)
LEMMA CountedByPosition ==
  ASSUME NEW S, NEW v, NEW I, IsFiniteSet(I),
         \A k \in S : v[k] \in I,
         \A k, l \in S : v[k] = v[l] => k = l,
         \A n \in I : \E k \in S : v[k] = n
  PROVE  Cardinality(S) = Cardinality(I)
<1> DEFINE at == [n \in I |-> CHOOSE k \in S : v[k] = n]
<1>1. \A n \in I : at[n] \in S /\ v[at[n]] = n
  OBVIOUS
<1>2. at \in [I -> S]
  BY <1>1
<1> HIDE DEF at
<1>3. at \in Injection(I, S)
  BY <1>1, <1>2 DEF Injection, IsInjective
<1>4. at \in Surjection(I, S)
  BY <1>1, <1>2 DEF Surjection
<1>5. ExistsBijection(I, S)
  BY <1>3, <1>4 DEF ExistsBijection, Bijection
<1>6. QED
  BY <1>5, FS_Bijection

LEMMA PositionsCounted ==
  ASSUME NEW f \in Nat, NEW g \in Nat, f <= g
  PROVE  IsFiniteSet(f .. g - 1) /\ Cardinality(f .. g - 1) = g - f
<1>1. f \in Int /\ g - 1 \in Int
  OBVIOUS
<1>2. /\ IsFiniteSet(f .. g - 1)
      /\ Cardinality(f .. g - 1) = IF f > g - 1 THEN 0 ELSE (g - 1) - f + 1
  BY <1>1, FS_Interval
<1>3. (IF f > g - 1 THEN 0 ELSE (g - 1) - f + 1) = g - f
  OBVIOUS
<1>4. QED
  BY <1>2, <1>3

LEMMA CountedUpTo ==
  ASSUME NEW P \in SUBSET Nat, NEW q, NEW f \in Nat, NEW g \in Nat, f <= g,
         \A k \in P : q[k] \in f .. g - 1,
         \A k, l \in P : k < l => q[k] < q[l],
         \A n \in f .. g - 1 : \E k \in P : q[k] = n
  PROVE  /\ Cardinality(P) = g - f
         /\ \A k \in P : Cardinality({j \in P : j <= k}) = q[k] + 1 - f
<1>1. \A k, l \in P : (q[k] = q[l] => k = l) /\ (k <= l <=> q[k] <= q[l])
  <2> SUFFICES ASSUME NEW k \in P, NEW l \in P
               PROVE  (q[k] = q[l] => k = l) /\ (k <= l <=> q[k] <= q[l])
    OBVIOUS
  <2>1. k \in Nat /\ l \in Nat /\ q[k] \in Nat /\ q[l] \in Nat
    OBVIOUS
  <2>2. (k < l => q[k] < q[l]) /\ (l < k => q[l] < q[k])
    OBVIOUS
  <2>3. QED
    BY <2>1, <2>2
<1>2. Cardinality(P) = g - f
  <2>1. \A k, l \in P : q[k] = q[l] => k = l
    BY <1>1
  <2>2. f <= g /\ f \in Nat /\ g \in Nat
    OBVIOUS
  <2>3. \A k \in P : q[k] \in f .. g - 1
    OBVIOUS
  <2>4. \A n \in f .. g - 1 : \E k \in P : q[k] = n
    OBVIOUS
  <2>5. IsFiniteSet(f .. g - 1) /\ Cardinality(f .. g - 1) = g - f
    BY PositionsCounted
  <2> DEFINE I == f .. g - 1
  <2>6. (\A k \in P : q[k] \in I) /\ (\A n \in I : \E k \in P : q[k] = n)
    OBVIOUS
  <2> HIDE DEF I
  <2>7. Cardinality(P) = Cardinality(I)
    BY <2>1, <2>5, <2>6, CountedByPosition DEF I
  <2>8. QED
    BY <2>5, <2>7 DEF I
<1>3. ASSUME NEW k \in P PROVE Cardinality({j \in P : j <= k}) = q[k] + 1 - f
  <2> DEFINE U == {j \in P : j <= k}
             m == q[k] + 1
  <2>1. m \in Nat /\ f <= m /\ m <= g
    OBVIOUS
  <2>2. \A j \in U : q[j] \in f .. m - 1
    BY <1>1
  <2>3. \A n \in f .. m - 1 : \E j \in U : q[j] = n
    <3> SUFFICES ASSUME NEW n \in f .. m - 1 PROVE \E j \in U : q[j] = n
      OBVIOUS
    <3>1. n \in f .. g - 1 /\ n <= q[k]
      BY <2>1
    <3>2. PICK j \in P : q[j] = n
      BY <3>1
    <3>3. QED
      BY <1>1, <3>1, <3>2
  <2>4. \A j, l \in U : q[j] = q[l] => j = l
    BY <1>1
  <2> HIDE DEF U, m
  <2>5. Cardinality(U) = m - f
    BY <2>1, <2>2, <2>3, <2>4, PositionsCounted, CountedByPosition
  <2>6. QED
    BY <2>5 DEF U, m
<1>4. QED
  BY <1>2, <1>3
(* The messages of a session that are on their way, read off the stream.   *)
LEMMA InFlightExactly ==
  ASSUME NEW s \in Seq(Token), NEW c, NEW f \in Nat, NEW g \in Nat, Exactly(s, c, f, g)
  PROVE  InFlight(s, c) = Secure!Positions(f, g)
<1> DEFINE P == {k \in DOMAIN s : IsMessage(s[k], c)}
           q == [k \in P |-> s[k].packet.seq]
           Place(n) == CHOOSE k \in P : Cardinality({j \in P : j <= k}) = n
<1>1. P \in SUBSET Nat /\ f <= g
  BY DEF Exactly
<1>2. \A k \in P : q[k] \in f .. g - 1
  BY DEF Exactly
<1>3. \A k, l \in P : k < l => q[k] < q[l]
  BY DEF Exactly
<1>4. \A n \in f .. g - 1 : \E k \in P : q[k] = n
  BY DEF Exactly
<1>5. \A k \in P : q[k] = s[k].packet.seq
  OBVIOUS
<1>6. InFlight(s, c) = [n \in 1 .. Cardinality(P) |-> s[Place(n)].packet.seq]
  BY DEF InFlight
<1> HIDE DEF P, q
<1>7. /\ Cardinality(P) = g - f
      /\ \A k \in P : Cardinality({j \in P : j <= k}) = q[k] + 1 - f
  BY <1>1, <1>2, <1>3, <1>4, CountedUpTo
<1>8. ASSUME NEW n \in 1 .. g - f PROVE s[Place(n)].packet.seq = f + n - 1
  <2>1. f + n - 1 \in f .. g - 1
    OBVIOUS
  <2>2. PICK k \in P : q[k] = f + n - 1
    BY <1>4, <2>1
  <2>3. (f + n - 1) + 1 - f = n
    OBVIOUS
  <2>4. Cardinality({j \in P : j <= k}) = n
    BY <1>7, <2>2, <2>3
  <2>5. Place(n) \in P /\ Cardinality({j \in P : j <= Place(n)}) = n
    BY <2>4
  <2> HIDE DEF Place
  <2>6. n = q[Place(n)] + 1 - f
    BY <1>7, <2>5
  <2>7. q[Place(n)] = s[Place(n)].packet.seq /\ q[Place(n)] \in f .. g - 1
    BY <1>2, <1>5, <2>5
  <2>8. QED
    BY <2>6, <2>7
<1>9. Secure!Positions(f, g) = [k \in 1 .. g - f |-> f + k - 1]
  BY DEF Secure!Positions
<1> HIDE DEF Place
<1>10. QED
  BY <1>6, <1>7, <1>8, <1>9

LEMMA PositionsMove ==
  /\ \A f \in Nat : Secure!Positions(f, f) = <<>>
  /\ \A n \in Nat : Secure!Positions(0, n) \in Seq(Nat) /\ Len(Secure!Positions(0, n)) = n
  /\ \A f, g \in Nat : f <= g =>
       Append(Secure!Positions(f, g), g) = Secure!Positions(f, g + 1)
  /\ \A f, g \in Nat : f < g =>
       /\ Secure!Positions(f, g) # <<>> /\ Head(Secure!Positions(f, g)) = f
       /\ Tail(Secure!Positions(f, g)) = Secure!Positions(f + 1, g)
<1>1. \A f \in Nat : Secure!Positions(f, f) = <<>>
  BY DEF Secure!Positions
<1>2. \A n \in Nat : Secure!Positions(0, n) \in Seq(Nat) /\ Len(Secure!Positions(0, n)) = n
  BY DEF Secure!Positions
<1>3. ASSUME NEW f \in Nat, NEW g \in Nat, f <= g
      PROVE  Append(Secure!Positions(f, g), g) = Secure!Positions(f, g + 1)
  <2> DEFINE s == Secure!Positions(f, g)
             r == Secure!Positions(f, g + 1)
  <2>1. s \in Seq(Nat) /\ Len(s) = g - f /\ \A k \in 1 .. g - f : s[k] = f + k - 1
    BY <1>3 DEF Secure!Positions
  <2>2. /\ r \in Seq(Nat) /\ Len(r) = g - f + 1
        /\ \A k \in 1 .. g - f + 1 : r[k] = f + k - 1
    BY <1>3 DEF Secure!Positions
  <2> HIDE DEF s, r
  <2>3. Append(s, g) \in Seq(Nat) /\ Len(Append(s, g)) = g - f + 1
    BY <2>1
  <2>4. \A k \in 1 .. g - f + 1 : Append(s, g)[k] = r[k]
    BY <1>3, <2>1, <2>2
  <2>5. Append(s, g) = r
    BY <2>2, <2>3, <2>4, SeqEqual
  <2>6. QED
    BY <2>5 DEF s, r
<1>4. ASSUME NEW f \in Nat, NEW g \in Nat, f < g
      PROVE  /\ Secure!Positions(f, g) # <<>> /\ Head(Secure!Positions(f, g)) = f
             /\ Tail(Secure!Positions(f, g)) = Secure!Positions(f + 1, g)
  <2> DEFINE s == Secure!Positions(f, g)
             r == Secure!Positions(f + 1, g)
  <2>1. s \in Seq(Nat) /\ Len(s) = g - f /\ \A k \in 1 .. g - f : s[k] = f + k - 1
    BY <1>4 DEF Secure!Positions
  <2>2. /\ r \in Seq(Nat) /\ Len(r) = g - f - 1
        /\ \A k \in 1 .. g - f - 1 : r[k] = f + k
    BY <1>4 DEF Secure!Positions
  <2> HIDE DEF s, r
  <2>3. s # <<>> /\ Head(s) = f
    BY <1>4, <2>1
  <2>4. /\ Tail(s) \in Seq(Nat) /\ Len(Tail(s)) = g - f - 1
        /\ \A k \in 1 .. g - f - 1 : Tail(s)[k] = s[k + 1]
    BY <1>4, <2>1
  <2>5. \A k \in 1 .. g - f - 1 : Tail(s)[k] = r[k]
    BY <2>1, <2>2, <2>4
  <2>6. Tail(s) = r
    BY <2>2, <2>4, <2>5, SeqEqual
  <2>7. QED
    BY <2>3, <2>6 DEF s, r
<1>5. QED
  BY <1>1, <1>2, <1>3, <1>4

-----------------------------------------------------------------------------
(* The tokens of a stream that is read or written.                         *)

LEMMA TailTokens ==
  ASSUME NEW s \in Seq(Token), NEW r \in Seq(Token), NEW n \in 0 .. Len(s), IsTail(r, s, n)
  PROVE  \A k \in DOMAIN r : r[k] = Cut \/ \E j \in DOMAIN s : r[k] = s[j]
<1> SUFFICES ASSUME NEW k \in 1 .. Len(r) PROVE r[k] = Cut \/ \E j \in 1 .. Len(s) : r[k] = s[j]
  OBVIOUS
<1>1. k + n \in 1 .. Len(s)
  BY DEF IsTail
<1>2. QED
  BY <1>1 DEF IsTail

LEMMA JoinedTokens ==
  ASSUME NEW s \in Seq(Token), NEW t \in Seq(Token)
  PROVE  \A k \in DOMAIN (s \o t) : \/ \E j \in DOMAIN s : (s \o t)[k] = s[j]
                                    \/ \E j \in DOMAIN t : (s \o t)[k] = t[j]
<1> DEFINE r == s \o t
<1>1. /\ r \in Seq(Token) /\ Len(r) = Len(s) + Len(t)
      /\ \A k \in 1 .. Len(s) : r[k] = s[k]
      /\ \A k \in Len(s) + 1 .. Len(s) + Len(t) : r[k] = t[k - Len(s)]
  BY Joined
<1> HIDE DEF r
<1>2. DOMAIN s = 1 .. Len(s) /\ DOMAIN t = 1 .. Len(t) /\ DOMAIN r = 1 .. Len(r)
  BY <1>1
<1>3. ASSUME NEW k \in 1 .. Len(r)
      PROVE  (\E j \in 1 .. Len(s) : r[k] = s[j]) \/ \E j \in 1 .. Len(t) : r[k] = t[j]
  <2>1. CASE k \in 1 .. Len(s)
    BY <1>1, <2>1
  <2>2. CASE k \notin 1 .. Len(s)
    <3>1. k \in Len(s) + 1 .. Len(s) + Len(t) /\ k - Len(s) \in 1 .. Len(t)
      BY <1>1, <2>2
    <3>2. QED
      BY <1>1, <3>1
  <2>3. QED
    BY <2>1, <2>2
<1>4. QED
  BY <1>2, <1>3 DEF r

-----------------------------------------------------------------------------
(* Messages that stay apart.                                               *)

LEMMA ApartTail ==
  ASSUME NEW s \in Seq(Token), NEW r \in Seq(Token), NEW n \in 0 .. Len(s),
         IsTail(r, s, n), SameDelims(r, s, n), NEW c, Apart(s, c)
  PROVE  Apart(r, c)
<1>1. DOMAIN s = 1 .. Len(s) /\ DOMAIN r = 1 .. Len(r) /\ Len(r) = Len(s) - n
  BY DEF IsTail
<1>2. ASSUME NEW k \in 1 .. Len(r), IsMessage(r[k], c)
      PROVE  /\ k = 1 \/ r[k - 1] = Delim
             /\ k = Len(r) \/ r[k + 1] = Delim
  <2>1. PICK m \in 1 .. Len(s) : m = k + n
    BY <1>1
  <2>2. IsMessage(s[m], c)
    BY <1>2, <2>1, SpecialNoMessage DEF IsTail
  <2>3. /\ m = 1 \/ s[m - 1] = Delim
        /\ m = Len(s) \/ s[m + 1] = Delim
    BY <1>1, <2>2 DEF Apart
  <2>4. ASSUME k # Len(r) PROVE r[k + 1] = Delim
    <3>1. k + 1 \in 1 .. Len(r) /\ (k + 1) + n = m + 1 /\ m # Len(s)
      <4>1. Len(s) \in Nat /\ Len(r) \in Nat /\ Len(r) = Len(s) - n
        BY <1>1
      <4>2. QED
        BY <2>1, <2>4, <4>1
    <3>2. QED
      BY <2>3, <3>1 DEF SameDelims
  <2>5. ASSUME k # 1 PROVE r[k - 1] = Delim
    <3>1. k - 1 \in 1 .. Len(r) /\ (k - 1) + n = m - 1 /\ m # 1
      BY <2>1, <2>5
    <3>2. QED
      BY <2>3, <3>1 DEF SameDelims
  <2>6. QED
    BY <2>4, <2>5
<1>3. QED
  BY <1>1, <1>2 DEF Apart

LEMMA ApartJoined ==
  ASSUME NEW s \in Seq(Token), NEW t \in Seq(Token), NEW c, Apart(s, c), Apart(t, c),
         EndsClean(s) \/ (t # <<>> => t[1] = Delim)
  PROVE  Apart(s \o t, c)
<1> DEFINE r == s \o t
<1>1. /\ r \in Seq(Token) /\ Len(r) = Len(s) + Len(t)
      /\ \A k \in 1 .. Len(s) : r[k] = s[k]
      /\ \A k \in Len(s) + 1 .. Len(s) + Len(t) : r[k] = t[k - Len(s)]
  BY Joined
<1> HIDE DEF r
<1>2. DOMAIN s = 1 .. Len(s) /\ DOMAIN t = 1 .. Len(t) /\ DOMAIN r = 1 .. Len(r)
  BY <1>1
<1>3. ASSUME NEW k \in 1 .. Len(r), IsMessage(r[k], c)
      PROVE  /\ k = 1 \/ r[k - 1] = Delim
             /\ k = Len(r) \/ r[k + 1] = Delim
  <2>1. CASE k \in 1 .. Len(s)
    <3>1. IsMessage(s[k], c)
      BY <1>1, <1>3, <2>1
    <3>2. /\ k = 1 \/ s[k - 1] = Delim
          /\ k = Len(s) \/ s[k + 1] = Delim
      BY <1>2, <2>1, <3>1 DEF Apart
    <3>3. k = 1 \/ r[k - 1] = Delim
      <4>1. k # 1 => k - 1 \in 1 .. Len(s)
        BY <2>1
      <4>2. QED
        BY <1>1, <3>2, <4>1
    <3>4. ASSUME k # Len(s) PROVE r[k + 1] = Delim
      <4>1. k + 1 \in 1 .. Len(s)
        BY <2>1, <3>4
      <4>2. QED
        BY <1>1, <3>2, <3>4, <4>1
    <3>5. ASSUME k = Len(s), k # Len(r) PROVE r[k + 1] = Delim
      <4>1. s[k] # Delim /\ s # <<>>
        BY <2>1, <3>1, SpecialNoMessage
      <4>2. ~EndsClean(s)
        BY <3>5, <4>1 DEF EndsClean
      <4>3. /\ t # <<>> /\ t[1] = Delim
            /\ k + 1 \in Len(s) + 1 .. Len(s) + Len(t) /\ (k + 1) - Len(s) = 1
        <5>1. Len(t) > 0
          BY <1>1, <3>5
        <5>2. t # <<>>
          BY <5>1
        <5>3. QED
          BY <3>5, <4>2, <5>1, <5>2
      <4>4. QED
        BY <1>1, <4>3
    <3>6. QED
      BY <3>3, <3>4, <3>5
  <2>2. CASE k \notin 1 .. Len(s)
    <3>1. k \in Len(s) + 1 .. Len(s) + Len(t)
      BY <1>1, <2>2
    <3>2. PICK j \in 1 .. Len(t) : k = j + Len(s) /\ r[k] = t[j]
      <4>1. k - Len(s) \in 1 .. Len(t) /\ k = (k - Len(s)) + Len(s)
        BY <3>1
      <4>2. QED
        BY <1>1, <3>1, <4>1
    <3>3. /\ j = 1 \/ t[j - 1] = Delim
          /\ j = Len(t) \/ t[j + 1] = Delim
      BY <1>2, <1>3, <3>2 DEF Apart
    <3>4. ASSUME k # Len(r) PROVE r[k + 1] = Delim
      <4>1. /\ k + 1 \in Len(s) + 1 .. Len(s) + Len(t) /\ (k + 1) - Len(s) = j + 1
            /\ j # Len(t)
        BY <1>1, <3>2, <3>4
      <4>2. QED
        BY <1>1, <3>3, <4>1
    <3>5. ASSUME j # 1 PROVE r[k - 1] = Delim
      <4>1. k - 1 \in Len(s) + 1 .. Len(s) + Len(t) /\ (k - 1) - Len(s) = j - 1
        BY <3>2, <3>5
      <4>2. QED
        BY <1>1, <3>3, <3>5, <4>1
    <3>6. ASSUME j = 1, k # 1 PROVE r[k - 1] = Delim
      <4>1. k - 1 = Len(s) /\ k - 1 \in 1 .. Len(s) /\ s # <<>>
        BY <3>2, <3>6
      <4>2. t # <<>> /\ t[1] # Delim
        <5>1. Len(t) > 0
          BY <3>2
        <5>2. QED
          BY <1>3, <3>2, <3>6, <5>1, SpecialNoMessage
      <4>3. s[k - 1] = Delim
        BY <4>1, <4>2 DEF EndsClean
      <4>4. QED
        BY <1>1, <4>1, <4>3
    <3>7. QED
      BY <3>4, <3>5, <3>6
  <2>3. QED
    BY <2>1, <2>2
<1>4. Apart(r, c)
  BY <1>2, <1>3 DEF Apart
<1>5. QED
  BY <1>4 DEF r

(* A write of a packet, whole or cut short, is apart in itself.            *)
LEMMA WrittenApart ==
  ASSUME NEW p \in Packet, NEW ok \in BOOLEAN, NEW t \in SendPacket(p, ok), NEW c
  PROVE  Apart(t, c)
<1>1. /\ t \in Seq(Token) /\ DOMAIN t = 1 .. Len(t)
      /\ \A k \in 1 .. Len(t) : k = 1 \/ t[k] = Delim
  BY PacketWritten
<1>2. ASSUME NEW k \in 1 .. Len(t), IsMessage(t[k], c)
      PROVE  k = 1 /\ (k = Len(t) \/ t[k + 1] = Delim)
  <2>1. k = 1
    BY <1>1, <1>2, SpecialNoMessage
  <2>2. ASSUME k # Len(t) PROVE t[k + 1] = Delim
    <3>1. Len(t) \in Nat /\ k + 1 \in 1 .. Len(t) /\ k + 1 # 1
      BY <1>1, <2>1, <2>2
    <3>2. QED
      BY <1>1, <3>1
  <2>3. QED
    BY <2>1, <2>2
<1>3. QED
  BY <1>1, <1>2 DEF Apart

LEMMA NoneApart ==
  ASSUME NEW s, NEW c, \A k \in DOMAIN s : ~IsMessage(s[k], c)
  PROVE  Apart(s, c) /\ \A f \in Nat : Exactly(s, c, f, f)
BY DEF Apart, Exactly

LEMMA SameApart ==
  ASSUME NEW s, NEW c, NEW e, SameContexts(c, e)
  PROVE  Apart(s, c) <=> Apart(s, e)
<1>1. \A t : IsMessage(t, c) <=> IsMessage(t, e)
  BY SameMessages
<1>2. QED
  BY <1>1 DEF Apart

(* Of a message either nothing arrives, or what arrives begins with it.    *)
LEMMA MessageWritten ==
  ASSUME NEW p \in Packet, NEW ok \in BOOLEAN, NEW t \in SendPacket(p, ok)
  PROVE  /\ t \in Seq(Token)
         /\ \/ /\ Len(t) >= 1 /\ t[1].packet = p
               /\ \A k \in 2 .. Len(t) : t[k] = Delim
            \/ ~ok /\ \A k \in 1 .. Len(t) : t[k] = Cut
<1>1. Frame(p) \in Seq(Token) /\ Len(Frame(p)) = 2 /\ Frame(p)[1] = Body(p) /\ Frame(p)[2] = Delim
  BY TokenTypes DEF Frame
<1>2. t \in Seq(Token)
  BY PacketWritten
<1>3. CASE t = Frame(p)
  <2>1. Len(t) = 2 /\ t[1].packet = p /\ t[2] = Delim
    BY <1>1, <1>3 DEF Body
  <2>2. \A k \in 2 .. Len(t) : k = 2
    BY <2>1
  <2>3. QED
    BY <1>2, <2>1, <2>2
<1>4. CASE ~ok /\ t \in {<<>>, <<Cut>>, <<Body(p)>>}
  BY <1>2, <1>4 DEF Body
<1>5. QED
  BY <1>3, <1>4 DEF SendPacket

-----------------------------------------------------------------------------
(* What a step makes of the messages on their way to an end: it keeps them *)
(* but for one the end opens, leaves none, or adds one that was sealed.    *)

ToArkIs(n) == Exactly(h2a, ArkContexts, ArkContexts.got, n)
ToHostIs(n) == Exactly(a2h, hostSession, hostSession.got, n)

ToArkApart ==
  "noise" \in Disturbances
    \/ (Apart(h2a, ArkContexts) /\ (hostPc # "idle" => EndsClean(h2a)))
ToHostApart == Apart(a2h, hostSession)

ToArkKept == (\A n \in Nat : ToArkIs(n) => ToArkIs(n)') /\ ToArkApart'
ToHostKept == (\A n \in Nat : ToHostIs(n) => ToHostIs(n)') /\ ToHostApart'

ToArkNone == ToArkIs(0)' /\ ToArkApart'
ToHostNone == ToHostIs(0)' /\ ToHostApart'

ToArkGrows ==
  /\ Secure!Matched(hostSession, ArkContexts)
  /\ \E n \in 0 .. MaxMessages - 1 :
       n = hostSession.sent /\ ToArkIs(n) /\ ToArkIs(n + 1)'
  /\ ToArkApart'
ToHostGrows ==
  /\ Secure!Matched(hostSession, arkSession)
  /\ \E n \in 0 .. MaxReplies - 1 :
       n = arkSession.sent /\ ToHostIs(n) /\ ToHostIs(n + 1)'
  /\ ToHostApart'

LEMMA QueuesFollow ==
  ASSUME QueueInv, SyncInv', KeysKnown',
         ToArkKept \/ ToArkNone \/ ToArkGrows, ToHostKept \/ ToHostNone \/ ToHostGrows
  PROVE  QueueInv'
<1>1. MaxMessages \in Nat /\ MaxReplies \in Nat
  BY HostAssumption, ArkAssumption
<1>2. (\E n \in 0 .. MaxMessages : ToArkIs(n)) /\ \E n \in 0 .. MaxReplies : ToHostIs(n)
  BY DEF QueueInv, QueuesInOrder, ToArkIs, ToHostIs
<1>3. \E n \in 0 .. MaxMessages : ToArkIs(n)'
  <2>1. CASE ToArkKept
    BY <1>1, <1>2, <2>1 DEF ToArkKept
  <2>2. CASE ToArkNone
    BY <1>1, <2>2 DEF ToArkNone
  <2>3. CASE ToArkGrows
    <3>1. PICK n \in 0 .. MaxMessages - 1 : ToArkIs(n + 1)'
      BY <2>3 DEF ToArkGrows
    <3>2. n + 1 \in 0 .. MaxMessages
      BY <1>1
    <3>3. QED
      BY <3>1, <3>2
  <2>4. QED
    BY <2>1, <2>2, <2>3
<1>4. \E n \in 0 .. MaxReplies : ToHostIs(n)'
  <2>1. CASE ToHostKept
    BY <1>1, <1>2, <2>1 DEF ToHostKept
  <2>2. CASE ToHostNone
    BY <1>1, <2>2 DEF ToHostNone
  <2>3. CASE ToHostGrows
    <3>1. PICK n \in 0 .. MaxReplies - 1 : ToHostIs(n + 1)'
      BY <2>3 DEF ToHostGrows
    <3>2. n + 1 \in 0 .. MaxReplies
      BY <1>1
    <3>3. QED
      BY <3>1, <3>2
  <2>4. QED
    BY <2>1, <2>2, <2>3
<1>5. QueuesInOrder'
  BY <1>3, <1>4 DEF QueuesInOrder, ToArkIs, ToHostIs
<1>6. ToArkApart' /\ ToHostApart'
  BY DEF ToArkKept, ToArkNone, ToArkGrows, ToHostKept, ToHostNone, ToHostGrows
<1>7. QueuesApart'
  BY <1>6 DEF QueuesApart, ToArkApart, ToHostApart
<1>8. QED
  BY <1>5, <1>7 DEF QueueInv

(* The session the Ark is in or waits to open has number keys, and none if *)
(* it is in no session and waits for none.                                 *)
LEMMA ContextTypes ==
  ASSUME QueueInv
  PROVE  /\ h2a \in Seq(Token) /\ a2h \in Seq(Token)
         /\ ArkContexts \in Session /\ hostSession \in Session /\ arkSession \in Session
         /\ ArkContexts.got \in Nat /\ ArkContexts.host \in Nat /\ ArkContexts.ark \in Nat
         /\ hostSession.got \in Nat /\ hostSession.sent \in Nat
         /\ hostSession.host \in Nat /\ hostSession.ark \in Nat
         /\ arkSession.got \in Nat /\ arkSession.sent \in Nat
         /\ arkSession.host \in Nat /\ arkSession.ark \in Nat
         /\ hostKey \in Nat /\ arkKey \in Nat /\ arkHost \in Nat
         /\ hostPc \in {"idle", "hello", "ack"} /\ arkPc \in {"serve", "hello", "ack"}
         /\ arkPc = "ack" => arkSession = NoSession
         /\ arkPc # "ack" => ArkContexts = arkSession
         /\ arkPc = "ack" => ArkContexts = NewSession(arkHost, arkKey)
<1>1. TypeOK
  BY DEF QueueInv, SyncInv, WireInv
<1>2. arkSession # NoSession => arkPc = "serve"
  BY SessionsKnown DEF QueueInv
<1>3. ArkContexts \in Session
  BY <1>1, SyncTypes, SessionTypes DEF ArkContexts
<1>4. ArkContexts.got \in Nat /\ ArkContexts.host \in Nat /\ ArkContexts.ark \in Nat
  BY <1>3, SessionTypes
<1>5. QED
  BY <1>1, <1>2, <1>3, <1>4, SyncTypes DEF ArkContexts

LEMMA NoSessionFields == NoSession.host = 0 /\ NoSession.got = 0 /\ NoSession.sent = 0
BY DEF NoSession, NewSession

(* An end without a session has no messages on their way.                  *)
LEMMA ToHostNoSession ==
  ASSUME KeysKnown', hostSession' = NoSession
  PROVE  ToHostNone
<1>1. \A k \in DOMAIN a2h' : ~IsMessage(a2h'[k], NoSession)
  <2> SUFFICES ASSUME NEW k \in DOMAIN a2h', IsMessage(a2h'[k], NoSession) PROVE FALSE
    OBVIOUS
  <2>1. a2h'[k].packet.host \in 1 .. arkHost'
    BY DEF KeysKnown, IsMessage
  <2>2. a2h'[k].packet.host = 0
    BY NoSessionFields DEF IsMessage, SameContexts
  <2>3. QED
    BY <2>1, <2>2
<1>2. Exactly(a2h', NoSession, 0, 0) /\ Apart(a2h', NoSession)
  BY <1>1, NoneApart
<1>3. QED
  BY <1>2, NoSessionFields DEF ToHostNone, ToHostIs, ToHostApart

LEMMA ToArkNoSession ==
  ASSUME QueueInv, KeysKnown', ArkContexts' = NoSession, UNCHANGED hostVars, h2a' \in Seq(Token),
         \E n \in 0 .. Len(h2a) : IsTail(h2a', h2a, n) /\ SameDelims(h2a', h2a, n)
  PROVE  ToArkNone
<1>1. \A k \in DOMAIN h2a' : ~IsMessage(h2a'[k], NoSession)
  <2> SUFFICES ASSUME NEW k \in DOMAIN h2a', IsMessage(h2a'[k], NoSession) PROVE FALSE
    OBVIOUS
  <2>1. h2a'[k].packet.host > 0
    BY DEF KeysKnown, IsMessage
  <2>2. h2a'[k].packet.host = 0
    BY NoSessionFields DEF IsMessage, SameContexts
  <2>3. QED
    BY <2>1, <2>2
<1>2. Exactly(h2a', NoSession, 0, 0) /\ Apart(h2a', NoSession)
  BY <1>1, NoneApart
<1>3. EndsClean(h2a) => EndsClean(h2a')
  BY CleanTail, ContextTypes
<1>4. hostPc' = hostPc
  BY DEF hostVars
<1>5. ToArkApart'
  BY <1>2, <1>3, <1>4 DEF QueueInv, QueuesApart, ToArkApart
<1>6. QED
  BY <1>2, <1>5, NoSessionFields DEF ToArkNone, ToArkIs

(* The host writes nothing of the session the Ark is in or waits to open.  *)
LEMMA ToArkWritten ==
  ASSUME QueueInv, UNCHANGED arkVars, NEW t \in Seq(Token), h2a' = h2a \o t,
         \A k \in 1 .. Len(t) : ~IsMessage(t[k], ArkContexts),
         "noise" \in Disturbances
           \/ ((EndsClean(h2a) \/ (t # <<>> => t[1] = Delim))
                /\ (hostPc' # "idle" => EndsClean(h2a')))
  PROVE  ToArkKept
<1>1. /\ h2a \in Seq(Token) /\ ArkContexts.got \in Nat /\ DOMAIN t = 1 .. Len(t)
  BY ContextTypes
<1>2. ArkContexts' = ArkContexts
  BY DEF ArkContexts, arkVars
<1>3. ASSUME NEW n \in Nat, ToArkIs(n) PROVE ToArkIs(n)'
  <2>1. Exactly(h2a', ArkContexts, ArkContexts.got, n)
    BY <1>1, <1>3, ExactlyBefore DEF ToArkIs
  <2>2. QED
    BY <1>2, <2>1 DEF ToArkIs
<1>4. ToArkApart'
  <2> SUFFICES ASSUME "noise" \notin Disturbances PROVE ToArkApart'
    BY DEF ToArkApart
  <2>1. Apart(h2a, ArkContexts)
    BY DEF QueueInv, QueuesApart
  <2>2. Apart(t, ArkContexts)
    BY <1>1, NoneApart
  <2>3. Apart(h2a', ArkContexts)
    BY <1>1, <2>1, <2>2, ApartJoined
  <2>4. QED
    BY <1>2, <2>3 DEF ToArkApart
<1>5. QED
  BY <1>3, <1>4 DEF ToArkKept

(* The Ark reads without ending its session.                               *)
LEMMA ToArkRead ==
  ASSUME QueueInv, UNCHANGED hostVars, h2a' \in Seq(Token), SameContexts(ArkContexts, ArkContexts'),
         \E n \in 0 .. Len(h2a) : IsTail(h2a', h2a, n) /\ SameDelims(h2a', h2a, n),
         \A n \in Nat : ToArkIs(n) => Exactly(h2a', ArkContexts, ArkContexts'.got, n)
  PROVE  ToArkKept
<1>1. ASSUME NEW n \in Nat, ToArkIs(n) PROVE ToArkIs(n)'
  BY <1>1, SameMessages DEF ToArkIs
<1>2. ToArkApart'
  <2> SUFFICES ASSUME "noise" \notin Disturbances PROVE ToArkApart'
    BY DEF ToArkApart
  <2>1. Apart(h2a, ArkContexts) /\ (hostPc # "idle" => EndsClean(h2a)) /\ h2a \in Seq(Token)
    BY ContextTypes DEF QueueInv, QueuesApart
  <2>2. Apart(h2a', ArkContexts) /\ (EndsClean(h2a) => EndsClean(h2a'))
    BY <2>1, ApartTail, CleanTail
  <2>3. Apart(h2a', ArkContexts') /\ hostPc' = hostPc
    BY <2>2, SameApart DEF hostVars
  <2>4. QED
    BY <2>1, <2>2, <2>3 DEF ToArkApart
<1>3. QED
  BY <1>1, <1>2 DEF ToArkKept

LEMMA ToHostRead ==
  ASSUME QueueInv, a2h' \in Seq(Token), SameContexts(hostSession, hostSession'),
         \E n \in 0 .. Len(a2h) : IsTail(a2h', a2h, n) /\ SameDelims(a2h', a2h, n),
         \A n \in Nat : ToHostIs(n) => Exactly(a2h', hostSession, hostSession'.got, n)
  PROVE  ToHostKept
<1>1. ASSUME NEW n \in Nat, ToHostIs(n) PROVE ToHostIs(n)'
  BY <1>1, SameMessages DEF ToHostIs
<1>2. Apart(a2h, hostSession) /\ a2h \in Seq(Token)
  BY ContextTypes DEF QueueInv, QueuesApart
<1>3. Apart(a2h', hostSession)
  BY <1>2, ApartTail
<1>4. Apart(a2h', hostSession')
  BY <1>3, SameApart
<1>5. QED
  BY <1>1, <1>4 DEF ToHostKept, ToHostApart

(* The Ark writes nothing of the host's session.                           *)
LEMMA ToHostWritten ==
  ASSUME QueueInv, UNCHANGED hostVars, NEW t \in Seq(Token), a2h' = a2h \o t,
         \A k \in 1 .. Len(t) : ~IsMessage(t[k], hostSession),
         \/ EndsClean(a2h)
         \/ \A k \in DOMAIN a2h : ~IsMessage(a2h[k], hostSession)
         \/ t = <<>>
  PROVE  ToHostKept
<1>1. /\ a2h \in Seq(Token) /\ hostSession.got \in Nat /\ DOMAIN t = 1 .. Len(t)
  BY ContextTypes
<1>2. hostSession' = hostSession
  BY DEF hostVars
<1>3. ASSUME NEW n \in Nat, ToHostIs(n) PROVE ToHostIs(n)'
  <2>1. Exactly(a2h', hostSession, hostSession.got, n)
    BY <1>1, <1>3, ExactlyBefore DEF ToHostIs
  <2>2. QED
    BY <1>2, <2>1 DEF ToHostIs
<1>4. Apart(a2h', hostSession)
  <2>1. Apart(a2h, hostSession)
    BY DEF QueueInv, QueuesApart
  <2>2. CASE EndsClean(a2h)
    <3>1. Apart(t, hostSession)
      BY <1>1, NoneApart
    <3>2. QED
      BY <1>1, <2>1, <2>2, <3>1, ApartJoined
  <2>3. CASE \A k \in DOMAIN a2h : ~IsMessage(a2h[k], hostSession)
    <3>1. \A k \in DOMAIN a2h' : ~IsMessage(a2h'[k], hostSession)
      BY <1>1, <2>3, JoinedTokens
    <3>2. QED
      BY <3>1, NoneApart
  <2>4. CASE t = <<>>
    BY <1>1, <2>1, <2>4, NothingWritten
  <2>5. QED
    BY <2>2, <2>3, <2>4
<1>5. QED
  BY <1>2, <1>3, <1>4 DEF ToHostKept, ToHostApart

-----------------------------------------------------------------------------
(* The keys of what is on its way.                                         *)

LEMMA HostKnowsKeys ==
  ASSUME QueueInv, UNCHANGED arkVars,
         hostSession' # NoSession => hostSession'.host > 0 /\ hostSession'.ark > 0,
         NEW t \in Seq(Token), h2a' = h2a \o t,
         \A k \in 1 .. Len(t) :
           t[k].packet.type = "message" => t[k].packet.host > 0 /\ t[k].packet.ark <= arkKey,
         a2h' \in Seq(Token), \E n \in 0 .. Len(a2h) : IsTail(a2h', a2h, n) /\ SameDelims(a2h', a2h, n),
         hostPc' # "idle" => \/ hostPc # "idle" /\ hostKey' = hostKey
                             \/ hostKey' = hostKey + 1
  PROVE  KeysKnown'
<1>1. /\ h2a \in Seq(Token) /\ a2h \in Seq(Token) /\ hostKey \in Nat /\ arkHost \in Nat
      /\ DOMAIN t = 1 .. Len(t)
  BY ContextTypes
<1>2. arkPc' = arkPc /\ arkKey' = arkKey /\ arkHost' = arkHost /\ arkSession' = arkSession
  BY DEF arkVars
<1>3. KeysKnown /\ arkHost <= hostKey
  BY DEF QueueInv, SyncInv, WireInv, HellosInOrder
<1>4. arkPc' = "ack" \/ arkSession' # NoSession => arkHost' > 0 /\ arkKey' > 0
  BY <1>2, <1>3 DEF KeysKnown
<1>5. \A k \in DOMAIN h2a' : h2a'[k].packet.type = "message" =>
        h2a'[k].packet.host > 0 /\ h2a'[k].packet.ark <= arkKey'
  BY <1>1, <1>2, <1>3, JoinedTokens DEF KeysKnown
<1>6. \A k \in DOMAIN a2h' : a2h'[k] = Cut \/ \E j \in DOMAIN a2h : a2h'[k] = a2h[j]
  BY <1>1, TailTokens
<1>7. ASSUME NEW k \in DOMAIN a2h', a2h'[k].packet.type = "message"
      PROVE  /\ a2h'[k].packet.host \in 1 .. arkHost'
             /\ hostPc' # "idle" => a2h'[k].packet.host < hostKey'
  <2>1. PICK j \in DOMAIN a2h : a2h'[k] = a2h[j]
    BY <1>6, <1>7, SpecialTypes
  <2>2. /\ a2h[j].packet.host \in 1 .. arkHost
        /\ hostPc # "idle" => a2h[j].packet.host < hostKey
    BY <1>3, <1>7, <2>1 DEF KeysKnown
  <2>3. QED
    BY <1>1, <1>2, <1>3, <2>1, <2>2
<1>8. ASSUME NEW k \in DOMAIN a2h', a2h'[k].packet.type = "arkhello"
      PROVE  a2h'[k].packet.host > 0 /\ a2h'[k].packet.ark > 0
  BY <1>3, <1>6, <1>8, SpecialTypes DEF KeysKnown
<1>9. QED
  BY <1>4, <1>5, <1>7, <1>8 DEF KeysKnown

LEMMA ArkKnowsKeys ==
  ASSUME QueueInv, UNCHANGED hostVars,
         arkPc' = "ack" \/ arkSession' # NoSession => arkHost' > 0 /\ arkKey' > 0,
         arkKey' \in Nat, arkHost' \in Nat, arkKey <= arkKey', arkHost <= arkHost',
         NEW t \in Seq(Token), a2h' = a2h \o t,
         \A k \in 1 .. Len(t) :
           /\ t[k].packet.type = "message" =>
                /\ t[k].packet.host \in 1 .. arkHost'
                /\ hostPc # "idle" => t[k].packet.host < hostKey
           /\ t[k].packet.type = "arkhello" => t[k].packet.host > 0 /\ t[k].packet.ark > 0,
         h2a' \in Seq(Token), \E n \in 0 .. Len(h2a) : IsTail(h2a', h2a, n) /\ SameDelims(h2a', h2a, n)
  PROVE  KeysKnown'
<1>1. /\ h2a \in Seq(Token) /\ a2h \in Seq(Token) /\ arkHost \in Nat /\ arkKey \in Nat
      /\ DOMAIN t = 1 .. Len(t)
  BY ContextTypes
<1>2. hostPc' = hostPc /\ hostKey' = hostKey /\ hostSession' = hostSession
  BY DEF hostVars
<1>3. KeysKnown
  BY DEF QueueInv
<1>4. \A k \in DOMAIN h2a' : h2a'[k] = Cut \/ \E j \in DOMAIN h2a : h2a'[k] = h2a[j]
  BY <1>1, TailTokens
<1>5. ASSUME NEW k \in DOMAIN h2a', h2a'[k].packet.type = "message"
      PROVE  h2a'[k].packet.host > 0 /\ h2a'[k].packet.ark <= arkKey'
  <2>1. PICK j \in DOMAIN h2a : h2a'[k] = h2a[j]
    BY <1>4, <1>5, SpecialTypes
  <2>2. h2a[j].packet.host > 0 /\ h2a[j].packet.ark <= arkKey
    BY <1>3, <1>5, <2>1 DEF KeysKnown
  <2>3. h2a[j].packet.ark \in Nat
    <3>1. h2a[j] \in Token
      BY <1>1
    <3>2. QED
      BY <3>1 DEF Token, Packet
  <2>4. QED
    BY <1>1, <2>1, <2>2, <2>3
<1>6. \A k \in DOMAIN a2h' : \/ \E j \in DOMAIN a2h : a2h'[k] = a2h[j]
                             \/ \E j \in DOMAIN t : a2h'[k] = t[j]
  BY <1>1, JoinedTokens
<1>7. ASSUME NEW k \in DOMAIN a2h', a2h'[k].packet.type = "message"
      PROVE  /\ a2h'[k].packet.host \in 1 .. arkHost'
             /\ hostPc' # "idle" => a2h'[k].packet.host < hostKey'
  <2>1. CASE \E j \in DOMAIN t : a2h'[k] = t[j]
    BY <1>1, <1>2, <1>7, <2>1
  <2>2. CASE \E j \in DOMAIN a2h : a2h'[k] = a2h[j]
    <3>1. PICK j \in DOMAIN a2h : a2h'[k] = a2h[j]
      BY <2>2
    <3>2. /\ a2h[j].packet.host \in 1 .. arkHost
          /\ hostPc # "idle" => a2h[j].packet.host < hostKey
      BY <1>3, <1>7, <3>1 DEF KeysKnown
    <3>3. a2h[j].packet.host \in 1 .. arkHost'
      BY <1>1, <3>2
    <3>4. QED
      BY <1>2, <3>1, <3>2, <3>3
  <2>3. QED
    BY <1>6, <2>1, <2>2
<1>8. ASSUME NEW k \in DOMAIN a2h', a2h'[k].packet.type = "arkhello"
      PROVE  a2h'[k].packet.host > 0 /\ a2h'[k].packet.ark > 0
  BY <1>1, <1>3, <1>6, <1>8 DEF KeysKnown
<1>9. QED
  BY <1>2, <1>3, <1>5, <1>7, <1>8 DEF KeysKnown

-----------------------------------------------------------------------------
(* The host's steps and the queues.                                        *)

(* The host writes no message, if anything, and ends without a session.    *)
LEMMA HostGivesUpQueues ==
  ASSUME QueueInv, UNCHANGED arkVars, hostSession' = NoSession,
         NEW t \in Seq(Token), h2a' = h2a \o t, \A k \in 1 .. Len(t) : t[k].packet.type # "message",
         "noise" \in Disturbances
           \/ ((EndsClean(h2a) \/ (t # <<>> => t[1] = Delim))
                /\ (hostPc' # "idle" => EndsClean(h2a'))),
         a2h' \in Seq(Token), \E n \in 0 .. Len(a2h) : IsTail(a2h', a2h, n) /\ SameDelims(a2h', a2h, n),
         hostPc' # "idle" => \/ hostPc # "idle" /\ hostKey' = hostKey
                             \/ hostKey' = hostKey + 1
  PROVE  KeysKnown' /\ ToArkKept /\ ToHostNone
<1>1. KeysKnown'
  BY HostKnowsKeys
<1>2. ToHostNone
  BY <1>1, ToHostNoSession
<1>3. ToArkKept
  BY ToArkWritten DEF IsMessage
<1>4. QED
  BY <1>1, <1>2, <1>3

LEMMA HostResetQueues ==
  ASSUME QueueInv, UNCHANGED arkVars, NEW ok \in BOOLEAN, HostReset(ok)
  PROVE  hostSession' = NoSession /\ KeysKnown' /\ ToArkKept /\ ToHostNone
<1>1. /\ hostSession' = NoSession /\ hostKey' = hostKey + 1 /\ a2h' = a2h
      /\ hostPc' # "idle" => ok
  BY DEF HostReset, HandshakeReturns
<1>2. PICK t \in SendReset(ok) : h2a' = h2a \o t
  BY DEF HostReset, HostWrites
<1>3. /\ t \in Seq(Token) /\ \A k \in 1 .. Len(t) : t[k] = Delim
      /\ ok => t = <<Delim, Delim>>
  BY <1>2, ResetWritten
<1>4. h2a \in Seq(Token) /\ a2h \in Seq(Token)
  BY ContextTypes
<1>5. t # <<>> => t[1] = Delim
  BY <1>3
<1>6. hostPc' # "idle" => EndsClean(h2a')
  <2> SUFFICES ASSUME ok PROVE EndsClean(h2a')
    BY <1>1
  <2>1. t # <<>> /\ EndsClean(t)
    <3>1. t = <<Delim, Delim>>
      BY <1>3, Zenon
    <3>2. t # <<>> /\ Len(t) = 2 /\ t[2] = Delim
      BY <3>1
    <3>3. QED
      BY <3>2 DEF EndsClean
  <2>2. QED
    BY <1>2, <1>3, <1>4, <2>1, CleanJoined
<1>7. a2h' \in Seq(Token) /\ \E n \in 0 .. Len(a2h) : IsTail(a2h', a2h, n) /\ SameDelims(a2h', a2h, n)
  BY <1>1, <1>4, ReadIsTail
<1>8. \A k \in 1 .. Len(t) : t[k].packet.type # "message"
  BY <1>3, SpecialTypes
<1>9. QED
  BY <1>1, <1>2, <1>3, <1>5, <1>6, <1>7, <1>8, HostGivesUpQueues

LEMMA HostSendHelloQueues ==
  ASSUME QueueInv, UNCHANGED arkVars, NEW ok \in BOOLEAN, HostSendHello(ok)
  PROVE  hostSession' = NoSession /\ KeysKnown' /\ ToArkKept /\ ToHostNone
<1>1. /\ hostPc = "hello" /\ UNCHANGED <<a2h, hostKey, hostSession>>
      /\ hostPc' # "idle" => ok
  BY DEF HostSendHello, HandshakeReturns
<1>2. h2a \in Seq(Token) /\ a2h \in Seq(Token) /\ HostHello(hostKey) \in Packet
  BY ContextTypes, PacketTypes
<1>3. PICK t \in SendPacket(HostHello(hostKey), ok) : h2a' = h2a \o t
  BY DEF HostSendHello, HostWrites
<1>4. /\ t \in Seq(Token)
      /\ \A k \in 1 .. Len(t) : \/ k = 1 /\ t[k].packet \in {HostHello(hostKey), Junk}
                                \/ t[k] = Delim
  BY <1>2, <1>3, PacketWritten
<1>5. \A k \in 1 .. Len(t) : t[k].packet.type # "message"
  BY <1>4, PacketTypesWritten, SpecialTypes
<1>6. "noise" \in Disturbances \/ EndsClean(h2a)
  BY <1>1 DEF QueueInv, QueuesApart
<1>7. hostPc' # "idle" => EndsClean(h2a')
  <2> SUFFICES ASSUME ok PROVE EndsClean(h2a')
    BY <1>1
  <2>1. t = Frame(HostHello(hostKey))
    BY <1>3 DEF SendPacket
  <2>2. QED
    BY <1>2, <1>3, <1>4, <2>1, FrameFenced, CleanJoined
<1>8. hostSession' = NoSession
  BY <1>1, SessionsKnown DEF QueueInv
<1>9. a2h' \in Seq(Token) /\ \E n \in 0 .. Len(a2h) : IsTail(a2h', a2h, n) /\ SameDelims(a2h', a2h, n)
  BY <1>1, <1>2, ReadIsTail
<1>10. QED
  BY <1>1, <1>3, <1>4, <1>5, <1>6, <1>7, <1>8, <1>9, HostGivesUpQueues

LEMMA HostSendAckQueues ==
  ASSUME QueueInv, UNCHANGED arkVars, NEW ok \in BOOLEAN, HostSendAck(ok)
  PROVE  /\ KeysKnown' /\ ToArkKept /\ ToHostNone
         /\ hostSession = NoSession /\ (~ok => hostSession' = NoSession)
         /\ ok => /\ Secure!IsNew(hostSession') /\ hostSession' \in Session
                  /\ ~Secure!Matched(hostSession', arkSession)
<1>1. /\ hostPc = "ack" /\ hostPc' = "idle" /\ a2h' = Rest(a2h)
  BY DEF HostSendAck, HandshakeReturns
<1>2. PICK p \in NextPackets(a2h) :
        /\ IsAnswer(p)
        /\ HostWrites(SendPacket(HostAck(p.host, p.ark), ok))
        /\ hostSession' = IF ok THEN NewSession(p.host, p.ark) ELSE NoSession
  BY DEF HostSendAck
<1>3. /\ h2a \in Seq(Token) /\ a2h \in Seq(Token) /\ hostKey \in Nat /\ arkSession.host \in Nat
  BY ContextTypes
<1>4. p.type = "arkhello" /\ p.host = hostKey /\ p.host \in Nat /\ p.ark \in Nat
  BY <1>2, <1>3, PacketsRead DEF Packet, IsAnswer
<1>5. p.host > 0 /\ p.ark > 0
  <2>1. 1 \in DOMAIN a2h /\ a2h[1].packet = p
    BY <1>2, <1>3, <1>4, SentPacketRead
  <2>2. QED
    BY <1>4, <2>1 DEF QueueInv, KeysKnown
<1> DEFINE q == HostAck(p.host, p.ark)
<1>6. q \in Packet /\ q.type = "ack"
  BY <1>4, PacketTypes, PacketTypesWritten
<1>7. PICK t \in SendPacket(q, ok) : h2a' = h2a \o t
  BY <1>2 DEF HostWrites
<1> HIDE DEF q
<1>8. /\ t \in Seq(Token)
      /\ \A k \in 1 .. Len(t) : \/ k = 1 /\ t[k].packet \in {q, Junk}
                                \/ t[k] = Delim
  BY <1>6, <1>7, PacketWritten
<1>9. \A k \in 1 .. Len(t) : t[k].packet.type # "message"
  BY <1>6, <1>8, SpecialTypes
<1>10. "noise" \in Disturbances \/ EndsClean(h2a)
  BY <1>1 DEF QueueInv, QueuesApart
<1>11. PICK n \in 0 .. Len(a2h) : IsTail(a2h', a2h, n) /\ SameDelims(a2h', a2h, n)
  BY <1>1, <1>2, <1>3, ReadIsTail
<1>12. a2h' \in Seq(Token)
  BY <1>1, <1>2, <1>3, ReadIsTail
<1>13. hostSession = NoSession
  BY <1>1, SessionsKnown DEF QueueInv
<1>14. ok => hostSession'.host = hostKey /\ hostSession'.ark = p.ark /\ hostSession'.got = 0
  BY <1>2, <1>4 DEF NewSession
<1>15. KeysKnown'
  <2>1. hostSession' # NoSession => hostSession'.host > 0 /\ hostSession'.ark > 0
    BY <1>2, <1>4, <1>5, <1>14
  <2>2. QED
    BY <1>1, <1>7, <1>8, <1>9, <1>11, <1>12, <2>1, HostKnowsKeys
<1>16. ToArkKept
  BY <1>1, <1>7, <1>8, <1>9, <1>10, ToArkWritten DEF IsMessage
<1>17. ~ok => hostSession' = NoSession
  BY <1>2
<1>18. ASSUME ok
       PROVE  ToHostNone /\ Secure!IsNew(hostSession') /\ hostSession' \in Session
                /\ ~Secure!Matched(hostSession', arkSession)
  <2>1. \A k \in DOMAIN a2h' : ~IsMessage(a2h'[k], hostSession')
    <3> SUFFICES ASSUME NEW k \in DOMAIN a2h', IsMessage(a2h'[k], hostSession') PROVE FALSE
      OBVIOUS
    <3>1. PICK j \in DOMAIN a2h : a2h'[k] = a2h[j]
      BY <1>3, <1>11, <1>12, TailTokens, SpecialNoMessage
    <3>2. a2h[j].packet.type = "message" /\ a2h[j].packet.host = hostKey
      BY <1>14, <1>18, <3>1 DEF IsMessage, SameContexts
    <3>3. a2h[j].packet.host < hostKey
      BY <1>1, <3>2 DEF QueueInv, KeysKnown
    <3>4. QED
      BY <1>3, <3>2, <3>3
  <2>2. ToHostNone
    BY <1>14, <1>18, <2>1, NoneApart DEF ToHostNone, ToHostIs, ToHostApart
  <2>3. Secure!IsNew(hostSession')
    BY <1>2, <1>4, <1>5, <1>14, <1>18 DEF Secure!IsNew, Secure!NewSession, NewSession
  <2>4. hostSession' \in Session
    BY <1>2, <1>4, <1>18, SessionTypes
  <2>5. ~Secure!Matched(hostSession', arkSession)
    <3> SUFFICES ASSUME Secure!Matched(hostSession', arkSession) PROVE FALSE
      OBVIOUS
    <3>1. arkSession # NoSession /\ arkSession.host = hostKey
      BY <1>14, <1>18, MatchedFacts
    <3>2. arkSession.host < hostKey
      BY <1>1, <3>1 DEF QueueInv, SyncInv, NotYetUsed
    <3>3. QED
      BY <1>3, <3>1, <3>2
  <2>6. QED
    BY <2>2, <2>3, <2>4, <2>5
<1>19. ToHostNone
  <2>1. ~ok => ToHostNone
    BY <1>15, <1>17, ToHostNoSession
  <2>2. QED
    BY <1>18, <2>1
<1>20. QED
  BY <1>13, <1>15, <1>16, <1>17, <1>18, <1>19

(* The host reads or gives up and is without a session afterwards.         *)
LEMMA HostQuitsQueues ==
  ASSUME QueueInv, UNCHANGED arkVars, hostSession' = NoSession,
         \/ HostReject \/ HostSkipStale \/ HostAbort \/ HostReadFails
         \/ HostNextMessage \/ HostRestart
  PROVE  KeysKnown' /\ ToArkKept /\ ToHostNone
<1>1. h2a' = h2a /\ hostKey' = hostKey /\ (hostPc' = hostPc \/ hostPc' = "idle")
  BY DEF HostReject, HostSkipStale, HostAbort, HostReadFails, HostNextMessage, HostRestart,
         HandshakeReturns
<1>2. h2a \in Seq(Token) /\ a2h \in Seq(Token)
  BY ContextTypes
<1>3. a2h' \in Seq(Token) /\ \E n \in 0 .. Len(a2h) : IsTail(a2h', a2h, n) /\ SameDelims(a2h', a2h, n)
  <2>1. \/ a2h' = a2h
        \/ a2h' \in Remains(a2h)
        \/ a2h' = Rest(a2h) /\ \E p : p \in NextPackets(a2h)
    BY DEF HostReject, HostSkipStale, HostAbort, HostReadFails, HostNextMessage, HostRestart
  <2>2. QED
    BY <1>2, <2>1, ReadIsTail
<1> DEFINE t == <<>>
<1>4. t \in Seq(Token) /\ h2a' = h2a \o t /\ \A k \in 1 .. Len(t) : FALSE
  BY <1>1, <1>2, NothingWritten
<1>5. \A k \in 1 .. Len(t) : t[k].packet.type # "message"
  BY <1>4
<1>6. "noise" \in Disturbances \/ (hostPc' # "idle" => EndsClean(h2a'))
  BY <1>1 DEF QueueInv, QueuesApart
<1>7. t # <<>> => t[1] = Delim
  OBVIOUS
<1> HIDE DEF t
<1>8. QED
  BY <1>1, <1>3, <1>4, <1>5, <1>6, <1>7, HostGivesUpQueues

LEMMA HostNextMessageQueues ==
  ASSUME QueueInv, UNCHANGED arkVars, HostNextMessage, hostSession' # NoSession
  PROVE  /\ KeysKnown' /\ ToArkKept /\ ToHostKept
         /\ \/ hostSession' = hostSession
            \/ /\ hostSession' = [hostSession EXCEPT !.got = @ + 1]
               /\ \A n \in Nat : ToHostIs(n) => hostSession.got < n
<1>1. /\ hostPc = "idle" /\ hostPc' = "idle" /\ hostKey' = hostKey
      /\ h2a' = h2a /\ a2h' = Rest(a2h)
  BY DEF HostNextMessage
<1>2. PICK p \in NextPackets(a2h) :
        \/ p.type = "empty" /\ hostSession' = hostSession
        \/ /\ hostSession # NoSession /\ HostOpens(p)
           /\ hostSession' = [hostSession EXCEPT !.got = @ + 1]
  BY DEF HostNextMessage
<1>3. /\ h2a \in Seq(Token) /\ a2h \in Seq(Token) /\ hostSession \in Session
      /\ hostSession.got \in Nat
  BY ContextTypes
<1>4. SameContexts(hostSession, hostSession') /\ hostSession # NoSession
  BY <1>2, <1>3 DEF SameContexts, Session
<1>5. a2h' \in Seq(Token) /\ \E n \in 0 .. Len(a2h) : IsTail(a2h', a2h, n) /\ SameDelims(a2h', a2h, n)
  BY <1>1, <1>2, <1>3, ReadIsTail
<1> DEFINE t == <<>>
<1>6. t \in Seq(Token) /\ h2a' = h2a \o t /\ t = <<>> /\ \A k \in 1 .. Len(t) : FALSE
  BY <1>1, <1>3, NothingWritten
<1> HIDE DEF t
<1>7. KeysKnown'
  <2>1. hostSession'.host > 0 /\ hostSession'.ark > 0
    BY <1>4 DEF QueueInv, KeysKnown, SameContexts
  <2>2. QED
    BY <1>1, <1>5, <1>6, <2>1, HostKnowsKeys
<1>8. ToArkKept
  <2>1. "noise" \in Disturbances \/ (hostPc' # "idle" => EndsClean(h2a'))
    BY <1>1
  <2>2. t # <<>> => t[1] = Delim
    BY <1>6
  <2>3. QED
    BY <1>6, <2>1, <2>2, ToArkWritten
<1>9. CASE p.type = "empty" /\ hostSession' = hostSession
  <2>1. \A n \in Nat : ToHostIs(n) => Exactly(a2h', hostSession, hostSession'.got, n)
    BY <1>1, <1>3, <1>9, OtherPast DEF ToHostIs
  <2>2. ToHostKept
    BY <1>4, <1>5, <2>1, ToHostRead
  <2>3. QED
    BY <1>7, <1>8, <1>9, <2>2
<1>10. CASE HostOpens(p) /\ hostSession' = [hostSession EXCEPT !.got = @ + 1]
  <2>1. hostSession'.got = hostSession.got + 1
    BY <1>3, <1>10 DEF Session
  <2>2. ASSUME NEW n \in Nat, ToHostIs(n)
        PROVE  Exactly(a2h', hostSession, hostSession'.got, n)
    BY <1>1, <1>3, <1>10, <2>1, <2>2, OpenedPast DEF ToHostIs, HostOpens
  <2>3. ToHostKept
    BY <1>4, <1>5, <2>2, ToHostRead
  <2>4. ASSUME NEW n \in Nat, ToHostIs(n) PROVE hostSession.got < n
    <3>1. hostSession.got + 1 <= n
      BY <2>1, <2>2, <2>4 DEF Exactly
    <3>2. QED
      BY <1>3, <3>1
  <2>5. QED
    BY <1>7, <1>8, <1>10, <2>3, <2>4
<1>11. QED
  BY <1>2, <1>9, <1>10

LEMMA HostDiscardsQueues ==
  ASSUME QueueInv, UNCHANGED arkVars, HostDiscards
  PROVE  KeysKnown' /\ ToArkKept /\ ToHostKept /\ hostSession' = hostSession
<1>1. /\ Glued(a2h) /\ a2h' = Rest(a2h) /\ h2a' = h2a
      /\ hostPc' = hostPc /\ hostKey' = hostKey /\ hostSession' = hostSession
  BY DEF HostDiscards, hostVars
<1>2. /\ h2a \in Seq(Token) /\ a2h \in Seq(Token) /\ hostSession.got \in Nat
  BY ContextTypes
<1>3. a2h' \in Seq(Token) /\ \E n \in 0 .. Len(a2h) : IsTail(a2h', a2h, n) /\ SameDelims(a2h', a2h, n)
  BY <1>1, <1>2, ReadIsTail
<1> DEFINE t == <<>>
<1>4. t \in Seq(Token) /\ h2a' = h2a \o t /\ \A k \in 1 .. Len(t) : FALSE
  BY <1>1, <1>2, NothingWritten
<1>5. t # <<>> => t[1] = Delim
  OBVIOUS
<1> HIDE DEF t
<1>6. KeysKnown'
  <2>1. hostSession' # NoSession => hostSession'.host > 0 /\ hostSession'.ark > 0
    BY <1>1 DEF QueueInv, KeysKnown
  <2>2. QED
    BY <1>1, <1>3, <1>4, <2>1, HostKnowsKeys
<1>7. ToArkKept
  <2>1. "noise" \in Disturbances \/ (hostPc' # "idle" => EndsClean(h2a'))
    BY <1>1 DEF QueueInv, QueuesApart
  <2>2. QED
    BY <1>4, <1>5, <2>1, ToArkWritten
<1>8. ToHostKept
  <2>1. Apart(a2h, hostSession)
    BY DEF QueueInv, QueuesApart
  <2>2. \A n \in Nat : ToHostIs(n) => Exactly(a2h', hostSession, hostSession'.got, n)
    BY <1>1, <1>2, <2>1, GluedPast DEF ToHostIs
  <2>3. SameContexts(hostSession, hostSession')
    BY <1>1 DEF SameContexts
  <2>4. QED
    BY <1>3, <2>2, <2>3, ToHostRead
<1>9. QED
  BY <1>1, <1>6, <1>7, <1>8

LEMMA HostSendMessageQueues ==
  ASSUME QueueInv, UNCHANGED arkVars, NEW ok \in BOOLEAN, HostSendMessage(ok)
  PROVE  /\ KeysKnown' /\ (ToArkKept \/ ToArkGrows)
         /\ ok => ToHostKept /\ hostSession' = [hostSession EXCEPT !.sent = @ + 1]
         /\ ~ok => ToHostNone /\ hostSession' = NoSession
         /\ ok /\ Secure!Matched(hostSession, ArkContexts) => ToArkGrows
         /\ ~Secure!Matched(hostSession, ArkContexts) => ToArkKept
         /\ hostSession # NoSession
<1>1. /\ hostPc = "idle" /\ hostPc' = "idle" /\ hostKey' = hostKey /\ a2h' = a2h
      /\ hostSession' = IF ok THEN [hostSession EXCEPT !.sent = @ + 1] ELSE NoSession
      /\ hostSession # NoSession /\ hostSession.sent < MaxMessages
  BY DEF HostSendMessage, AfterSend
<1>2. /\ h2a \in Seq(Token) /\ a2h \in Seq(Token) /\ hostSession \in Session
      /\ hostSession.host \in Nat /\ hostSession.ark \in Nat /\ hostSession.sent \in Nat
      /\ hostSession.got \in Nat /\ ArkContexts.got \in Nat /\ ArkContexts.host \in Nat
      /\ ArkContexts.ark \in Nat /\ MaxMessages \in Nat
  BY ContextTypes, HostAssumption
<1>3. hostSession.host > 0 /\ hostSession.ark > 0 /\ hostSession.ark <= arkKey
  BY <1>1, SessionsKnown DEF QueueInv, KeysKnown
<1> DEFINE m == Message(hostSession.host, hostSession.ark, hostSession.sent)
<1>4. m \in Packet
  BY <1>2, PacketTypes
<1>5. m.type = "message" /\ m.host = hostSession.host /\ m.ark = hostSession.ark
  BY MessageFields
<1>6. PICK t \in SendPacket(m, ok) : h2a' = h2a \o t
  BY DEF HostSendMessage, HostWrites
<1>7. m = Message(hostSession.host, hostSession.ark, hostSession.sent)
  OBVIOUS
<1> HIDE DEF m
<1>8. /\ t \in Seq(Token)
      /\ \A k \in 1 .. Len(t) : \/ k = 1 /\ t[k].packet \in {m, Junk}
                                \/ t[k] = Delim
  BY <1>4, <1>6, PacketWritten
<1>9. a2h' \in Seq(Token) /\ \E n \in 0 .. Len(a2h) : IsTail(a2h', a2h, n) /\ SameDelims(a2h', a2h, n)
  BY <1>1, <1>2, ReadIsTail
<1>10. ok => /\ SameContexts(hostSession, hostSession')
             /\ hostSession'.host = hostSession.host /\ hostSession'.ark = hostSession.ark
             /\ hostSession'.got = hostSession.got
  BY <1>1, <1>2 DEF SameContexts, Session
<1>11. KeysKnown'
  <2>1. \A k \in 1 .. Len(t) :
          t[k].packet.type = "message" => t[k].packet.host > 0 /\ t[k].packet.ark <= arkKey
    BY <1>3, <1>5, <1>8, SpecialTypes
  <2>2. hostSession' # NoSession => hostSession'.host > 0 /\ hostSession'.ark > 0
    BY <1>1, <1>3, <1>10
  <2>3. QED
    BY <1>1, <1>6, <1>8, <1>9, <2>1, <2>2, HostKnowsKeys
<1>12. "noise" \in Disturbances \/ EndsClean(h2a)
  BY <1>1 DEF QueueInv, SyncInv, SessionsFenced, Fenced
<1>13. ArkContexts' = ArkContexts
  BY DEF ArkContexts, arkVars
<1>14. ToArkApart'
  <2> SUFFICES ASSUME "noise" \notin Disturbances PROVE ToArkApart'
    BY DEF ToArkApart
  <2>1. Apart(h2a, ArkContexts) /\ Apart(t, ArkContexts)
    BY <1>4, <1>6, WrittenApart DEF QueueInv, QueuesApart
  <2>2. Apart(h2a', ArkContexts)
    BY <1>2, <1>6, <1>8, <1>12, <2>1, ApartJoined
  <2>3. QED
    BY <1>1, <1>13, <2>2 DEF ToArkApart
<1>15. ASSUME \A k \in 1 .. Len(t) : ~IsMessage(t[k], ArkContexts) PROVE ToArkKept
  BY <1>1, <1>6, <1>8, <1>12, <1>15, ToArkWritten
<1>16. ASSUME ~Secure!Matched(hostSession, ArkContexts) PROVE ToArkKept
  <2>1. ~IsMessage(Body(m), ArkContexts)
    BY <1>3, <1>5, <1>16 DEF IsMessage, SameContexts, Body, Secure!Matched
  <2>2. \A k \in 1 .. Len(t) : ~IsMessage(t[k], ArkContexts)
    BY <1>8, <2>1, SpecialNoMessage, SpecialTypes DEF IsMessage, Body
  <2>3. QED
    BY <1>15, <2>2
<1>17. ASSUME Secure!Matched(hostSession, ArkContexts)
       PROVE  ToArkGrows \/ (~ok /\ ToArkKept)
  <2>1. hostSession.host = ArkContexts.host /\ hostSession.ark = ArkContexts.ark
        /\ SameContexts(hostSession, ArkContexts)
    BY <1>17, MatchedFacts
  <2>2. Exactly(h2a, hostSession, ArkContexts.got, hostSession.sent)
    <3>1. CASE arkPc = "ack"
      <4>1. ArkContexts = NewSession(arkHost, arkKey) /\ ArkContexts.got = 0
        BY <3>1 DEF ArkContexts, NewSession
      <4>2. QED
        BY <1>17, <3>1, <4>1 DEF QueueInv, SyncInv, HostAhead
    <3>2. CASE arkPc # "ack"
      <4>1. ArkContexts = arkSession
        BY <3>2 DEF ArkContexts
      <4>2. QED
        BY <1>17, <4>1 DEF QueueInv, SyncInv, InSync
    <3>3. QED
      BY <3>1, <3>2
  <2>3. ToArkIs(hostSession.sent)
    BY <2>1, <2>2, SameMessages DEF ToArkIs
  <2>4. PICK n \in 0 .. MaxMessages - 1 : n = hostSession.sent
    BY <1>1, <1>2
  <2>5. CASE Len(t) >= 1 /\ t[1].packet = m /\ \A k \in 2 .. Len(t) : t[k] = Delim
    <3>1. t[1].packet = Message(ArkContexts.host, ArkContexts.ark, n)
      BY <1>7, <2>1, <2>4, <2>5
    <3>2. \A k \in 2 .. Len(t) : ~IsMessage(t[k], ArkContexts)
      BY <2>5, SpecialNoMessage
    <3>3. Exactly(h2a, ArkContexts, ArkContexts.got, n) /\ n \in Nat
      BY <2>3, <2>4 DEF ToArkIs
    <3>4. Exactly(h2a \o t, ArkContexts, ArkContexts.got, n + 1)
      BY <1>2, <1>8, <2>5, <3>1, <3>2, <3>3, ExactlyGrows
    <3>5. ToArkIs(n + 1)'
      BY <1>6, <1>13, <3>4 DEF ToArkIs
    <3>6. QED
      BY <1>14, <1>17, <2>3, <2>4, <3>5 DEF ToArkGrows
  <2>6. CASE ~ok /\ \A k \in 1 .. Len(t) : t[k] = Cut
    BY <1>15, <2>6, SpecialNoMessage
  <2>7. QED
    BY <1>4, <1>6, <2>5, <2>6, MessageWritten
<1>18. ASSUME ok PROVE ToHostKept /\ hostSession' = [hostSession EXCEPT !.sent = @ + 1]
  <2>1. \A n \in Nat : ToHostIs(n) => Exactly(a2h', hostSession, hostSession'.got, n)
    BY <1>1, <1>10, <1>18 DEF ToHostIs
  <2>2. ToHostKept
    BY <1>9, <1>10, <1>18, <2>1, ToHostRead
  <2>3. QED
    BY <1>1, <1>18, <2>2
<1>19. ASSUME ~ok PROVE ToHostNone /\ hostSession' = NoSession
  BY <1>1, <1>11, <1>19, ToHostNoSession
<1>20. QED
  BY <1>1, <1>11, <1>16, <1>17, <1>18, <1>19, Zenon

-----------------------------------------------------------------------------
(* The Ark's steps and the queues.                                         *)

(* The Ark reads or gives up and is without a session afterwards.          *)
LEMMA ArkQuitsQueues ==
  ASSUME QueueInv, UNCHANGED hostVars, arkSession' = NoSession,
         \/ ArkReset \/ ArkNextMessage \/ ArkStartOver \/ ArkHandshakeFails
         \/ ArkReadFails \/ ArkRestart
  PROVE  KeysKnown' /\ ToArkNone /\ ToHostKept
<1>1. a2h' = a2h /\ arkKey' = arkKey /\ arkHost' = arkHost /\ arkPc' # "ack"
  BY DEF ArkReset, ArkNextMessage, ArkStartOver, ArkHandshakeFails, ArkReadFails, ArkRestart
<1>2. /\ h2a \in Seq(Token) /\ a2h \in Seq(Token) /\ arkKey \in Nat /\ arkHost \in Nat
  BY ContextTypes
<1>3. h2a' \in Seq(Token) /\ \E n \in 0 .. Len(h2a) : IsTail(h2a', h2a, n) /\ SameDelims(h2a', h2a, n)
  <2>1. \/ h2a' = h2a
        \/ h2a' \in Remains(h2a)
        \/ h2a' = Rest(h2a) /\ \E p : p \in NextPackets(h2a)
    BY DEF ArkReset, ArkNextMessage, ArkStartOver, ArkHandshakeFails, ArkReadFails, ArkRestart
  <2>2. QED
    BY <1>2, <2>1, ReadIsTail
<1> DEFINE t == <<>>
<1>4. t \in Seq(Token) /\ a2h' = a2h \o t /\ t = <<>> /\ \A k \in 1 .. Len(t) : FALSE
  BY <1>1, <1>2, NothingWritten
<1> HIDE DEF t
<1>5. KeysKnown'
  <2>1. arkKey' \in Nat /\ arkHost' \in Nat /\ arkKey <= arkKey' /\ arkHost <= arkHost'
    BY <1>1, <1>2
  <2>2. ~(arkPc' = "ack" \/ arkSession' # NoSession)
    BY <1>1
  <2>3. QED
    BY <1>3, <1>4, <2>1, <2>2, ArkKnowsKeys
<1>6. ArkContexts' = NoSession
  BY <1>1 DEF ArkContexts
<1>7. ToArkNone
  BY <1>3, <1>5, <1>6, ToArkNoSession
<1>8. ToHostKept
  BY <1>4, ToHostWritten
<1>9. QED
  BY <1>5, <1>7, <1>8

LEMMA ArkSendHelloQueues ==
  ASSUME QueueInv, UNCHANGED hostVars, NEW ok \in BOOLEAN, ArkSendHello(ok)
  PROVE  KeysKnown' /\ ToArkNone /\ ToHostKept /\ arkSession' = NoSession
<1>1. /\ arkPc = "hello" /\ arkKey' = arkKey + 1 /\ h2a' = Rest(h2a) /\ arkSession' = arkSession
      /\ arkPc' = IF ok THEN "ack" ELSE "serve"
  BY DEF ArkSendHello
<1>2. PICK p \in NextPackets(h2a) :
        /\ p.type = "hello" /\ arkHost' = p.host
        /\ ArkWrites(SendPacket(ArkHello(p.host, arkKey'), ok))
  BY DEF ArkSendHello
<1>3. /\ h2a \in Seq(Token) /\ a2h \in Seq(Token) /\ arkKey \in Nat /\ arkHost \in Nat
      /\ arkKey' \in Nat /\ hostKey \in Nat
  BY <1>1, ContextTypes
<1>4. p.host \in Nat /\ arkHost < p.host /\ p.host <= hostKey
  <2>1. 1 \in DOMAIN h2a /\ h2a[1].packet = p
    BY <1>2, <1>3, SentPacketRead
  <2>2. arkHost < p.host /\ p.host <= hostKey
    BY <1>2, <2>1 DEF QueueInv, SyncInv, WireInv, HellosInOrder
  <2>3. p.host \in Nat
    BY <1>3, PacketsRead DEF Packet
  <2>4. QED
    BY <2>2, <2>3
<1>5. arkSession = NoSession
  BY <1>1, SessionsKnown DEF QueueInv
<1> DEFINE q == ArkHello(p.host, arkKey')
<1>6. q \in Packet /\ q.type = "arkhello" /\ q.host = p.host /\ q.ark = arkKey'
  BY <1>3, <1>4, PacketTypes, PacketTypesWritten
<1>7. PICK t \in SendPacket(q, ok) : a2h' = a2h \o t
  BY <1>2 DEF ArkWrites
<1> HIDE DEF q
<1>8. /\ t \in Seq(Token)
      /\ \A k \in 1 .. Len(t) : \/ k = 1 /\ t[k].packet \in {q, Junk}
                                \/ t[k] = Delim
  BY <1>6, <1>7, PacketWritten
<1>9. /\ h2a' \in Seq(Token)
      /\ \E n \in 0 .. Len(h2a) : IsTail(h2a', h2a, n) /\ SameDelims(h2a', h2a, n)
  BY <1>1, <1>2, <1>3, ReadIsTail
<1>10. KeysKnown'
  <2>1. p.host > 0 /\ arkKey' > 0 /\ arkKey <= arkKey' /\ arkHost <= arkHost' /\ arkHost' \in Nat
    BY <1>1, <1>2, <1>3, <1>4
  <2>2. arkHost' > 0
    BY <1>2, <2>1
  <2>3. \A k \in 1 .. Len(t) :
          /\ t[k].packet.type # "message"
          /\ t[k].packet.type = "arkhello" => t[k].packet.host > 0 /\ t[k].packet.ark > 0
    BY <1>6, <1>8, <2>1, SpecialTypes
  <2>4. QED
    BY <1>3, <1>7, <1>8, <1>9, <2>1, <2>2, <2>3, ArkKnowsKeys
<1>11. ToHostKept
  <2>1. \A k \in 1 .. Len(t) : ~IsMessage(t[k], hostSession)
    BY <1>6, <1>8, SpecialTypes DEF IsMessage
  <2>2. \A k \in DOMAIN a2h : ~IsMessage(a2h[k], hostSession)
    <3> SUFFICES ASSUME NEW k \in DOMAIN a2h, IsMessage(a2h[k], hostSession) PROVE FALSE
      OBVIOUS
    <3>1. a2h[k].packet.host \in 1 .. arkHost /\ a2h[k].packet.host = hostSession.host
      BY DEF QueueInv, KeysKnown, IsMessage, SameContexts
    <3>2. hostSession # NoSession => hostSession.host = hostKey
      BY SessionsKnown DEF QueueInv
    <3>3. QED
      BY <1>3, <1>4, <3>1, <3>2, NoSessionFields
  <2>3. QED
    BY <1>7, <1>8, <2>1, <2>2, ToHostWritten
<1>12. ToArkNone
  <2>1. CASE ~ok
    <3>1. ArkContexts' = NoSession
      BY <1>1, <1>5, <2>1 DEF ArkContexts
    <3>2. QED
      BY <1>9, <1>10, <3>1, ToArkNoSession
  <2>2. CASE ok
    <3>1. ArkContexts' = NewSession(p.host, arkKey')
      BY <1>1, <1>2, <2>2 DEF ArkContexts
    <3>2. ArkContexts'.ark = arkKey + 1 /\ ArkContexts'.got = 0
      BY <1>1, <3>1 DEF NewSession
    <3>3. \A k \in DOMAIN h2a' : h2a'[k] = Cut \/ \E j \in DOMAIN h2a : h2a'[k] = h2a[j]
      BY <1>3, <1>9, TailTokens
    <3>4. \A k \in DOMAIN h2a' : ~IsMessage(h2a'[k], ArkContexts')
      <4> SUFFICES ASSUME NEW k \in DOMAIN h2a', IsMessage(h2a'[k], ArkContexts') PROVE FALSE
        OBVIOUS
      <4>1. PICK j \in DOMAIN h2a : h2a'[k] = h2a[j]
        BY <3>3, SpecialNoMessage
      <4>2. h2a[j].packet.ark = arkKey + 1
        BY <3>2, <4>1 DEF IsMessage, SameContexts
      <4>3. h2a[j].packet.ark <= arkKey
        BY <4>1 DEF QueueInv, KeysKnown, IsMessage
      <4>4. QED
        BY <1>3, <4>2, <4>3
    <3>5. ToArkIs(0)' /\ Apart(h2a', ArkContexts')
      BY <3>2, <3>4, NoneApart DEF ToArkIs
    <3>6. EndsClean(h2a) => EndsClean(h2a')
      BY <1>3, <1>9, CleanTail
    <3>7. hostPc' = hostPc
      BY DEF hostVars
    <3>8. ToArkApart'
      BY <3>5, <3>6, <3>7 DEF QueueInv, QueuesApart, ToArkApart
    <3>9. QED
      BY <3>5, <3>8 DEF ToArkNone
  <2>3. QED
    BY <2>1, <2>2
<1>13. QED
  BY <1>1, <1>5, <1>10, <1>11, <1>12

(* The Ark writes nothing.                                                 *)
LEMMA ArkSilentQueues ==
  ASSUME QueueInv, UNCHANGED hostVars, a2h' = a2h, arkKey' = arkKey, arkHost' = arkHost,
         arkPc' = "ack" \/ arkSession' # NoSession => arkHost' > 0 /\ arkKey' > 0,
         h2a' \in Seq(Token), \E n \in 0 .. Len(h2a) : IsTail(h2a', h2a, n) /\ SameDelims(h2a', h2a, n)
  PROVE  KeysKnown' /\ ToHostKept
<1>1. h2a \in Seq(Token) /\ a2h \in Seq(Token) /\ arkKey \in Nat /\ arkHost \in Nat
  BY ContextTypes
<1> DEFINE t == <<>>
<1>2. t \in Seq(Token) /\ a2h' = a2h \o t /\ t = <<>> /\ \A k \in 1 .. Len(t) : FALSE
  BY <1>1, NothingWritten
<1> HIDE DEF t
<1>3. arkKey' \in Nat /\ arkHost' \in Nat /\ arkKey <= arkKey' /\ arkHost <= arkHost'
  BY <1>1
<1>4. KeysKnown'
  BY <1>2, <1>3, ArkKnowsKeys
<1>5. ToHostKept
  BY <1>2, ToHostWritten
<1>6. QED
  BY <1>4, <1>5

LEMMA ArkNextMessageQueues ==
  ASSUME QueueInv, UNCHANGED hostVars, ArkNextMessage, arkSession' # NoSession
  PROVE  /\ KeysKnown' /\ ToArkKept /\ ToHostKept
         /\ arkSession # NoSession /\ ArkContexts = arkSession /\ ArkContexts' = arkSession'
         /\ arkSession' = [arkSession EXCEPT !.got = @ + 1]
         /\ \A n \in Nat : ToArkIs(n) => arkSession.got < n
<1>1. /\ arkPc = "serve" /\ arkPc' = "serve" /\ arkKey' = arkKey /\ arkHost' = arkHost
      /\ a2h' = a2h /\ h2a' = Rest(h2a)
  BY DEF ArkNextMessage
<1>2. PICK p \in NextPackets(h2a) :
        /\ arkSession # NoSession /\ ArkOpens(p)
        /\ arkSession' = [arkSession EXCEPT !.got = @ + 1]
  BY DEF ArkNextMessage
<1>3. /\ h2a \in Seq(Token) /\ a2h \in Seq(Token) /\ arkSession \in Session
      /\ arkSession.got \in Nat
  BY ContextTypes
<1>4. ArkContexts = arkSession /\ ArkContexts' = arkSession'
  BY <1>1 DEF ArkContexts
<1>5. SameContexts(arkSession, arkSession') /\ arkSession'.got = arkSession.got + 1
  BY <1>2, <1>3 DEF SameContexts, Session
<1>6. h2a' \in Seq(Token) /\ \E n \in 0 .. Len(h2a) : IsTail(h2a', h2a, n) /\ SameDelims(h2a', h2a, n)
  BY <1>1, <1>2, <1>3, ReadIsTail
<1>7. arkHost > 0 /\ arkKey > 0
  BY <1>2 DEF QueueInv, KeysKnown
<1>8. KeysKnown' /\ ToHostKept
  BY <1>1, <1>6, <1>7, ArkSilentQueues
<1>9. ASSUME NEW n \in Nat, ToArkIs(n)
      PROVE  Exactly(h2a', ArkContexts, ArkContexts'.got, n)
  BY <1>1, <1>2, <1>3, <1>4, <1>5, <1>9, OpenedPast DEF ToArkIs, ArkOpens
<1>10. ToArkKept
  BY <1>4, <1>5, <1>6, <1>9, ToArkRead
<1>11. ASSUME NEW n \in Nat, ToArkIs(n) PROVE arkSession.got < n
  <2>1. arkSession.got + 1 <= n
    BY <1>4, <1>5, <1>9, <1>11 DEF Exactly
  <2>2. QED
    BY <1>3, <2>1
<1>12. QED
  BY <1>2, <1>4, <1>8, <1>10, <1>11

LEMMA ArkDiscardsQueues ==
  ASSUME QueueInv, UNCHANGED hostVars, ArkDiscards, "noise" \notin Disturbances
  PROVE  KeysKnown' /\ ToArkKept /\ ToHostKept /\ arkSession' = arkSession
<1>1. /\ Glued(h2a) /\ h2a' = Rest(h2a) /\ a2h' = a2h
      /\ arkPc' = arkPc /\ arkKey' = arkKey /\ arkHost' = arkHost /\ arkSession' = arkSession
  BY DEF ArkDiscards, arkVars
<1>2. h2a \in Seq(Token) /\ ArkContexts.got \in Nat
  BY ContextTypes
<1>3. h2a' \in Seq(Token) /\ \E n \in 0 .. Len(h2a) : IsTail(h2a', h2a, n) /\ SameDelims(h2a', h2a, n)
  BY <1>1, <1>2, ReadIsTail
<1>4. arkPc' = "ack" \/ arkSession' # NoSession => arkHost' > 0 /\ arkKey' > 0
  BY <1>1 DEF QueueInv, KeysKnown
<1>5. KeysKnown' /\ ToHostKept
  BY <1>1, <1>3, <1>4, ArkSilentQueues
<1>6. ArkContexts' = ArkContexts
  BY <1>1 DEF ArkContexts
<1>7. Apart(h2a, ArkContexts)
  BY DEF QueueInv, QueuesApart
<1>8. \A n \in Nat : ToArkIs(n) => Exactly(h2a', ArkContexts, ArkContexts'.got, n)
  BY <1>1, <1>2, <1>6, <1>7, GluedPast DEF ToArkIs
<1>9. SameContexts(ArkContexts, ArkContexts')
  BY <1>6 DEF SameContexts
<1>10. ToArkKept
  BY <1>3, <1>8, <1>9, ToArkRead
<1>11. QED
  BY <1>1, <1>5, <1>10

LEMMA ArkEstablishQueues ==
  ASSUME QueueInv, UNCHANGED hostVars, ArkEstablish
  PROVE  /\ KeysKnown' /\ ToArkKept /\ ToHostKept
         /\ arkSession = NoSession /\ ArkContexts' = ArkContexts /\ arkSession' = ArkContexts
         /\ Secure!IsNew(arkSession')
         /\ Secure!Matched(hostSession, arkSession') =>
              hostSession.got = 0 /\ ToArkIs(hostSession.sent) /\ ToHostIs(0)
<1>1. /\ arkPc = "ack" /\ arkPc' = "serve" /\ arkKey' = arkKey /\ arkHost' = arkHost
      /\ a2h' = a2h /\ h2a' = Rest(h2a) /\ arkSession' = NewSession(arkHost, arkKey)
  BY DEF ArkEstablish
<1>2. HostAck(arkHost, arkKey) \in NextPackets(h2a)
  BY DEF ArkEstablish
<1>3. /\ h2a \in Seq(Token) /\ a2h \in Seq(Token) /\ arkKey \in Nat /\ arkHost \in Nat
      /\ ArkContexts.got \in Nat /\ hostSession.got \in Nat
  BY ContextTypes
<1>4. /\ arkSession = NoSession /\ ArkContexts = NewSession(arkHost, arkKey)
      /\ ArkContexts' = NewSession(arkHost, arkKey)
  BY <1>1, ContextTypes DEF ArkContexts
<1>5. arkHost > 0 /\ arkKey > 0
  BY <1>1 DEF QueueInv, KeysKnown
<1>6. h2a' \in Seq(Token) /\ \E n \in 0 .. Len(h2a) : IsTail(h2a', h2a, n) /\ SameDelims(h2a', h2a, n)
  BY <1>1, <1>2, <1>3, ReadIsTail
<1>7. KeysKnown' /\ ToHostKept
  BY <1>1, <1>5, <1>6, ArkSilentQueues
<1>8. ToArkKept
  <2>1. HostAck(arkHost, arkKey).type = "ack"
    BY DEF HostAck, Sealed
  <2>2. \A n \in Nat : ToArkIs(n) => Exactly(h2a', ArkContexts, ArkContexts'.got, n)
    BY <1>1, <1>2, <1>3, <1>4, <2>1, OtherPast DEF ToArkIs
  <2>3. SameContexts(ArkContexts, ArkContexts')
    BY <1>4 DEF SameContexts
  <2>4. QED
    BY <1>6, <2>2, <2>3, ToArkRead
<1>9. Secure!IsNew(arkSession')
  BY <1>1, <1>5 DEF Secure!IsNew, Secure!NewSession, NewSession
<1>10. ASSUME Secure!Matched(hostSession, arkSession')
       PROVE  hostSession.got = 0 /\ ToArkIs(hostSession.sent) /\ ToHostIs(0)
  <2>1. Secure!Matched(hostSession, NewSession(arkHost, arkKey))
    BY <1>1, <1>10
  <2>2. hostSession.got = 0 /\ Exactly(h2a, hostSession, 0, hostSession.sent)
    BY <1>1, <2>1 DEF QueueInv, SyncInv, HostAhead
  <2>3. SameContexts(hostSession, ArkContexts) /\ ArkContexts.got = 0 /\ ArkContexts.ark = arkKey
    BY <1>4, <2>1, MatchedFacts DEF NewSession
  <2>4. ToArkIs(hostSession.sent)
    BY <2>2, <2>3, SameMessages DEF ToArkIs
  <2>5. hostSession.ark = arkKey /\ hostSession.host \in Nat
    BY <2>3, ContextTypes DEF SameContexts
  <2>6. ArksBelow(a2h, arkKey)
    BY <1>1 DEF QueueInv, SyncInv, NotYetUsed
  <2>7. \A k \in DOMAIN a2h : ~IsMessage(a2h[k], hostSession)
    BY <1>3, <2>5, <2>6, NotUsedNoMessage
  <2>8. ToHostIs(0)
    <3>1. 0 \in Nat /\ Exactly(a2h, hostSession, 0, 0)
      BY <2>7, NoneApart
    <3>2. QED
      BY <2>2, <3>1 DEF ToHostIs
  <2>9. QED
    BY <2>2, <2>4, <2>8
<1>11. QED
  BY <1>1, <1>4, <1>7, <1>8, <1>9, <1>10

LEMMA ArkSendMessageQueues ==
  ASSUME QueueInv, UNCHANGED hostVars, NEW ok \in BOOLEAN, ArkSendMessage(ok)
  PROVE  /\ KeysKnown' /\ (ToHostKept \/ ToHostGrows)
         /\ ok => ToArkKept /\ arkSession' = [arkSession EXCEPT !.sent = @ + 1]
         /\ ~ok => ToArkNone /\ arkSession' = NoSession
         /\ ok /\ Secure!Matched(hostSession, arkSession) => ToHostGrows
         /\ ~Secure!Matched(hostSession, arkSession) => ToHostKept
         /\ arkSession # NoSession
         /\ ArkContexts = arkSession /\ ArkContexts' = arkSession'
<1>1. /\ arkPc = "serve" /\ arkPc' = "serve" /\ arkKey' = arkKey /\ arkHost' = arkHost
      /\ h2a' = h2a
      /\ arkSession' = IF ok THEN [arkSession EXCEPT !.sent = @ + 1] ELSE NoSession
      /\ arkSession # NoSession /\ arkSession.sent < MaxReplies
  BY DEF ArkSendMessage, AfterSend
<1>2. /\ h2a \in Seq(Token) /\ a2h \in Seq(Token) /\ arkSession \in Session
      /\ arkSession.host \in Nat /\ arkSession.ark \in Nat /\ arkSession.sent \in Nat
      /\ arkSession.got \in Nat /\ hostSession.got \in Nat /\ hostSession.host \in Nat
      /\ hostSession.ark \in Nat /\ MaxReplies \in Nat /\ arkKey \in Nat /\ arkHost \in Nat
      /\ hostKey \in Nat
  BY ContextTypes, ArkAssumption
<1>3. /\ arkHost > 0 /\ arkKey > 0 /\ arkSession.host = arkHost
      /\ hostPc # "idle" => arkSession.host < hostKey
  BY <1>1, SessionsKnown DEF QueueInv, KeysKnown, SyncInv, NotYetUsed
<1>4. ArkContexts = arkSession /\ ArkContexts' = arkSession'
  BY <1>1 DEF ArkContexts
<1>5. hostSession' = hostSession
  BY DEF hostVars
<1> DEFINE m == Message(arkSession.host, arkSession.ark, arkSession.sent)
<1>6. m \in Packet
  BY <1>2, PacketTypes
<1>7. m.type = "message" /\ m.host = arkSession.host /\ m.ark = arkSession.ark
  BY MessageFields
<1>8. PICK t \in SendPacket(m, ok) : a2h' = a2h \o t
  BY DEF ArkSendMessage, ArkWrites
<1>9. m = Message(arkSession.host, arkSession.ark, arkSession.sent)
  OBVIOUS
<1> HIDE DEF m
<1>10. /\ t \in Seq(Token)
       /\ \A k \in 1 .. Len(t) : \/ k = 1 /\ t[k].packet \in {m, Junk}
                                 \/ t[k] = Delim
  BY <1>6, <1>8, PacketWritten
<1>11. h2a' \in Seq(Token) /\ \E n \in 0 .. Len(h2a) : IsTail(h2a', h2a, n) /\ SameDelims(h2a', h2a, n)
  BY <1>1, <1>2, ReadIsTail
<1>12. ok => SameContexts(arkSession, arkSession') /\ arkSession'.got = arkSession.got
  BY <1>1, <1>2 DEF SameContexts, Session
<1>13. KeysKnown'
  <2>1. \A k \in 1 .. Len(t) :
          /\ t[k].packet.type = "message" =>
               /\ t[k].packet.host \in 1 .. arkHost
               /\ hostPc # "idle" => t[k].packet.host < hostKey
          /\ t[k].packet.type # "arkhello"
    BY <1>2, <1>3, <1>7, <1>10, SpecialTypes
  <2>2. arkKey' \in Nat /\ arkHost' \in Nat /\ arkKey <= arkKey' /\ arkHost <= arkHost'
        /\ arkHost' > 0 /\ arkKey' > 0
    BY <1>1, <1>2, <1>3
  <2>3. QED
    BY <1>1, <1>8, <1>10, <1>11, <2>1, <2>2, ArkKnowsKeys
<1>14. EndsClean(a2h)
  BY <1>1 DEF QueueInv, SyncInv, SessionsFenced, Fenced
<1>15. ToHostApart'
  <2>1. Apart(a2h, hostSession) /\ Apart(t, hostSession)
    BY <1>6, <1>8, WrittenApart DEF QueueInv, QueuesApart
  <2>2. Apart(a2h', hostSession)
    BY <1>2, <1>8, <1>10, <1>14, <2>1, ApartJoined
  <2>3. QED
    BY <1>5, <2>2 DEF ToHostApart
<1>16. ASSUME \A k \in 1 .. Len(t) : ~IsMessage(t[k], hostSession) PROVE ToHostKept
  BY <1>8, <1>10, <1>14, <1>16, ToHostWritten
<1>17. ASSUME ~Secure!Matched(hostSession, arkSession) PROVE ToHostKept
  <2>1. ~IsMessage(Body(m), hostSession)
    BY <1>2, <1>3, <1>7, <1>17 DEF IsMessage, SameContexts, Body, Secure!Matched
  <2>2. \A k \in 1 .. Len(t) : ~IsMessage(t[k], hostSession)
    BY <1>10, <2>1, SpecialNoMessage, SpecialTypes DEF IsMessage, Body
  <2>3. QED
    BY <1>16, <2>2
<1>18. ASSUME Secure!Matched(hostSession, arkSession)
       PROVE  ToHostGrows \/ (~ok /\ ToHostKept)
  <2>1. hostSession.host = arkSession.host /\ hostSession.ark = arkSession.ark
        /\ SameContexts(arkSession, hostSession)
    BY <1>18, MatchedFacts DEF SameContexts
  <2>2. Exactly(a2h, arkSession, hostSession.got, arkSession.sent)
    BY <1>18 DEF QueueInv, SyncInv, InSync
  <2>3. ToHostIs(arkSession.sent)
    BY <2>1, <2>2, SameMessages DEF ToHostIs
  <2>4. PICK n \in 0 .. MaxReplies - 1 : n = arkSession.sent
    BY <1>1, <1>2
  <2>5. CASE Len(t) >= 1 /\ t[1].packet = m /\ \A k \in 2 .. Len(t) : t[k] = Delim
    <3>1. t[1].packet = Message(hostSession.host, hostSession.ark, n)
      BY <1>9, <2>1, <2>4, <2>5
    <3>2. \A k \in 2 .. Len(t) : ~IsMessage(t[k], hostSession)
      BY <2>5, SpecialNoMessage
    <3>3. Exactly(a2h, hostSession, hostSession.got, n) /\ n \in Nat
      BY <2>3, <2>4 DEF ToHostIs
    <3>4. Exactly(a2h \o t, hostSession, hostSession.got, n + 1)
      BY <1>2, <1>10, <2>5, <3>1, <3>2, <3>3, ExactlyGrows
    <3>5. ToHostIs(n + 1)'
      BY <1>5, <1>8, <3>4 DEF ToHostIs
    <3>6. QED
      BY <1>15, <1>18, <2>3, <2>4, <3>5 DEF ToHostGrows
  <2>6. CASE ~ok /\ \A k \in 1 .. Len(t) : t[k] = Cut
    BY <1>16, <2>6, SpecialNoMessage
  <2>7. QED
    BY <1>6, <1>8, <2>5, <2>6, MessageWritten
<1>19. ASSUME ok PROVE ToArkKept /\ arkSession' = [arkSession EXCEPT !.sent = @ + 1]
  <2>1. \A n \in Nat : ToArkIs(n) => Exactly(h2a', ArkContexts, ArkContexts'.got, n)
    BY <1>1, <1>4, <1>12, <1>19 DEF ToArkIs
  <2>2. ToArkKept
    BY <1>4, <1>11, <1>12, <1>19, <2>1, ToArkRead
  <2>3. QED
    BY <1>1, <1>19, <2>2
<1>20. ASSUME ~ok PROVE ToArkNone /\ arkSession' = NoSession
  BY <1>1, <1>4, <1>11, <1>13, <1>20, ToArkNoSession
<1>21. QED
  BY <1>1, <1>4, <1>13, <1>17, <1>18, <1>19, <1>20, Zenon

LEMMA NoiseQueues ==
  ASSUME QueueInv, Noise
  PROVE  /\ KeysKnown' /\ ToArkKept /\ ToHostKept
         /\ hostSession' = hostSession /\ arkSession' = arkSession /\ arkPc' = arkPc
<1>1. /\ a2h' = a2h /\ "noise" \in Disturbances /\ UNCHANGED hostVars /\ UNCHANGED arkVars
  BY DEF Noise, Disturbed
<1>2. PICK token \in {Cut, Delim} : h2a' = Append(h2a, token)
  BY DEF Noise
<1>3. h2a \in Seq(Token) /\ a2h \in Seq(Token)
  BY ContextTypes
<1>4. /\ hostSession' = hostSession /\ hostPc' = hostPc /\ hostKey' = hostKey
      /\ arkSession' = arkSession /\ arkPc' = arkPc
  BY <1>1 DEF hostVars, arkVars
<1> DEFINE t == <<token>>
<1>5. t \in Seq(Token) /\ h2a' = h2a \o t /\ \A k \in 1 .. Len(t) : t[k] = token
  BY <1>2, <1>3, TokenTypes
<1> HIDE DEF t
<1>6. a2h' \in Seq(Token) /\ \E n \in 0 .. Len(a2h) : IsTail(a2h', a2h, n) /\ SameDelims(a2h', a2h, n)
  BY <1>1, <1>3, ReadIsTail
<1>7. KeysKnown'
  <2>1. \A k \in 1 .. Len(t) : t[k].packet.type # "message"
    BY <1>5, SpecialTypes
  <2>2. hostSession' # NoSession => hostSession'.host > 0 /\ hostSession'.ark > 0
    BY <1>4 DEF QueueInv, KeysKnown
  <2>3. QED
    BY <1>1, <1>4, <1>5, <1>6, <2>1, <2>2, HostKnowsKeys
<1>8. ToArkKept
  <2>1. \A k \in 1 .. Len(t) : ~IsMessage(t[k], ArkContexts)
    BY <1>5, SpecialNoMessage
  <2>2. QED
    BY <1>1, <1>5, <2>1, ToArkWritten
<1>9. ToHostKept
  <2>1. \A n \in Nat : ToHostIs(n) => Exactly(a2h', hostSession, hostSession'.got, n)
    BY <1>1, <1>4 DEF ToHostIs
  <2>2. SameContexts(hostSession, hostSession')
    BY <1>4 DEF SameContexts
  <2>3. QED
    BY <1>6, <2>1, <2>2, ToHostRead
<1>10. QED
  BY <1>4, <1>7, <1>8, <1>9

-----------------------------------------------------------------------------
(* What SecureLink sees of a step.                                         *)

ToArk == InFlight(h2a, arkSession)
ToHost == InFlight(a2h, hostSession)

Flights ==
  /\ \A n \in Nat : ToHostIs(n) => ToHost = Secure!Positions(hostSession.got, n)
  /\ arkPc # "ack" => \A n \in Nat : ToArkIs(n) => ToArk = Secure!Positions(arkSession.got, n)
  /\ hostSession = NoSession => ToHost = <<>>
  /\ arkSession = NoSession => ToArk = <<>>

LEMMA FlightsKnown == QueueInv => Flights
<1> SUFFICES ASSUME QueueInv PROVE Flights
  OBVIOUS
<1>1. /\ h2a \in Seq(Token) /\ a2h \in Seq(Token) /\ hostSession.got \in Nat
      /\ arkSession.got \in Nat /\ arkHost \in Nat
      /\ arkPc # "ack" => ArkContexts = arkSession
  BY ContextTypes
<1>2. ASSUME NEW n \in Nat, ToHostIs(n) PROVE ToHost = Secure!Positions(hostSession.got, n)
  BY <1>1, <1>2, InFlightExactly DEF ToHostIs, ToHost
<1>3. ASSUME arkPc # "ack", NEW n \in Nat, ToArkIs(n)
      PROVE  ToArk = Secure!Positions(arkSession.got, n)
  BY <1>1, <1>3, InFlightExactly DEF ToArkIs, ToArk
<1>4. ASSUME NEW s \in Seq(Token), \A k \in DOMAIN s : ~IsMessage(s[k], NoSession)
      PROVE  InFlight(s, NoSession) = <<>>
  <2>1. 0 \in Nat /\ Exactly(s, NoSession, 0, 0)
    BY <1>4, NoneApart
  <2>2. InFlight(s, NoSession) = Secure!Positions(0, 0)
    BY <1>4, <2>1, InFlightExactly
  <2>3. QED
    BY <2>1, <2>2, PositionsMove
<1>5. \A k \in DOMAIN h2a : ~IsMessage(h2a[k], NoSession)
  BY NoSessionFields DEF QueueInv, KeysKnown, IsMessage, SameContexts
<1>6. \A k \in DOMAIN a2h : ~IsMessage(a2h[k], NoSession)
  BY NoSessionFields DEF QueueInv, KeysKnown, IsMessage, SameContexts
<1>7. QED
  BY <1>1, <1>2, <1>3, <1>4, <1>5, <1>6 DEF Flights, ToArk, ToHost

LEMMA ToHostSame ==
  ASSUME QueueInv, Flights, Flights', ToHostKept, hostSession'.got = hostSession.got
  PROVE  ToHost' = ToHost
<1>1. PICK n \in Nat : ToHostIs(n)
  BY ArkAssumption DEF QueueInv, QueuesInOrder, ToHostIs
<1>2. ToHostIs(n)'
  BY <1>1 DEF ToHostKept
<1>3. ToHost = Secure!Positions(hostSession.got, n)
  BY <1>1 DEF Flights
<1>4. ToHost' = Secure!Positions(hostSession.got, n)'
  BY <1>2 DEF Flights
<1>5. QED
  BY <1>3, <1>4 DEF Secure!Positions

LEMMA ToArkSame ==
  ASSUME QueueInv, Flights, Flights', ToArkKept,
         \/ arkSession = NoSession /\ arkSession' = NoSession
         \/ arkPc # "ack" /\ arkPc' # "ack" /\ arkSession'.got = arkSession.got
  PROVE  ToArk' = ToArk
<1>1. CASE arkSession = NoSession /\ arkSession' = NoSession
  BY <1>1 DEF Flights
<1>2. CASE arkPc # "ack" /\ arkPc' # "ack" /\ arkSession'.got = arkSession.got
  <2>1. PICK n \in Nat : ToArkIs(n)
    BY HostAssumption DEF QueueInv, QueuesInOrder, ToArkIs
  <2>2. ToArkIs(n)'
    BY <2>1 DEF ToArkKept
  <2>3. ToArk = Secure!Positions(arkSession.got, n)
    BY <1>2, <2>1 DEF Flights
  <2>4. ToArk' = Secure!Positions(arkSession.got, n)'
    BY <1>2, <2>2 DEF Flights
  <2>5. QED
    BY <1>2, <2>3, <2>4 DEF Secure!Positions
<1>3. QED
  BY <1>1, <1>2

LEMMA ToHostMore ==
  ASSUME QueueInv, Flights, Flights', ToHostGrows, hostSession' = hostSession
  PROVE  ToHost' = Append(ToHost, arkSession.sent)
<1>1. PICK n \in 0 .. MaxReplies - 1 :
        n = arkSession.sent /\ ToHostIs(n) /\ ToHostIs(n + 1)'
  BY DEF ToHostGrows
<1>2. n \in Nat /\ n + 1 \in Nat /\ hostSession.got \in Nat
  BY ContextTypes, ArkAssumption
<1>3. ToHost = Secure!Positions(hostSession.got, n)
  BY <1>1, <1>2 DEF Flights
<1>4. ToHost' = Secure!Positions(hostSession.got, n + 1)'
  BY <1>1, <1>2 DEF Flights
<1>5. Secure!Positions(hostSession.got, n + 1)' = Secure!Positions(hostSession.got, n + 1)
  BY DEF Secure!Positions
<1>6. hostSession.got <= n
  BY <1>1 DEF ToHostIs, Exactly
<1>7. QED
  BY <1>1, <1>2, <1>3, <1>4, <1>5, <1>6, PositionsMove

LEMMA ToArkMore ==
  ASSUME QueueInv, Flights, Flights', ToArkGrows, UNCHANGED arkVars
  PROVE  \/ ToArk' = ToArk /\ arkSession = NoSession
         \/ ToArk' = Append(ToArk, hostSession.sent) /\ Secure!Matched(hostSession, arkSession)
<1>1. arkSession' = arkSession /\ arkPc' = arkPc
  BY DEF arkVars
<1>2. CASE arkPc = "ack"
  <2>1. arkSession = NoSession
    BY <1>2, ContextTypes
  <2>2. QED
    BY <1>1, <2>1 DEF Flights
<1>3. CASE arkPc # "ack"
  <2>1. PICK n \in 0 .. MaxMessages - 1 :
          n = hostSession.sent /\ ToArkIs(n) /\ ToArkIs(n + 1)'
    BY DEF ToArkGrows
  <2>2. n \in Nat /\ n + 1 \in Nat /\ arkSession.got \in Nat /\ ArkContexts = arkSession
    BY <1>3, ContextTypes, HostAssumption
  <2>3. ToArk = Secure!Positions(arkSession.got, n)
    BY <1>3, <2>1, <2>2 DEF Flights
  <2>4. ToArk' = Secure!Positions(arkSession.got, n + 1)'
    BY <1>1, <1>3, <2>1, <2>2 DEF Flights
  <2>5. Secure!Positions(arkSession.got, n + 1)' = Secure!Positions(arkSession.got, n + 1)
    BY <1>1 DEF Secure!Positions
  <2>6. arkSession.got <= n
    BY <2>1, <2>2 DEF ToArkIs, Exactly
  <2>7. ToArk' = Append(ToArk, hostSession.sent)
    BY <2>1, <2>2, <2>3, <2>4, <2>5, <2>6, PositionsMove
  <2>8. QED
    BY <2>2, <2>7 DEF ToArkGrows
<1>4. QED
  BY <1>2, <1>3

Mapped == Secure!Next \/ UNCHANGED <<hostSession, arkSession, ToArk, ToHost>>

LEMMA HostClosesMaps ==
  ASSUME QueueInv, Flights, Flights', UNCHANGED arkVars, hostSession' = NoSession,
         ToArkKept \/ (hostSession # NoSession /\ ToArkGrows)
  PROVE  Mapped
<1>1. arkSession' = arkSession /\ arkPc' = arkPc
  BY DEF arkVars
<1>2. ToHost' = <<>> /\ (hostSession = NoSession => ToHost = <<>>)
  BY DEF Flights
<1>3. \/ ToArk' = ToArk
      \/ /\ hostSession # NoSession /\ Secure!Matched(hostSession, arkSession)
         /\ ToArk' = Append(ToArk, hostSession.sent)
  <2>1. arkPc = "ack" => arkSession = NoSession
    BY ContextTypes
  <2>2. ToArkKept => ToArk' = ToArk
    BY <1>1, <2>1, ToArkSame
  <2>3. QED
    BY <2>2, ToArkMore
<1>4. CASE hostSession = NoSession
  BY <1>1, <1>2, <1>3, <1>4 DEF Mapped
<1>5. CASE hostSession # NoSession
  <2>1. Secure!HostCloses
    BY <1>1, <1>2, <1>3, <1>5
       DEF Secure!HostCloses, Secure!NoSession, Secure!NewSession, NoSession, NewSession, ToArk, ToHost
  <2>2. QED
    BY <2>1 DEF Mapped, Secure!Next
<1>6. QED
  BY <1>4, <1>5

LEMMA ArkClosesMaps ==
  ASSUME QueueInv, Flights, Flights', UNCHANGED hostVars, arkSession' = NoSession,
         ToHostKept \/ (arkSession # NoSession /\ ToHostGrows)
  PROVE  Mapped
<1>1. hostSession' = hostSession
  BY DEF hostVars
<1>2. ToArk' = <<>> /\ (arkSession = NoSession => ToArk = <<>>)
  BY DEF Flights
<1>3. \/ ToHost' = ToHost
      \/ /\ arkSession # NoSession /\ Secure!Matched(hostSession, arkSession)
         /\ ToHost' = Append(ToHost, arkSession.sent)
  <2>1. ToHostKept => ToHost' = ToHost
    BY <1>1, ToHostSame
  <2>2. ToHostGrows => ToHost' = Append(ToHost, arkSession.sent)
                        /\ Secure!Matched(hostSession, arkSession)
    BY <1>1, ToHostMore DEF ToHostGrows
  <2>3. QED
    BY <2>1, <2>2
<1>4. CASE arkSession = NoSession
  BY <1>1, <1>2, <1>3, <1>4 DEF Mapped
<1>5. CASE arkSession # NoSession
  <2>1. Secure!ArkCloses
    BY <1>1, <1>2, <1>3, <1>5
       DEF Secure!ArkCloses, Secure!NoSession, Secure!NewSession, NoSession, NewSession, ToArk, ToHost
  <2>2. QED
    BY <2>1 DEF Mapped, Secure!Next
<1>6. QED
  BY <1>4, <1>5

LEMMA HostOpensMaps ==
  ASSUME QueueInv, Flights, Flights', UNCHANGED arkVars, ToArkKept, ToHostNone,
         hostSession = NoSession, Secure!IsNew(hostSession'), hostSession' \in Session,
         ~Secure!Matched(hostSession', arkSession)
  PROVE  Mapped
<1>1. arkSession' = arkSession /\ arkPc' = arkPc
  BY DEF arkVars
<1>2. ToArk' = ToArk
  BY <1>1, ContextTypes, ToArkSame
<1>3. ToHost' = <<>>
  <2>1. hostSession'.got = 0
    BY DEF Secure!IsNew, Secure!NewSession
  <2>2. ToHost' = Secure!Positions(hostSession.got, 0)'
    BY DEF Flights, ToHostNone
  <2>3. Secure!Positions(hostSession.got, 0)' = Secure!Positions(0, 0)
    BY <2>1 DEF Secure!Positions
  <2>4. QED
    BY <2>2, <2>3, PositionsMove
<1>4. hostSession' \in Secure!Session /\ hostSession = Secure!NoSession
  BY DEF Session, Secure!Session, Secure!NoSession, Secure!NewSession, NoSession, NewSession
<1>5. Secure!HostOpens
  BY <1>1, <1>2, <1>3, <1>4 DEF Secure!HostOpens, ToArk, ToHost
<1>6. QED
  BY <1>5 DEF Mapped, Secure!Next

LEMMA HostSendsMaps ==
  ASSUME QueueInv, Flights, Flights', UNCHANGED arkVars, ToHostKept,
         hostSession # NoSession, hostSession' = [hostSession EXCEPT !.sent = @ + 1],
         Secure!Matched(hostSession, ArkContexts) => ToArkGrows,
         ~Secure!Matched(hostSession, ArkContexts) => ToArkKept
  PROVE  Mapped
<1>1. arkSession' = arkSession /\ arkPc' = arkPc
  BY DEF arkVars
<1>2. hostSession \in Session /\ (arkPc = "ack" => arkSession = NoSession)
      /\ (arkPc # "ack" => ArkContexts = arkSession)
  BY ContextTypes
<1>3. ToHost' = ToHost
  <2>1. hostSession'.got = hostSession.got
    BY <1>2 DEF Session
  <2>2. QED
    BY <2>1, ToHostSame
<1>4. ToArk' = IF Secure!Matched(hostSession, arkSession)
                 THEN Append(ToArk, hostSession.sent) ELSE ToArk
  <2>1. CASE Secure!Matched(hostSession, ArkContexts)
    <3>1. ~Secure!Matched(hostSession, NoSession)
      BY MatchedFacts
    <3>2. QED
      BY <2>1, <3>1, ToArkMore
  <2>2. CASE ~Secure!Matched(hostSession, ArkContexts)
    <3>1. ToArk' = ToArk
      BY <1>1, <1>2, <2>2, ToArkSame
    <3>2. ~Secure!Matched(hostSession, arkSession)
      BY <1>2, <2>2, MatchedFacts
    <3>3. QED
      BY <3>1, <3>2
  <2>3. QED
    BY <2>1, <2>2
<1>5. Secure!HostSends
  BY <1>1, <1>3, <1>4
     DEF Secure!HostSends, Secure!NoSession, Secure!NewSession, NoSession, NewSession, ToArk, ToHost
<1>6. QED
  BY <1>5 DEF Mapped, Secure!Next

LEMMA ArkSendsMaps ==
  ASSUME QueueInv, Flights, Flights', UNCHANGED hostVars, ToArkKept,
         arkSession # NoSession, arkSession' = [arkSession EXCEPT !.sent = @ + 1],
         arkPc # "ack", arkPc' # "ack",
         Secure!Matched(hostSession, arkSession) => ToHostGrows,
         ~Secure!Matched(hostSession, arkSession) => ToHostKept
  PROVE  Mapped
<1>1. hostSession' = hostSession
  BY DEF hostVars
<1>2. ToArk' = ToArk
  <2>1. arkSession'.got = arkSession.got
    BY ContextTypes DEF Session
  <2>2. QED
    BY <2>1, ToArkSame
<1>3. ToHost' = IF Secure!Matched(hostSession, arkSession)
                  THEN Append(ToHost, arkSession.sent) ELSE ToHost
  BY <1>1, ToHostSame, ToHostMore
<1>4. Secure!ArkSends
  BY <1>1, <1>2, <1>3
     DEF Secure!ArkSends, Secure!NoSession, Secure!NewSession, NoSession, NewSession, ToArk, ToHost
<1>5. QED
  BY <1>4 DEF Mapped, Secure!Next

LEMMA HostReceivesMaps ==
  ASSUME QueueInv, Flights, Flights', UNCHANGED arkVars, ToArkKept, ToHostKept,
         hostSession' = [hostSession EXCEPT !.got = @ + 1],
         \A n \in Nat : ToHostIs(n) => hostSession.got < n
  PROVE  Mapped
<1>1. arkSession' = arkSession /\ arkPc' = arkPc
  BY DEF arkVars
<1>2. ToArk' = ToArk
  BY <1>1, ContextTypes, ToArkSame
<1>3. hostSession'.got = hostSession.got + 1 /\ hostSession.got \in Nat
  BY ContextTypes DEF Session
<1>4. PICK n \in Nat : ToHostIs(n)
  BY ArkAssumption DEF QueueInv, QueuesInOrder, ToHostIs
<1>5. hostSession.got < n /\ ToHostIs(n)'
  BY <1>4 DEF ToHostKept
<1>6. ToHost = Secure!Positions(hostSession.got, n)
  BY <1>4 DEF Flights
<1>7. ToHost' = Secure!Positions(hostSession.got + 1, n)
  <2>1. ToHost' = Secure!Positions(hostSession.got, n)'
    BY <1>5 DEF Flights
  <2>2. Secure!Positions(hostSession.got, n)' = Secure!Positions(hostSession.got + 1, n)
    BY <1>3 DEF Secure!Positions
  <2>3. QED
    BY <2>1, <2>2
<1>8. ToHost # <<>> /\ Head(ToHost) = hostSession.got /\ ToHost' = Tail(ToHost)
  BY <1>3, <1>5, <1>6, <1>7, PositionsMove
<1>9. Secure!HostReceives
  BY <1>1, <1>2, <1>8 DEF Secure!HostReceives, ToArk, ToHost
<1>10. QED
  BY <1>9 DEF Mapped, Secure!Next

LEMMA ArkReceivesMaps ==
  ASSUME QueueInv, Flights, Flights', UNCHANGED hostVars, ToArkKept, ToHostKept,
         arkPc # "ack", arkPc' # "ack",
         arkSession' = [arkSession EXCEPT !.got = @ + 1],
         \A n \in Nat : ToArkIs(n) => arkSession.got < n
  PROVE  Mapped
<1>1. hostSession' = hostSession
  BY DEF hostVars
<1>2. ToHost' = ToHost
  BY <1>1, ToHostSame
<1>3. arkSession'.got = arkSession.got + 1 /\ arkSession.got \in Nat
  BY ContextTypes DEF Session
<1>4. PICK n \in Nat : ToArkIs(n)
  BY HostAssumption DEF QueueInv, QueuesInOrder, ToArkIs
<1>5. arkSession.got < n /\ ToArkIs(n)'
  BY <1>4 DEF ToArkKept
<1>6. ToArk = Secure!Positions(arkSession.got, n)
  BY <1>4 DEF Flights
<1>7. ToArk' = Secure!Positions(arkSession.got + 1, n)
  <2>1. ToArk' = Secure!Positions(arkSession.got, n)'
    BY <1>5 DEF Flights
  <2>2. Secure!Positions(arkSession.got, n)' = Secure!Positions(arkSession.got + 1, n)
    BY <1>3 DEF Secure!Positions
  <2>3. QED
    BY <2>1, <2>2
<1>8. ToArk # <<>> /\ Head(ToArk) = arkSession.got /\ ToArk' = Tail(ToArk)
  BY <1>3, <1>5, <1>6, <1>7, PositionsMove
<1>9. Secure!ArkReceives
  BY <1>1, <1>2, <1>8 DEF Secure!ArkReceives, ToArk, ToHost
<1>10. QED
  BY <1>9 DEF Mapped, Secure!Next

LEMMA ArkOpensMaps ==
  ASSUME QueueInv, Flights, Flights', UNCHANGED hostVars, ToArkKept, ToHostKept,
         arkPc' # "ack", arkSession = NoSession, arkSession' = ArkContexts,
         arkSession' \in Session, Secure!IsNew(arkSession'),
         Secure!Matched(hostSession, arkSession') =>
           hostSession.got = 0 /\ ToArkIs(hostSession.sent) /\ ToHostIs(0)
  PROVE  Mapped
<1>1. hostSession' = hostSession
  BY DEF hostVars
<1>2. ToHost' = ToHost
  BY <1>1, ToHostSame
<1>3. arkSession'.got = 0 /\ hostSession.sent \in Nat
  BY ContextTypes DEF Secure!IsNew, Secure!NewSession
<1>4. ASSUME NEW n \in Nat, ToArkIs(n)
      PROVE  ToArk' \in Seq(Nat) /\ ToArk' = Secure!Positions(0, n) /\ Len(ToArk') = n
  <2>1. ToArkIs(n)'
    BY <1>4 DEF ToArkKept
  <2>2. ToArk' = Secure!Positions(arkSession.got, n)'
    BY <1>4, <2>1 DEF Flights
  <2>3. Secure!Positions(arkSession.got, n)' = Secure!Positions(0, n)
    BY <1>3 DEF Secure!Positions
  <2>4. QED
    BY <1>4, <2>2, <2>3, PositionsMove
<1>5. \E n \in Nat : ToArkIs(n)
  BY HostAssumption DEF QueueInv, QueuesInOrder, ToArkIs
<1>6. ToArk' \in Seq(Nat) /\ ToArk' = Secure!Positions(0, Len(ToArk'))
  BY <1>4, <1>5
<1>7. ASSUME Secure!Matched(hostSession, arkSession')
      PROVE  Len(ToArk') = hostSession.sent /\ hostSession.got = 0 /\ ToHost = <<>>
  <2>1. hostSession.got = 0 /\ ToArkIs(hostSession.sent) /\ ToHostIs(0)
    BY <1>7
  <2>2. ToHost = Secure!Positions(0, 0)
    BY <2>1 DEF Flights
  <2>3. QED
    BY <1>3, <1>4, <2>1, <2>2, PositionsMove
<1>8. arkSession' \in Secure!Session /\ arkSession = Secure!NoSession
  BY DEF Session, Secure!Session, Secure!NoSession, Secure!NewSession, NoSession, NewSession
<1>9. Secure!ArkOpens
  BY <1>1, <1>2, <1>6, <1>7, <1>8 DEF Secure!ArkOpens, ToArk, ToHost
<1>10. QED
  BY <1>9 DEF Mapped, Secure!Next

LEMMA NothingMaps ==
  ASSUME QueueInv, Flights, Flights', ToArkKept, ToHostKept,
         hostSession' = hostSession, arkSession' = arkSession, arkPc' = arkPc
  PROVE  Mapped
<1>1. ToArk' = ToArk
  BY ContextTypes, ToArkSame
<1>2. ToHost' = ToHost
  BY ToHostSame
<1>3. QED
  BY <1>1, <1>2 DEF Mapped

-----------------------------------------------------------------------------
(* Every step keeps the queues and is a step of SecureLink or a stutter.   *)

Follows == QueueInv' /\ (Flights /\ Flights' => Mapped)

LEMMA HostOpFollows ==
  ASSUME QueueInv, SyncInv', HostOp, UNCHANGED arkVars
  PROVE  Follows
<1>1. ASSUME NEW ok \in BOOLEAN, HostReset(ok) \/ HostSendHello(ok)
      PROVE  Follows
  <2>1. hostSession' = NoSession /\ KeysKnown' /\ ToArkKept /\ ToHostNone
    BY <1>1, HostResetQueues, HostSendHelloQueues, Zenon
  <2>2. QED
    BY <2>1, QueuesFollow, HostClosesMaps DEF Follows
<1>2. ASSUME NEW ok \in BOOLEAN, HostSendAck(ok) PROVE Follows
  <2>1. /\ KeysKnown' /\ ToArkKept /\ ToHostNone
        /\ hostSession = NoSession /\ (~ok => hostSession' = NoSession)
        /\ ok => /\ Secure!IsNew(hostSession') /\ hostSession' \in Session
                 /\ ~Secure!Matched(hostSession', arkSession)
    BY <1>2, HostSendAckQueues, Zenon
  <2>2. QueueInv'
    BY <2>1, QueuesFollow
  <2>3. ASSUME Flights, Flights' PROVE Mapped
    <3>1. CASE ok
      BY <2>1, <2>3, <3>1, HostOpensMaps
    <3>2. CASE ~ok
      BY <2>1, <2>3, <3>2, HostClosesMaps
    <3>3. QED
      BY <3>1, <3>2
  <2>4. QED
    BY <2>2, <2>3 DEF Follows
<1>3. ASSUME NEW ok \in BOOLEAN, HostSendMessage(ok) PROVE Follows
  <2>1. /\ KeysKnown' /\ (ToArkKept \/ ToArkGrows)
        /\ ok => ToHostKept /\ hostSession' = [hostSession EXCEPT !.sent = @ + 1]
        /\ ~ok => ToHostNone /\ hostSession' = NoSession
        /\ ok /\ Secure!Matched(hostSession, ArkContexts) => ToArkGrows
        /\ ~Secure!Matched(hostSession, ArkContexts) => ToArkKept
        /\ hostSession # NoSession
    BY <1>3, HostSendMessageQueues, Zenon
  <2>2. QueueInv'
    BY <2>1, QueuesFollow
  <2>3. ASSUME Flights, Flights' PROVE Mapped
    <3>1. CASE ok
      BY <2>1, <2>3, <3>1, HostSendsMaps
    <3>2. CASE ~ok
      BY <2>1, <2>3, <3>2, HostClosesMaps
    <3>3. QED
      BY <3>1, <3>2
  <2>4. QED
    BY <2>2, <2>3 DEF Follows
<1>4. ASSUME HostReject \/ HostSkipStale \/ HostAbort \/ HostReadFails PROVE Follows
  <2>1. hostSession' = NoSession
    <3>1. CASE HostReadFails
      BY <3>1 DEF HostReadFails
    <3>2. CASE HostReject \/ HostSkipStale \/ HostAbort
      <4>1. hostPc = "ack" /\ hostSession' = hostSession
        BY <3>2 DEF HostReject, HostSkipStale, HostAbort
      <4>2. QED
        BY <4>1, SessionsKnown DEF QueueInv
    <3>3. QED
      BY <1>4, <3>1, <3>2
  <2>2. KeysKnown' /\ ToArkKept /\ ToHostNone
    BY <1>4, <2>1, HostQuitsQueues
  <2>3. QED
    BY <2>1, <2>2, QueuesFollow, HostClosesMaps DEF Follows
<1>5. ASSUME HostNextMessage PROVE Follows
  <2>1. CASE hostSession' = NoSession
    <3>1. KeysKnown' /\ ToArkKept /\ ToHostNone
      BY <1>5, <2>1, HostQuitsQueues
    <3>2. QED
      BY <2>1, <3>1, QueuesFollow, HostClosesMaps DEF Follows
  <2>2. CASE hostSession' # NoSession
    <3>1. /\ KeysKnown' /\ ToArkKept /\ ToHostKept
          /\ \/ hostSession' = hostSession
             \/ /\ hostSession' = [hostSession EXCEPT !.got = @ + 1]
                /\ \A n \in Nat : ToHostIs(n) => hostSession.got < n
      BY <1>5, <2>2, HostNextMessageQueues
    <3>2. arkSession' = arkSession /\ arkPc' = arkPc
      BY DEF arkVars
    <3>3. QED
      BY <3>1, <3>2, QueuesFollow, HostReceivesMaps, NothingMaps DEF Follows
  <2>3. QED
    BY <2>1, <2>2
<1>6. ASSUME HostDiscards PROVE Follows
  <2>1. KeysKnown' /\ ToArkKept /\ ToHostKept /\ hostSession' = hostSession
    BY <1>6, HostDiscardsQueues
  <2>2. arkSession' = arkSession /\ arkPc' = arkPc
    BY DEF arkVars
  <2>3. QED
    BY <2>1, <2>2, QueuesFollow, NothingMaps DEF Follows
<1>7. QED
  BY <1>1, <1>2, <1>3, <1>4, <1>5, <1>6, Zenon DEF HostOp

LEMMA ArkOpFollows ==
  ASSUME SyncAssumption, QueueInv, SyncInv', ArkOp, UNCHANGED hostVars
  PROVE  Follows
<1>1. ASSUME NEW ok \in BOOLEAN, ArkSendHello(ok) PROVE Follows
  <2>1. KeysKnown' /\ ToArkNone /\ ToHostKept /\ arkSession' = NoSession
    BY <1>1, ArkSendHelloQueues, Zenon
  <2>2. QED
    BY <2>1, QueuesFollow, ArkClosesMaps DEF Follows
<1>2. ASSUME NEW ok \in BOOLEAN, ArkSendMessage(ok) PROVE Follows
  <2>1. /\ KeysKnown' /\ (ToHostKept \/ ToHostGrows)
        /\ ok => ToArkKept /\ arkSession' = [arkSession EXCEPT !.sent = @ + 1]
        /\ ~ok => ToArkNone /\ arkSession' = NoSession
        /\ ok /\ Secure!Matched(hostSession, arkSession) => ToHostGrows
        /\ ~Secure!Matched(hostSession, arkSession) => ToHostKept
        /\ arkSession # NoSession
    BY <1>2, ArkSendMessageQueues, Zenon
  <2>2. QueueInv'
    BY <2>1, QueuesFollow
  <2>3. arkPc # "ack" /\ arkPc' # "ack"
    BY <1>2 DEF ArkSendMessage
  <2>4. ASSUME Flights, Flights' PROVE Mapped
    <3>1. CASE ok
      BY <2>1, <2>3, <2>4, <3>1, ArkSendsMaps
    <3>2. CASE ~ok
      BY <2>1, <2>4, <3>2, ArkClosesMaps
    <3>3. QED
      BY <3>1, <3>2
  <2>5. QED
    BY <2>2, <2>4 DEF Follows
<1>3. ASSUME ArkReset \/ ArkStartOver \/ ArkHandshakeFails \/ ArkReadFails PROVE Follows
  <2>1. arkSession' = NoSession
    <3>1. CASE ArkReset
      BY <3>1 DEF ArkReset
    <3>2. CASE ArkStartOver \/ ArkHandshakeFails \/ ArkReadFails
      <4>1. arkPc # "serve" /\ arkSession' = arkSession
        BY <3>2 DEF ArkStartOver, ArkHandshakeFails, ArkReadFails
      <4>2. QED
        BY <4>1, SessionsKnown DEF QueueInv
    <3>3. QED
      BY <1>3, <3>1, <3>2
  <2>2. KeysKnown' /\ ToArkNone /\ ToHostKept
    BY <1>3, <2>1, ArkQuitsQueues
  <2>3. QED
    BY <2>1, <2>2, QueuesFollow, ArkClosesMaps DEF Follows
<1>4. ASSUME ArkNextMessage PROVE Follows
  <2>1. CASE arkSession' = NoSession
    <3>1. KeysKnown' /\ ToArkNone /\ ToHostKept
      BY <1>4, <2>1, ArkQuitsQueues
    <3>2. QED
      BY <2>1, <3>1, QueuesFollow, ArkClosesMaps DEF Follows
  <2>2. CASE arkSession' # NoSession
    <3>1. /\ KeysKnown' /\ ToArkKept /\ ToHostKept
          /\ arkSession' = [arkSession EXCEPT !.got = @ + 1]
          /\ \A n \in Nat : ToArkIs(n) => arkSession.got < n
      BY <1>4, <2>2, ArkNextMessageQueues
    <3>2. arkPc # "ack" /\ arkPc' # "ack"
      BY <1>4 DEF ArkNextMessage
    <3>3. QED
      BY <3>1, <3>2, QueuesFollow, ArkReceivesMaps DEF Follows
  <2>3. QED
    BY <2>1, <2>2
<1>5. ASSUME ArkEstablish PROVE Follows
  <2>1. /\ KeysKnown' /\ ToArkKept /\ ToHostKept
        /\ arkSession = NoSession /\ arkSession' = ArkContexts
        /\ Secure!IsNew(arkSession')
        /\ Secure!Matched(hostSession, arkSession') =>
             hostSession.got = 0 /\ ToArkIs(hostSession.sent) /\ ToHostIs(0)
    BY <1>5, ArkEstablishQueues
  <2>2. arkPc' # "ack" /\ arkSession' \in Session
    BY <1>5, <2>1, ContextTypes DEF ArkEstablish
  <2>3. QED
    BY <2>1, <2>2, QueuesFollow, ArkOpensMaps DEF Follows
<1>6. ASSUME "oversize" \in Disturbances /\ ArkDiscards PROVE Follows
  <2>1. KeysKnown' /\ ToArkKept /\ ToHostKept /\ arkSession' = arkSession
    BY <1>6, ArkDiscardsQueues DEF SyncAssumption
  <2>2. hostSession' = hostSession /\ arkPc' = arkPc
    BY <1>6 DEF hostVars, arkVars, ArkDiscards
  <2>3. QED
    BY <2>1, <2>2, QueuesFollow, NothingMaps DEF Follows
<1>7. QED
  BY <1>1, <1>2, <1>3, <1>4, <1>5, <1>6, Zenon DEF ArkOp

LEMMA StepFollows ==
  ASSUME SyncAssumption, QueueInv, [Next]_vars
  PROVE  Follows
<1>1. SyncInv'
  BY SyncInvStep DEF QueueInv
<1>2. CASE Next
  <2>1. CASE HostOp /\ UNCHANGED arkVars
    BY <1>1, <2>1, HostOpFollows
  <2>2. CASE ArkOp /\ UNCHANGED hostVars
    BY <1>1, <2>2, ArkOpFollows
  <2>3. CASE HostRestart
    <3>1. UNCHANGED arkVars /\ hostSession' = NoSession
      BY <2>3 DEF HostRestart
    <3>2. KeysKnown' /\ ToArkKept /\ ToHostNone
      BY <2>3, <3>1, HostQuitsQueues
    <3>3. QED
      BY <1>1, <3>1, <3>2, QueuesFollow, HostClosesMaps DEF Follows
  <2>4. CASE ArkRestart
    <3>1. UNCHANGED hostVars /\ arkSession' = NoSession
      BY <2>4 DEF ArkRestart
    <3>2. KeysKnown' /\ ToArkNone /\ ToHostKept
      BY <2>4, <3>1, ArkQuitsQueues
    <3>3. QED
      BY <1>1, <3>1, <3>2, QueuesFollow, ArkClosesMaps DEF Follows
  <2>5. CASE Noise
    BY <1>1, <2>5, NoiseQueues, QueuesFollow, NothingMaps DEF Follows
  <2>6. faults \in 0 .. MaxFaults
    BY DEF QueueInv, SyncInv, WireInv, TypeOK
  <2>7. QED
    BY <1>2, <2>1, <2>2, <2>3, <2>4, <2>5, <2>6, StepCases
<1>3. CASE UNCHANGED vars
  <2>1. /\ h2a' = h2a /\ a2h' = a2h
        /\ arkPc' = arkPc /\ arkKey' = arkKey /\ arkHost' = arkHost /\ arkSession' = arkSession
        /\ hostPc' = hostPc /\ hostKey' = hostKey /\ hostSession' = hostSession
    BY <1>3 DEF vars, hostVars, arkVars
  <2>2. ArkContexts' = ArkContexts
    BY <2>1 DEF ArkContexts
  <2>3. KeysKnown'
    BY <2>1 DEF QueueInv, KeysKnown
  <2>4. ToArkKept
    BY <2>1, <2>2 DEF ToArkKept, ToArkIs, ToArkApart, QueueInv, QueuesApart
  <2>5. ToHostKept
    BY <2>1 DEF ToHostKept, ToHostIs, ToHostApart, QueueInv, QueuesApart
  <2>6. QED
    BY <1>1, <2>1, <2>3, <2>4, <2>5, QueuesFollow, NothingMaps DEF Follows
<1>4. QED
  BY <1>2, <1>3

LEMMA QueueInvInit == Init => QueueInv
<1> SUFFICES ASSUME Init PROVE QueueInv
  OBVIOUS
<1>1. SyncInv
  BY SyncInvInit
<1>2. /\ h2a = <<>> /\ a2h = <<>> /\ hostSession = NoSession /\ arkSession = NoSession
      /\ arkPc = "serve" /\ hostPc = "idle"
  BY DEF Init, HostInit, ArkInit
<1>3. KeysKnown
  BY <1>2 DEF KeysKnown
<1>4. ArkContexts = NoSession
  BY <1>2 DEF ArkContexts
<1>5. Exactly(<<>>, NoSession, 0, 0) /\ Apart(<<>>, NoSession)
  <2>1. \A k \in DOMAIN <<>> : ~IsMessage(<<>>[k], NoSession)
    OBVIOUS
  <2>2. QED
    BY <2>1, NoneApart
<1>6. QueuesInOrder
  <2>1. 0 \in 0 .. MaxMessages /\ 0 \in 0 .. MaxReplies
    BY HostAssumption, ArkAssumption
  <2>2. QED
    BY <1>2, <1>4, <1>5, <2>1, NoSessionFields DEF QueuesInOrder
<1>7. QueuesApart
  BY <1>2, <1>4, <1>5 DEF QueuesApart
<1>8. QED
  BY <1>1, <1>3, <1>6, <1>7 DEF QueueInv

(* The strengthening holds throughout: an end has on its way to it the     *)
(* messages of its session from the one it expects on, in order and each   *)
(* in a frame of its own but for a last one whose write was cut, also when *)
(* the other end has left the session or not yet entered it.               *)
THEOREM QueueInvariant ==
  ASSUME SyncAssumption
  PROVE  Spec => []QueueInv
<1>1. QueueInv /\ [Next]_vars => QueueInv'
  BY StepFollows DEF Follows
<1>2. QED
  BY <1>1, QueueInvInit, PTL DEF Spec

(* Every behaviour of the two ends is one of the abstract link: a message  *)
(* of a session arrives once, in order, and none is lost as long as its    *)
(* receiver stays in the session, whatever happens to the byte streams     *)
(* below: handshake, next_message and send_message on both sides.          *)
THEOREM WireImplementsSecureLink ==
  ASSUME SyncAssumption
  PROVE  Spec => ImplementsSecureLink
<1>1. Init => Secure!Init
  <2> SUFFICES ASSUME Init PROVE Secure!Init
    OBVIOUS
  <2>1. hostSession = NoSession /\ arkSession = NoSession
    BY DEF Init, HostInit, ArkInit
  <2>2. ToArk = <<>> /\ ToHost = <<>>
    BY <2>1, QueueInvInit, FlightsKnown DEF Flights
  <2>3. QED
    BY <2>1, <2>2 DEF Secure!Init, Secure!NoSession, Secure!NewSession, NoSession, NewSession,
                      ToArk, ToHost
<1>2. Flights /\ Flights' /\ QueueInv /\ [Next]_vars => [Secure!Next]_(Secure!vars)
  <2> SUFFICES ASSUME Flights, Flights', QueueInv, [Next]_vars
               PROVE  [Secure!Next]_(Secure!vars)
    OBVIOUS
  <2>1. Mapped
    BY StepFollows DEF Follows
  <2>2. QED
    BY <2>1 DEF Mapped, ToArk, ToHost, Secure!vars
<1>3. QueueInv => Flights
  BY FlightsKnown
<1>4. QED
  BY <1>1, <1>2, <1>3, QueueInvariant, PTL DEF Spec, ImplementsSecureLink, Secure!Spec
=============================================================================
