---------------------------- MODULE LimitsProofs ----------------------------
(***************************************************************************)
(* The two size limits agree, for every frame size, sealing overhead and   *)
(* encoding bound.                                                         *)
(***************************************************************************)
EXTENDS Limits, TLAPS

USE LimitAssumption

(* Fitting is closed downwards.                                            *)
LEMMA SmallerFits ==
  ASSUME NEW m \in PacketSize, NEW n \in PacketSize, m <= n, FitsFrame(n)
  PROVE  FitsFrame(m)
<1>1. EncodeBuffer[m] <= EncodeBuffer[n]
  BY CobsAssumption
<1>2. EncodeBuffer[m] \in Nat /\ EncodeBuffer[n] \in Nat
  OBVIOUS
<1>3. QED
  BY <1>1, <1>2 DEF FitsFrame

LEMMA InitLimitInv == Init => LimitInv
BY DEF Init, LimitInv, TypeOK, PacketSize, Results, NoneRefusedSealed, NoGap

(* Each step keeps the limit's candidate at or above every size that fits, *)
(* and a packet sealed after that fits.                                    *)
LEMMA NextLimitInv == LimitInv /\ [Next]_vars => LimitInv'
<1> SUFFICES ASSUME LimitInv, [Next]_vars PROVE LimitInv'
  OBVIOUS
<1> USE DEF LimitInv, TypeOK, PacketSize, Results, NoneRefusedSealed, NoGap
<1>1. CASE Shrink
  <2>1. CASE FitsFrame(size + SEAL_OVERHEAD)
    BY <1>1, <2>1 DEF Shrink
  <2>2. CASE ~FitsFrame(size + SEAL_OVERHEAD)
    <3>1. size # 0
      BY <2>2, CobsAssumption DEF FitsFrame
    <3>2. size' = size - 1 /\ pc' = "limit" /\ UNCHANGED <<session, packet, sequence, sent, res>>
      BY <1>1, <2>2 DEF Shrink
    <3>3. \A len \in 0 .. MAX_FRAME_SIZE : len > size' => ~FitsFrame(len + SEAL_OVERHEAD)
      BY <2>2, <3>1, <3>2
    <3>4. QED
      BY <3>1, <3>2, <3>3
  <2>3. QED
    BY <2>1, <2>2
<1>2. ASSUME NEW len \in 0 .. MAX_FRAME_SIZE + 1, Refuse(len) PROVE LimitInv'
  BY <1>2 DEF Refuse, Return
<1>3. ASSUME NEW len \in 0 .. MAX_FRAME_SIZE + 1, Seal(len) PROVE LimitInv'
  <2>1. /\ pc = "idle" /\ session /\ len <= size /\ sequence < MaxSeals
        /\ packet' = len + SEAL_OVERHEAD /\ sequence' = sequence + 1 /\ pc' = "sealed"
        /\ UNCHANGED <<size, session, sent, res>>
    BY <1>3 DEF Seal
  <2>2. packet' \in PacketSize /\ packet' <= size' + SEAL_OVERHEAD /\ sequence' \in Nat
    BY <2>1, LimitAssumption
  <2>3. TypeOK'
    BY <2>1, <2>2
  <2>4. NoneRefusedSealed' /\ NoGap'
    BY <2>1
  <2>5. FitsFrame(size' + SEAL_OVERHEAD)
    BY <2>1
  <2>6. QED
    BY <2>1, <2>2, <2>3, <2>4, <2>5
<1>4. CASE Encode
  <2>1. FitsFrame(packet)
    BY <1>4, SmallerFits DEF Encode
  <2>2. CASE pc' = "framed" /\ UNCHANGED <<session, res>>
    BY <1>4, <2>2 DEF Encode
  <2>3. CASE session' = FALSE /\ Return("FrameEncodingFailed")
    BY <1>4, <2>3 DEF Encode, Return
  <2>4. QED
    BY <1>4, <2>1, <2>2, <2>3 DEF Encode
<1>5. CASE Send
  BY <1>5 DEF Send, Return
<1>6. CASE SendFails
  <2>1. /\ pc' = "idle" /\ session' = FALSE /\ res' = "SendFailed"
        /\ UNCHANGED <<size, packet, sequence>>
    BY <1>6 DEF SendFails, Return
  <2>2. sent' \in Nat
    BY <1>6 DEF SendFails
  <2>3. TypeOK' /\ NoneRefusedSealed' /\ NoGap'
    BY <2>1, <2>2
  <2>4. FitsFrame(size' + SEAL_OVERHEAD)
    BY <1>6, <2>1 DEF SendFails
  <2>5. QED
    BY <2>1, <2>3, <2>4
<1>7. CASE NoSession
  BY <1>7 DEF NoSession, Return
<1>8. ASSUME NEW len \in 0 .. MAX_FRAME_SIZE + 1, EncodingFails(len) PROVE LimitInv'
  BY <1>8 DEF EncodingFails, Return
<1>9. ASSUME NEW len \in 0 .. MAX_FRAME_SIZE + 1, SealFails(len) PROVE LimitInv'
  <2>1. /\ pc = "idle" /\ pc' = "idle" /\ session' = FALSE /\ res' = "EncryptionFailed"
        /\ UNCHANGED <<size, packet, sent>>
    BY <1>9 DEF SealFails, Return
  <2>2. sequence' \in 0 .. MaxSeals
    BY <1>9 DEF SealFails
  <2>3. TypeOK' /\ NoneRefusedSealed' /\ NoGap'
    BY <2>1, <2>2
  <2>4. QED
    BY <2>1, <2>3
<1>10. CASE UNCHANGED vars
  BY <1>10 DEF vars
<1>11. QED
  <2>1. CASE Next
    BY <2>1, <1>1, <1>2, <1>3, <1>4, <1>5, <1>6, <1>7, <1>8, <1>9 DEF Next
  <2>2. QED
    BY <2>1, <1>10

(* The sizes of the code and of every build with other limits stay sane:   *)
(* the inductive invariant of the loop and of send_message.                *)
THEOREM LimitInvariant == Spec => []LimitInv
BY InitLimitInv, NextLimitInv, PTL DEF Spec

(* MAX_MESSAGE_SIZE (lib.rs) is the largest message that fits a frame once *)
(* sealed and encoded, and every smaller one fits too.                     *)
THEOREM ExactLimit == Spec => []LimitExact
<1>1. LimitInv => LimitExact
  <2> SUFFICES ASSUME LimitInv, pc # "limit", NEW len \in 0 .. MAX_FRAME_SIZE
               PROVE  len <= size <=> FitsFrame(len + SEAL_OVERHEAD)
    BY DEF LimitExact
  <2>1. size \in 0 .. MAX_FRAME_SIZE
    BY DEF LimitInv, TypeOK
  <2>2. CASE len <= size
    <3>1. FitsFrame(size + SEAL_OVERHEAD)
      BY DEF LimitInv
    <3>2. len + SEAL_OVERHEAD \in PacketSize /\ size + SEAL_OVERHEAD \in PacketSize
      BY <2>1 DEF PacketSize
    <3>3. len + SEAL_OVERHEAD <= size + SEAL_OVERHEAD
      BY <2>1, <2>2
    <3>4. QED
      BY <2>2, <3>1, <3>2, <3>3, SmallerFits
  <2>3. CASE len > size
    BY <2>1, <2>3 DEF LimitInv
  <2>4. QED
    BY <2>1, <2>2, <2>3
<1>2. QED
  BY <1>1, LimitInvariant, PTL

(* send_packet never refuses for its size a message that seal accepted.    *)
THEOREM NoSealedMessageRefused == Spec => []NoneRefusedSealed
<1>1. LimitInv => NoneRefusedSealed
  BY DEF LimitInv
<1>2. QED
  BY <1>1, LimitInvariant, PTL

(* So the sequence of an active session never runs ahead of what was       *)
(* written: whatever refuses or fails a message leaves no gap.             *)
THEOREM SequenceUnbroken == Spec => []NoGap
<1>1. LimitInv => NoGap
  BY DEF LimitInv
<1>2. QED
  BY <1>1, LimitInvariant, PTL
=============================================================================
