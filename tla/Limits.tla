------------------------------- MODULE Limits -------------------------------
(***************************************************************************)
(* The size limits a message meets on its way out: MAX_MESSAGE_SIZE, which *)
(* Session::seal holds it to before sealing, and MAX_FRAME_SIZE, which     *)
(* Framing::send_packet holds the sealed packet to after it.  Sealing uses *)
(* up a number of the HPKE sequence, so a message refused after it leaves  *)
(* the peer behind.                                                        *)
(***************************************************************************)
EXTENDS Naturals

CONSTANTS
  MAX_FRAME_SIZE,
  SEAL_OVERHEAD,  (* what sealing adds to a message                        *)
  EncodeBuffer,   (* COBS's bound on the encoding of a packet, by its size *)
  MaxSeals        (* bound on the messages sealed                          *)

PacketSize == 0 .. MAX_FRAME_SIZE + SEAL_OVERHEAD

ASSUME LimitAssumption ==
  /\ MAX_FRAME_SIZE \in Nat /\ SEAL_OVERHEAD \in Nat /\ MaxSeals \in Nat
  /\ EncodeBuffer \in [PacketSize -> Nat]

(* A larger packet is not bounded by less, and the empty message fits,     *)
(* else the loop below underflows.                                         *)
ASSUME CobsAssumption ==
  /\ \A m, n \in PacketSize : m <= n => EncodeBuffer[m] <= EncodeBuffer[n]
  /\ EncodeBuffer[SEAL_OVERHEAD] <= MAX_FRAME_SIZE

VARIABLES
  size,      (* candidate for MAX_MESSAGE_SIZE, then its value             *)
  pc,        (* "limit": computing size; "idle"; then in send_message:     *)
             (* "sealed" after seal, "framed" after the COBS encoding      *)
  session,   (* whether the session is active                              *)
  packet,    (* size of the packet sealed last                             *)
  sequence,  (* messages sealed in the session                             *)
  sent,      (* history: frames of the session written                     *)
  res        (* what send_message returned last                            *)

vars == <<size, pc, session, packet, sequence, sent, res>>

Results ==
  {"none", "ok", "PacketTooLarge", "PacketEncodingFailed", "EncryptionFailed",
   "FrameTooLarge", "FrameEncodingFailed", "SendFailed"}

Init ==
  /\ size = MAX_FRAME_SIZE
  /\ pc = "limit"
  /\ session = TRUE
  /\ packet = 0
  /\ sequence = 0 /\ sent = 0
  /\ res = "none"

FitsFrame(n) == EncodeBuffer[n] <= MAX_FRAME_SIZE

(* Mutant: a message that fills the frame does not count as fitting.       *)
ShrinkStrictly ==
  /\ pc = "limit"
  /\ IF EncodeBuffer[size + SEAL_OVERHEAD] < MAX_FRAME_SIZE
       THEN pc' = "idle" /\ UNCHANGED size
       ELSE size' = size - 1 /\ UNCHANGED pc
  /\ UNCHANGED <<session, packet, sequence, sent, res>>

(* Mutant: the sealing is left out of the account.                         *)
ShrinkUnsealed ==
  /\ pc = "limit"
  /\ IF FitsFrame(size) THEN pc' = "idle" /\ UNCHANGED size
                        ELSE size' = size - 1 /\ UNCHANGED pc
  /\ UNCHANGED <<session, packet, sequence, sent, res>>

(* The loop that computes MAX_MESSAGE_SIZE.                                *)
Shrink ==
  /\ pc = "limit"
  /\ IF FitsFrame(size + SEAL_OVERHEAD) THEN pc' = "idle" /\ UNCHANGED size
                                        ELSE size' = size - 1 /\ UNCHANGED pc
  /\ UNCHANGED <<session, packet, sequence, sent, res>>

-----------------------------------------------------------------------------
Return(r) == pc' = "idle" /\ res' = r

(* send_message without a session.                                         *)
NoSession ==
  /\ pc = "idle" /\ ~session
  /\ Return("EncryptionFailed")
  /\ UNCHANGED <<size, session, packet, sequence, sent>>

(* Mutant: the message is sealed before its size is looked at.             *)
RefuseSealed(len) ==
  /\ pc = "idle" /\ session /\ len > size /\ sequence < MaxSeals
  /\ sequence' = sequence + 1
  /\ Return("PacketTooLarge")
  /\ UNCHANGED <<size, session, packet, sent>>

(* seal refuses a message that is too large, and the session goes on.      *)
Refuse(len) ==
  /\ pc = "idle" /\ session /\ len > size
  /\ Return("PacketTooLarge")
  /\ UNCHANGED <<size, session, packet, sequence, sent>>

(* seal fails to encode the message, and the session goes on.              *)
EncodingFails(len) ==
  /\ pc = "idle" /\ session /\ len <= size
  /\ Return("PacketEncodingFailed")
  /\ UNCHANGED <<size, session, packet, sequence, sent>>

(* The sealing itself fails, which leaves the context unusable, whether or *)
(* not its sequence went on, and the session ends.                         *)
SealFails(len) ==
  /\ pc = "idle" /\ session /\ len <= size /\ sequence < MaxSeals
  /\ session' = FALSE
  /\ sequence' \in {sequence, sequence + 1}
  /\ Return("EncryptionFailed")
  /\ UNCHANGED <<size, packet, sent>>

(* seal succeeds.                                                          *)
Seal(len) ==
  /\ pc = "idle" /\ session /\ len <= size /\ sequence < MaxSeals
  /\ packet' = len + SEAL_OVERHEAD
  /\ sequence' = sequence + 1
  /\ pc' = "sealed"
  /\ UNCHANGED <<size, session, sent, res>>

(* send_packet goes by the bound of the encoding.  A packet that it        *)
(* refuses, or fails to encode, ends the session.                          *)
Encode ==
  /\ pc = "sealed"
  /\ \/ /\ FitsFrame(packet)
        /\ pc' = "framed"
        /\ UNCHANGED <<session, res>>
     \/ /\ session' = FALSE
        /\ Return(IF FitsFrame(packet) THEN "FrameEncodingFailed" ELSE "FrameTooLarge")
  /\ UNCHANGED <<size, packet, sequence, sent>>

(* send_frame puts the delimiter behind it and writes both.                *)
Send ==
  /\ pc = "framed"
  /\ sent' = sent + 1
  /\ Return("ok")
  /\ UNCHANGED <<size, session, packet, sequence>>

(* Mutant: the session outlives a failed send.                             *)
SendFailsKeeps ==
  /\ pc = "framed"
  /\ sent' \in {sent, sent + 1}
  /\ Return("SendFailed")
  /\ UNCHANGED <<size, session, packet, sequence>>

(* The write or the flush fails, and the session ends.                     *)
SendFails ==
  /\ pc = "framed"
  /\ session' = FALSE
  /\ sent' \in {sent, sent + 1}
  /\ Return("SendFailed")
  /\ UNCHANGED <<size, packet, sequence>>

Next ==
  \/ Shrink
  \/ NoSession
  \/ \E len \in 0 .. MAX_FRAME_SIZE + 1 :
       Refuse(len) \/ EncodingFails(len) \/ SealFails(len) \/ Seal(len)
  \/ Encode \/ Send \/ SendFails

Spec == Init /\ [][Next]_vars

-----------------------------------------------------------------------------
TypeOK ==
  /\ size \in 0 .. MAX_FRAME_SIZE
  /\ pc \in {"limit", "idle", "sealed", "framed"}
  /\ session \in BOOLEAN
  /\ packet \in PacketSize
  /\ sequence \in 0 .. MaxSeals
  /\ sent \in Nat
  /\ res \in Results

(* MAX_MESSAGE_SIZE is exact: the messages whose sealed and encoded form   *)
(* fits a frame are those up to it.                                        *)
LimitExact ==
  pc # "limit" =>
    \A len \in 0 .. MAX_FRAME_SIZE : len <= size <=> FitsFrame(len + SEAL_OVERHEAD)

(* No message is refused for its size once it is sealed.                   *)
NoneRefusedSealed == res # "FrameTooLarge"

(* In an active session between two calls every sealed message has been    *)
(* written: a refused or failed one never leaves a gap in the sequence.    *)
NoGap ==
  session => sequence = sent + (IF pc \in {"sealed", "framed"} THEN 1 ELSE 0)

(* The inductive strengthening.                                            *)
LimitInv ==
  /\ TypeOK
  /\ \A len \in 0 .. MAX_FRAME_SIZE : len > size => ~FitsFrame(len + SEAL_OVERHEAD)
  /\ pc # "limit" => FitsFrame(size + SEAL_OVERHEAD)
  /\ pc \in {"sealed", "framed"} => packet <= size + SEAL_OVERHEAD /\ session
  /\ NoneRefusedSealed
  /\ NoGap
=============================================================================
