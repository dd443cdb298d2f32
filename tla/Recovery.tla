------------------------------ MODULE Recovery ------------------------------
(***************************************************************************)
(* What a disturbance of the wire costs the host in handshakes, counted in *)
(* stale frames: a handshake that gives up has skipped MAX_STALE_FRAMES + 1*)
(* of them, and its own answer may become one more.                        *)
(***************************************************************************)
EXTENDS Wire

(* A host that skips no stale frame never gets past one, and one that      *)
(* rejects the Ark asks again for as long as its caller cares to.          *)
ASSUME RecoveryAssumption ==
  MAX_STALE_FRAMES > 0 /\ MaxReplies > 0 /\ FALSE \notin Verdicts

(* The host tries once, and after a disturbance anew: for what the         *)
(* disturbance ended, for a piece of a packet it left, and once more for   *)
(* every MAX_STALE_FRAMES of the messages the Ark sends in a session.      *)
PerFault == 2 * MAX_STALE_FRAMES + MaxReplies

RecoveryBound == MAX_STALE_FRAMES * hostKey <= MAX_STALE_FRAMES + PerFault * faults

-----------------------------------------------------------------------------
(* The inductive strengthening of RecoveryBound: what the leftovers on the *)
(* wire may still cost is paid for by the disturbances so far.             *)

(* Frames the host may have to skip: those in its stream, an answer to     *)
(* every hello, and the replies of a session the Ark is in or may open.    *)
FramesIn(stream) == {k \in DOMAIN stream : stream[k] = Delim}
HellosIn(stream) == {k \in DOMAIN stream : stream[k].packet.type = "hello"}

AckIn(stream, host, ark) ==
  \E k \in DOMAIN stream : stream[k].packet = HostAck(host, ark)

RepliesLeft ==
  IF arkSession # NoSession THEN MaxReplies - arkSession.sent
  ELSE IF arkPc = "ack" /\ AckIn(h2a, arkHost, arkKey) THEN MaxReplies
  ELSE 0

Leftover == Cardinality(FramesIn(a2h)) + Cardinality(HellosIn(h2a)) + RepliesLeft

(* Pieces that spoil a frame: every token of it but a packet that is right *)
(* before its delimiter.  What does not decode ends a handshake.           *)
PiecesIn(stream) ==
  {k \in DOMAIN stream :
     /\ stream[k] # Delim
     /\ stream[k].kind = "body" => k = Len(stream) \/ stream[k + 1] # Delim}

(* Unless more is disturbed the hello of this attempt will be heard: the   *)
(* Ark is or will be waiting for it.                                       *)
Heard(k) ==
  /\ k > 2 => h2a[k - 2] = Delim
  /\ k > 1 => h2a[k - 1] = Delim
  /\ k = 1 => arkPc = "hello"

HelloOnCourse == Heard(Len(h2a) + 1)

(* The hello is on its way to such an Ark, or its answer to the host.      *)
HelloUnderWay ==
  LET k == Len(h2a) - 1
  IN  k > 0 /\ h2a[k] = Body(HostHello(hostKey)) /\ h2a[k + 1] = Delim /\ Heard(k)

AnswerUnderWay ==
  LET k == Len(a2h) - 1
  IN  /\ k > 0 /\ a2h[k] = Body(ArkHello(hostKey, arkKey)) /\ a2h[k + 1] = Delim
      /\ h2a = <<>> /\ arkPc = "ack" /\ arkHost = hostKey

AttemptOnCourse == HelloUnderWay \/ AnswerUnderWay

(* What the host writes in session s, and the frames of it that are on     *)
(* their way when n of them were read.                                     *)
HostPacket(s, n) == IF n = 0 THEN HostAck(s.host, s.ark) ELSE Message(s.host, s.ark, n - 1)

Underway(s, n) ==
  /\ Len(h2a) = 2 * (s.sent + 1 - n) /\ n <= s.sent + 1
  /\ \A j \in 0 .. s.sent - n :
       h2a[2 * j + 1] = Body(HostPacket(s, n + j)) /\ h2a[2 * j + 2] = Delim

SessionOnCourse ==
  \/ arkSession # NoSession /\ Underway(hostSession, arkSession.got + 1)
  \/ arkPc = "ack" /\ Underway(hostSession, 0)

(* What the host needs more, at worst, in handshakes of MAX_STALE_FRAMES   *)
(* frames and in frames.                                                   *)
Course ==
  IF hostSession # NoSession THEN (IF SessionOnCourse THEN 0 ELSE MAX_STALE_FRAMES)
  ELSE IF hostPc = "idle" THEN MAX_STALE_FRAMES + Leftover
  ELSE IF hostPc = "hello" THEN
    (IF HelloOnCourse THEN Leftover ELSE MAX_STALE_FRAMES + Leftover + 1)
  ELSE IF AttemptOnCourse THEN stale + Leftover - 1 ELSE MAX_STALE_FRAMES + Leftover

Owed == MAX_STALE_FRAMES * Cardinality(PiecesIn(a2h)) + Course

Paid == MAX_STALE_FRAMES * hostKey + Owed <= MAX_STALE_FRAMES + PerFault * faults

(* An ack is of an attempt that was answered and is over, and so is the    *)
(* session of an Ark while the host is in a handshake.  A host in a        *)
(* session wrote the ack with its delimiter.                               *)
AcksKnown ==
  /\ \A k \in DOMAIN h2a :
       h2a[k].packet.type = "ack" =>
         /\ h2a[k].packet.host <= hostKey /\ h2a[k].packet.ark <= arkKey
         /\ hostPc # "idle" => h2a[k].packet.host < hostKey
  /\ hostPc # "idle" /\ arkSession # NoSession => arkSession.host < hostKey
  /\ hostSession # NoSession =>
       \A k \in DOMAIN h2a :
         h2a[k].packet.type = "ack" => \E l \in k + 1 .. Len(h2a) : h2a[l] = Delim

(* Nothing follows the answer to the attempt under way.                    *)
AnswerLast ==
  /\ hostPc # "ack" => stale = 0
  /\ hostPc # "idle" \/ hostSession # NoSession => hostKey > 0
  /\ \A k \in DOMAIN a2h :
       a2h[k].kind = "body" => a2h[k].packet.type \in {"arkhello", "message"}
  /\ hostPc = "ack" =>
       \A k \in DOMAIN a2h :
         a2h[k].packet.type = "arkhello" /\ a2h[k].packet.host = hostKey =>
           k >= Len(a2h) - 1 /\ (k = Len(a2h) - 1 => a2h[k + 1] = Delim)

(* The host has nothing but the next messages of its session ahead, and    *)
(* maybe a piece at the end.                                               *)
OnlyReplies ==
  \A j \in 0 .. Len(a2h) :
    /\ 2 * j + 1 \in DOMAIN a2h =>
         \/ a2h[2 * j + 1] = Body(Message(hostSession.host, hostSession.ark, hostSession.got + j))
         \/ 2 * j + 1 = Len(a2h) /\ a2h[2 * j + 1] # Delim
    /\ 2 * j + 2 \in DOMAIN a2h => a2h[2 * j + 2] = Delim

(* What is left in a session: no more than the replies in it, and no piece *)
(* while the Ark is in it too.                                             *)
RepliesAhead ==
  /\ arkSession.sent <= MaxReplies
  /\ hostSession # NoSession =>
       /\ Leftover <= MaxReplies /\ HellosIn(h2a) = {}
       /\ OnlyReplies
       /\ arkSession # NoSession => Len(a2h) = 2 * (arkSession.sent - hostSession.got)
       /\ arkPc = "ack" => a2h = <<>> /\ hostSession.got = 0

RecoveryInv == WireInv /\ AcksKnown /\ AnswerLast /\ RepliesAhead /\ Paid
=============================================================================
