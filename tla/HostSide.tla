------------------------------ MODULE HostSide ------------------------------
(***************************************************************************)
(* The host's end of the wire: HostSide::handshake, next_message and       *)
(* send_message.  The caller is sequential and free to call them in any    *)
(* order.  Each call is cut at its writes and reads of the streams; ok     *)
(* tells whether the write of a step succeeds.                             *)
(***************************************************************************)
EXTENDS Link

CONSTANTS
  MAX_STALE_FRAMES,  (* frames skipped while waiting for the ArkHello      *)
  MaxAttempts,       (* bound on the handshakes a behaviour starts         *)
  MaxMessages,       (* bound on the messages sealed per session           *)
  Verdicts           (* what the verifier may say of an attestation        *)

ASSUME HostAssumption ==
  /\ MAX_STALE_FRAMES \in Nat /\ MaxAttempts \in Nat /\ MaxMessages \in Nat
  /\ Verdicts \subseteq BOOLEAN

VARIABLES
  hostPc,       (* "idle", or in handshake before "hello" or before "ack"  *)
  hostKey,      (* the ephemeral keys of the last handshake started        *)
  stale,        (* frames this handshake has skipped                       *)
  hostSession,
  hostRes       (* history: how the last handshake ended                   *)

hostVars == <<hostPc, hostKey, stale, hostSession, hostRes>>

HostResults == {"none", "ok", "undecodable", "stale", "rejected", "recv", "send"}

HostTypeOK ==
  /\ hostPc \in {"idle", "hello", "ack"}
  /\ hostKey \in 0 .. MaxAttempts
  /\ stale \in 0 .. MAX_STALE_FRAMES
  /\ hostSession \in Session
  /\ hostRes \in HostResults

HostInit ==
  /\ hostPc = "idle"
  /\ hostKey = 0
  /\ stale = 0
  /\ hostSession = NoSession
  /\ hostRes = "none"

HandshakeReturns(res) ==
  /\ hostPc' = "idle"
  /\ stale' = 0
  /\ hostRes' = res

(* One of some possible writes goes to the Ark.                            *)
HostWrites(writes) ==
  \E tokens \in writes : Fits(h2a, tokens) /\ h2a' = h2a \o tokens

-----------------------------------------------------------------------------
(* Mutant: the old session stays until the new one replaces it.            *)
HostResetKeeps(ok) ==
  /\ hostPc = "idle" /\ hostKey < MaxAttempts
  /\ hostKey' = hostKey + 1
  /\ HostWrites(SendReset(ok))
  /\ IF ok THEN hostPc' = "hello" /\ stale' = 0 /\ hostRes' = "none"
           ELSE HandshakeReturns("send")
  /\ UNCHANGED <<a2h, hostSession>>

(* handshake, up to the reset: the old session ends whatever comes next.   *)
HostReset(ok) ==
  /\ hostPc = "idle" /\ hostKey < MaxAttempts
  /\ hostSession' = NoSession
  /\ hostKey' = hostKey + 1
  /\ HostWrites(SendReset(ok))
  /\ IF ok THEN hostPc' = "hello" /\ stale' = 0 /\ hostRes' = "none"
           ELSE HandshakeReturns("send")
  /\ UNCHANGED a2h

(* The fresh keys go to the Ark.                                           *)
HostSendHello(ok) ==
  /\ hostPc = "hello"
  /\ HostWrites(SendPacket(HostHello(hostKey), ok))
  /\ IF ok THEN hostPc' = "ack" /\ UNCHANGED <<stale, hostRes>>
           ELSE HandshakeReturns("send")
  /\ UNCHANGED <<a2h, hostKey, hostSession>>

(* Mutant: any hello of the Ark will do, stale ones too.                   *)
IsAnyHello(p) == p.type = "arkhello"

(* The Ark's answer to this attempt, sealed to the fresh host key.         *)
IsAnswer(p) == p.type = "arkhello" /\ p.host = hostKey

(* With an attestation the verifier accepts, acknowledge the answer and    *)
(* open the session.                                                       *)
HostSendAck(ok) ==
  /\ hostPc = "ack" /\ TRUE \in Verdicts
  /\ \E p \in NextPackets(a2h) :
       /\ IsAnswer(p)
       /\ HostWrites(SendPacket(HostAck(p.host, p.ark), ok))
       /\ hostSession' = IF ok THEN NewSession(p.host, p.ark) ELSE NoSession
  /\ a2h' = Rest(a2h)
  /\ HandshakeReturns(IF ok THEN "ok" ELSE "send")
  /\ UNCHANGED hostKey

HostReject ==
  /\ hostPc = "ack" /\ FALSE \in Verdicts
  /\ \E p \in NextPackets(a2h) : IsAnswer(p)
  /\ a2h' = Rest(a2h)
  /\ HandshakeReturns("rejected")
  /\ UNCHANGED <<h2a, hostKey, hostSession>>

(* Mutants: no limit on the stale frames, and one that is one off.         *)
NeverTooMany(n) == FALSE
TooManyAtLimit(n) == n >= MAX_STALE_FRAMES

TooManyStale(n) == n > MAX_STALE_FRAMES

(* A packet not sealed to the fresh key is left over from before the       *)
(* reset: skip it, up to a limit.                                          *)
HostSkipStale ==
  /\ hostPc = "ack"
  /\ \E p \in NextPackets(a2h) : p.type # "undecodable" /\ ~IsAnswer(p)
  /\ a2h' = Rest(a2h)
  /\ IF TooManyStale(stale + 1)
       THEN HandshakeReturns("stale")
       ELSE stale' = stale + 1 /\ UNCHANGED <<hostPc, hostRes>>
  /\ UNCHANGED <<h2a, hostKey, hostSession>>

(* A frame that does not decode ends the handshake.                        *)
HostAbort ==
  /\ hostPc = "ack"
  /\ Undecodable \in NextPackets(a2h)
  /\ a2h' = Rest(a2h)
  /\ HandshakeReturns("undecodable")
  /\ UNCHANGED <<h2a, hostKey, hostSession>>

(* Mutant: next_message keeps the session.                                 *)
HostReadFailsKeeps ==
  /\ \/ hostPc = "ack" /\ HandshakeReturns("recv")
     \/ hostPc = "idle" /\ UNCHANGED <<hostPc, stale, hostRes>>
  /\ UNCHANGED <<h2a, a2h, hostKey, hostSession>>

(* The read fails or times out, in the handshake or in next_message.       *)
HostReadFails ==
  /\ \/ hostPc = "ack" /\ HandshakeReturns("recv")
     \/ hostPc = "idle" /\ UNCHANGED <<hostPc, stale, hostRes>>
  /\ hostSession' = NoSession
  /\ UNCHANGED <<h2a, a2h, hostKey>>

(* What was glued together is longer than a frame: next_frame discards it  *)
(* and waits for the next one, and its callers never hear of it.           *)
HostDiscards ==
  /\ hostPc \in {"idle", "ack"}
  /\ Glued(a2h)
  /\ a2h' = Rest(a2h)
  /\ UNCHANGED <<h2a, hostVars>>

-----------------------------------------------------------------------------
(* The next message the session's inbound context opens.                   *)
HostOpens(p) ==
  p = Message(hostSession.host, hostSession.ark, hostSession.got)

(* next_message.  A packet that opens may still fail to decode as          *)
(* protobuf; either way the sequence has moved on.  An empty frame is an   *)
(* error that leaves the session alone.                                    *)
HostNextMessage ==
  /\ hostPc = "idle"
  /\ \E p \in NextPackets(a2h) :
       hostSession' = IF p.type = "empty" THEN hostSession
                      ELSE IF hostSession # NoSession /\ HostOpens(p)
                        THEN [hostSession EXCEPT !.got = @ + 1]
                      ELSE NoSession
  /\ a2h' = Rest(a2h)
  /\ UNCHANGED <<h2a, hostPc, hostKey, stale, hostRes>>

(* send_message.                                                           *)
HostSendMessage(ok) ==
  /\ hostPc = "idle" /\ hostSession # NoSession /\ hostSession.sent < MaxMessages
  /\ HostWrites(SendPacket(Message(hostSession.host, hostSession.ark, hostSession.sent), ok))
  /\ hostSession' = AfterSend(hostSession, ok)
  /\ UNCHANGED <<a2h, hostPc, hostKey, stale, hostRes>>
=============================================================================
