------------------------------ MODULE ArkSide -------------------------------
(***************************************************************************)
(* The Ark's end of the wire: ArkSide::next_message with the handshake it  *)
(* runs inline, and send_message.  The caller serves: it calls             *)
(* next_message again whenever it returns and sends in between.  One step  *)
(* reads one packet and does everything up to the next read; ok tells      *)
(* whether the write of a step succeeds.                                   *)
(***************************************************************************)
EXTENDS Link

CONSTANTS
  MaxReplies  (* bound on the messages sealed per session                  *)

ASSUME ArkAssumption == MaxReplies \in Nat

VARIABLES
  arkPc,        (* "serve", or in handshake before "hello" or before "ack" *)
  arkKey,       (* the ephemeral key of the last hello answered            *)
  arkHost,      (* the host key of that hello                              *)
  arkSession,
  lapsed        (* history: since the last reset was read, a read failed   *)
                (* while waiting for the hello, or the Ark restarted       *)

arkVars == <<arkPc, arkKey, arkHost, arkSession, lapsed>>

ArkTypeOK ==
  /\ arkPc \in {"serve", "hello", "ack"}
  /\ arkKey \in Nat
  /\ arkHost \in Nat
  /\ arkSession \in Session
  /\ lapsed \in BOOLEAN

ArkInit ==
  /\ arkPc = "serve"
  /\ arkKey = 0
  /\ arkHost = 0
  /\ arkSession = NoSession
  /\ lapsed = FALSE

(* One of some possible writes goes to the host.                           *)
ArkWrites(writes) ==
  \E tokens \in writes : Fits(a2h, tokens) /\ a2h' = a2h \o tokens

-----------------------------------------------------------------------------
(* The next message the session's inbound context opens.                   *)
ArkOpens(p) ==
  p = Message(arkSession.host, arkSession.ark, arkSession.got)

(* Mutant: the session outlives the reset.                                 *)
ArkResetKeeps ==
  /\ arkPc = "serve"
  /\ Empty \in NextPackets(h2a)
  /\ h2a' = Rest(h2a)
  /\ arkPc' = "hello"
  /\ lapsed' = FALSE
  /\ UNCHANGED <<a2h, arkKey, arkHost, arkSession>>

(* next_message on an empty frame: the session ends, a handshake begins.   *)
ArkReset ==
  /\ arkPc = "serve"
  /\ Empty \in NextPackets(h2a)
  /\ h2a' = Rest(h2a)
  /\ arkSession' = NoSession
  /\ arkPc' = "hello"
  /\ lapsed' = FALSE
  /\ UNCHANGED <<a2h, arkKey, arkHost>>

(* next_message on anything else: outside a session it is dropped, within  *)
(* one it is the next message or the end of the session.                   *)
ArkNextMessage ==
  /\ arkPc = "serve"
  /\ \E p \in NextPackets(h2a) :
       /\ p # Empty
       /\ arkSession' = IF arkSession # NoSession /\ ArkOpens(p)
                          THEN [arkSession EXCEPT !.got = @ + 1]
                          ELSE NoSession
  /\ h2a' = Rest(h2a)
  /\ UNCHANGED <<a2h, arkPc, arkKey, arkHost, lapsed>>

(* Mutant: the second empty frame of a reset is not skipped.               *)
ArkStartOverOnAck ==
  /\ arkPc \in {"hello", "ack"}
  /\ Empty \in NextPackets(h2a)
  /\ h2a' = Rest(h2a)
  /\ arkPc' = IF arkPc = "ack" THEN "hello" ELSE "serve"
  /\ UNCHANGED <<a2h, arkKey, arkHost, arkSession, lapsed>>

(* handshake: trailing reset frames before the hello are skipped, and a    *)
(* reset in place of the ack starts over.                                  *)
ArkStartOver ==
  /\ arkPc \in {"hello", "ack"}
  /\ Empty \in NextPackets(h2a)
  /\ h2a' = Rest(h2a)
  /\ arkPc' = "hello"
  /\ UNCHANGED <<a2h, arkKey, arkHost, arkSession, lapsed>>

(* Mutant: the answer goes out a second time.                              *)
ArkSendHelloTwice(ok) ==
  /\ arkPc = "hello"
  /\ arkKey' = arkKey + 1
  /\ \E p \in NextPackets(h2a) :
       /\ p.type = "hello"
       /\ arkHost' = p.host
       /\ \E tokens \in SendPacket(ArkHello(p.host, arkKey'), ok) :
            Fits(a2h, tokens \o tokens) /\ a2h' = a2h \o tokens \o tokens
  /\ h2a' = Rest(h2a)
  /\ arkPc' = IF ok THEN "ack" ELSE "serve"
  /\ UNCHANGED <<arkSession, lapsed>>

(* handshake: answer a hello under a fresh key.                            *)
ArkSendHello(ok) ==
  /\ arkPc = "hello"
  /\ arkKey' = arkKey + 1
  /\ \E p \in NextPackets(h2a) :
       /\ p.type = "hello"
       /\ arkHost' = p.host
       /\ ArkWrites(SendPacket(ArkHello(p.host, arkKey'), ok))
  /\ h2a' = Rest(h2a)
  /\ arkPc' = IF ok THEN "ack" ELSE "serve"
  /\ UNCHANGED <<arkSession, lapsed>>

(* handshake: the ack sealed to the fresh Ark key and signed with the host *)
(* key of the hello opens the session.                                     *)
ArkEstablish ==
  /\ arkPc = "ack"
  /\ HostAck(arkHost, arkKey) \in NextPackets(h2a)
  /\ h2a' = Rest(h2a)
  /\ arkSession' = NewSession(arkHost, arkKey)
  /\ arkPc' = "serve"
  /\ UNCHANGED <<a2h, arkKey, arkHost, lapsed>>

(* handshake: anything else fails it, logged and ignored by next_message.  *)
ArkHandshakeFails ==
  /\ \/ arkPc = "hello"
        /\ \E p \in NextPackets(h2a) : p.type \notin {"empty", "hello"}
     \/ arkPc = "ack"
        /\ \E p \in NextPackets(h2a) : p \notin {Empty, HostAck(arkHost, arkKey)}
  /\ h2a' = Rest(h2a)
  /\ arkPc' = "serve"
  /\ UNCHANGED <<a2h, arkKey, arkHost, arkSession, lapsed>>

(* Pieces longer than a frame are discarded by next_frame, as on the host. *)
ArkDiscards ==
  /\ Glued(h2a)
  /\ h2a' = Rest(h2a)
  /\ UNCHANGED <<a2h, arkVars>>

(* A read that fails or times out fails the handshake and is returned by   *)
(* next_message.  Outside a handshake it leaves everything as it is.       *)
ArkReadFails ==
  /\ arkPc \in {"hello", "ack"}
  /\ arkPc' = "serve"
  /\ lapsed' = (lapsed \/ arkPc = "hello")
  /\ UNCHANGED <<h2a, a2h, arkKey, arkHost, arkSession>>

(* send_message.                                                           *)
ArkSendMessage(ok) ==
  /\ arkPc = "serve" /\ arkSession # NoSession /\ arkSession.sent < MaxReplies
  /\ ArkWrites(SendPacket(Message(arkSession.host, arkSession.ark, arkSession.sent), ok))
  /\ arkSession' = AfterSend(arkSession, ok)
  /\ UNCHANGED <<h2a, arkPc, arkKey, arkHost, lapsed>>
=============================================================================
