-------------------------------- MODULE Wire --------------------------------
(***************************************************************************)
(* A host and an Ark joined by two byte streams that have no lifecycle of  *)
(* their own: either process may be replaced by a new one that finds the   *)
(* streams as they are.  What disturbs the two is counted.                 *)
(***************************************************************************)
EXTENDS HostSide, ArkSide, FiniteSets

CONSTANTS
  Disturbances,  (* the kinds that may happen, see Kinds                   *)
  MaxFaults      (* bound on how many do                                   *)

Kinds == {"timeout", "torn", "restart", "noise", "reconnect", "oversize"}

ASSUME WireAssumption == Disturbances \subseteq Kinds /\ MaxFaults \in Nat

VARIABLES
  faults  (* history: disturbances so far                                  *)

vars == <<h2a, a2h, hostVars, arkVars, faults>>

Init ==
  /\ h2a = <<>> /\ a2h = <<>>
  /\ HostInit
  /\ ArkInit
  /\ faults = 0

-----------------------------------------------------------------------------
(* Neither end has anything to read that it waits for, so no answer is on  *)
(* its way: a read of the host that times out now is not premature.        *)
Quiet ==
  /\ ~HasFrame(h2a) /\ ~HasFrame(a2h)
  /\ hostPc # "hello"

InSession == hostSession # NoSession /\ SameContexts(hostSession, arkSession)

(* The host asks for a session when it has none, and gives up on one the   *)
(* Ark does not answer in.                                                 *)
HostStep ==
  /\ \/ hostSession = NoSession /\ HostReset(TRUE)
     \/ HostSendHello(TRUE)
     \/ HostSendAck(TRUE)
     \/ HostReject
     \/ HostSkipStale
     \/ HostAbort
     \/ HostNextMessage
     \/ HostSendMessage(TRUE)
     \/ Quiet /\ ~InSession /\ HostReadFails
  /\ UNCHANGED <<arkVars, faults>>

ArkStep ==
  /\ \/ ArkReset
     \/ ArkNextMessage
     \/ ArkStartOver
     \/ ArkSendHello(TRUE)
     \/ ArkEstablish
     \/ ArkHandshakeFails
     \/ ArkSendMessage(TRUE)
  /\ UNCHANGED <<hostVars, faults>>

Disturbed(kind) ==
  /\ kind \in Disturbances
  /\ faults < MaxFaults
  /\ faults' = faults + 1

(* A read gives up too early.                                              *)
Timeout ==
  /\ Disturbed("timeout")
  /\ \/ HostReadFails /\ UNCHANGED arkVars
     \/ ArkReadFails /\ UNCHANGED hostVars

(* A write fails half way.                                                 *)
Torn ==
  /\ Disturbed("torn")
  /\ \/ /\ \/ HostReset(FALSE)
           \/ HostSendHello(FALSE)
           \/ HostSendAck(FALSE)
           \/ HostSendMessage(FALSE)
        /\ UNCHANGED arkVars
     \/ /\ \/ ArkSendHello(FALSE)
           \/ ArkSendMessage(FALSE)
        /\ UNCHANGED hostVars

(* The host handshakes anew although it has a session.                     *)
Reconnect ==
  /\ Disturbed("reconnect")
  /\ hostSession # NoSession /\ HostReset(TRUE)
  /\ UNCHANGED arkVars

(* What is left of a stream when its reader dies: what the reader had in   *)
(* its buffer is gone, maybe with the beginning of a packet.               *)
Remains(stream) ==
  {SubSeq(stream, k, Len(stream)) : k \in 1 .. Len(stream) + 1}
    \cup {<<Cut>> \o SubSeq(stream, k + 1, Len(stream)) :
            k \in {j \in DOMAIN stream : stream[j].kind = "body"}}

(* A new host process takes over.                                          *)
HostRestart ==
  /\ Disturbed("restart")
  /\ a2h' \in Remains(a2h)
  /\ hostPc' = "idle" /\ stale' = 0
  /\ hostSession' = NoSession /\ hostRes' = "none"
  /\ UNCHANGED <<h2a, hostKey, arkVars>>

(* The Ark is restarted.                                                   *)
ArkRestart ==
  /\ Disturbed("restart")
  /\ h2a' \in Remains(h2a)
  /\ arkPc' = "serve"
  /\ arkSession' = NoSession /\ lapsed' = TRUE
  /\ UNCHANGED <<a2h, arkKey, arkHost, hostVars>>

(* Somebody else writes to the Ark.                                        *)
Noise ==
  /\ Disturbed("noise")
  /\ \E token \in {Cut, Delim} : Fits(h2a, <<token>>) /\ h2a' = Append(h2a, token)
  /\ UNCHANGED <<a2h, hostVars, arkVars>>

(* What an earlier disturbance glued together is longer than a frame.      *)
Oversize ==
  /\ "oversize" \in Disturbances
  /\ \/ HostDiscards /\ UNCHANGED arkVars
     \/ ArkDiscards /\ UNCHANGED hostVars
  /\ UNCHANGED faults

Next ==
  \/ HostStep \/ ArkStep
  \/ Timeout \/ Torn \/ Reconnect \/ HostRestart \/ ArkRestart \/ Noise \/ Oversize

Spec == Init /\ [][Next]_vars

(* The steps either end takes without its caller's leave, and a host that  *)
(* keeps asking for a session and reading what comes.                      *)
HostPersists ==
  /\ \/ hostSession = NoSession /\ HostReset(TRUE)
     \/ HostSendHello(TRUE) \/ HostSendAck(TRUE) \/ HostSkipStale \/ HostAbort
     \/ HostNextMessage
     \/ Quiet /\ ~InSession /\ HostReadFails
  /\ UNCHANGED <<arkVars, faults>>

ArkServes ==
  /\ \/ ArkReset \/ ArkNextMessage \/ ArkStartOver \/ ArkSendHello(TRUE)
     \/ ArkEstablish \/ ArkHandshakeFails
  /\ UNCHANGED <<hostVars, faults>>

FairSpec == Spec /\ WF_vars(HostPersists) /\ WF_vars(ArkServes)

-----------------------------------------------------------------------------
TypeOK ==
  /\ h2a \in Seq(Token) /\ a2h \in Seq(Token)
  /\ HostTypeOK
  /\ ArkTypeOK
  /\ faults \in 0 .. MaxFaults

IsMessage(t, s) == t.packet.type = "message" /\ SameContexts(t.packet, s)

(* What is on its way to a receiver in session s, in the order of the      *)
(* stream: the n-th is the message with n of them up to its place.         *)
InFlight(stream, s) ==
  LET places == {k \in DOMAIN stream : IsMessage(stream[k], s)}
      UpTo(k) == {j \in places : j <= k}
      Place(n) == CHOOSE k \in places : Cardinality(UpTo(k)) = n
  IN  [n \in 1 .. Cardinality(places) |-> stream[Place(n)].packet.seq]

Secure == INSTANCE SecureLink WITH
  host <- hostSession, ark <- arkSession,
  toArk <- InFlight(h2a, arkSession), toHost <- InFlight(a2h, hostSession)

ImplementsSecureLink == Secure!Spec

(* Of the session's messages a stream holds the ones from .. to - 1, each  *)
(* once and in order.                                                      *)
Exactly(stream, s, from, to) ==
  /\ from <= to
  /\ \A k \in DOMAIN stream :
       IsMessage(stream[k], s) => stream[k].packet.seq \in from .. to - 1
  /\ \A k, l \in DOMAIN stream :
       k < l /\ IsMessage(stream[k], s) /\ IsMessage(stream[l], s) =>
         stream[k].packet.seq < stream[l].packet.seq
  /\ \A n \in from .. to - 1 : \E k \in DOMAIN stream :
       IsMessage(stream[k], s) /\ stream[k].packet.seq = n

(* While both ends are in one session nothing is lost, repeated or         *)
(* reordered between them: what is on its way is what was sealed and not   *)
(* yet opened.                                                             *)
InSync ==
  Secure!Matched(hostSession, arkSession) =>
    /\ Exactly(h2a, hostSession, arkSession.got, hostSession.sent)
    /\ Exactly(a2h, arkSession, hostSession.got, arkSession.sent)

(* Two ends that believe to be in the session of one attempt are in the    *)
(* same session, and neither is ahead of what the other has made.          *)
Agreement ==
  /\ hostSession # NoSession /\ arkSession # NoSession /\ hostSession.host = arkSession.host
       => hostSession.ark = arkSession.ark
  /\ hostSession # NoSession => hostSession.host = hostKey /\ hostSession.ark <= arkKey
  /\ arkSession # NoSession => arkSession.host <= hostKey /\ arkSession.ark = arkKey

(* An Ark still in the session of an earlier attempt has the reset of the  *)
(* current one ahead of it: it never serves the old session past it.       *)
EmptyFrameIn(stream) ==
  \E k \in DOMAIN stream : stream[k] = Delim /\ (k = 1 \/ stream[k - 1] = Delim)

OldSessionsEnd ==
  arkSession # NoSession /\ hostPc \in {"hello", "ack"} => EmptyFrameIn(h2a)

(* The Ark never drops a hello as data outside a session, unless it gave   *)
(* up waiting for one or restarted since the reset.                        *)
HelloHeard ==
  [][ArkNextMessage /\ ~lapsed =>
       \A p \in NextPackets(h2a) : p.type # "hello"]_vars

(* The two ends end up in a session once the disturbances are over.        *)
Recovery == <>[]InSession

(* Whatever the Ark left in the stream is skipped.                         *)
StaleFramesSkipped == hostRes # "undecodable"

(* The inductive strengthening of Agreement and OldSessionsEnd, in parts.  *)

(* The Ark answers the hellos in the order of the attempts: those on their *)
(* way are newer than the one it answered last.                            *)
HellosInOrder ==
  /\ arkHost <= hostKey
  /\ hostPc = "hello" => arkHost < hostKey
  /\ \A k \in DOMAIN h2a :
       h2a[k].packet.type = "hello" =>
         /\ arkHost < h2a[k].packet.host
         /\ h2a[k].packet.host <= hostKey
         /\ hostPc = "hello" => h2a[k].packet.host < hostKey
  /\ \A k, l \in DOMAIN h2a :
       k < l /\ h2a[k].packet.type = "hello" /\ h2a[l].packet.type = "hello" =>
         h2a[k].packet.host < h2a[l].packet.host

(* An answer to a host key was given, and is the only one if the key is    *)
(* the last answered.                                                      *)
Answered(host, ark) ==
  host <= arkHost /\ ark <= arkKey /\ (host = arkHost => ark = arkKey)

AnswersKnown ==
  /\ \A k \in DOMAIN a2h :
       a2h[k].packet.type = "arkhello" => Answered(a2h[k].packet.host, a2h[k].packet.ark)
  /\ hostSession # NoSession =>
       hostPc = "idle" /\ hostSession.host = hostKey /\ Answered(hostKey, hostSession.ark)
  /\ arkSession # NoSession =>
       arkPc = "serve" /\ arkSession.host = arkHost /\ arkSession.ark = arkKey

(* While the host is in a handshake a reset follows every ack of an        *)
(* earlier one.                                                            *)
AcksOvertaken ==
  hostPc # "idle" =>
    \A k \in DOMAIN h2a :
      h2a[k].packet.type = "ack" =>
        \E l \in k + 2 .. Len(h2a) : h2a[l] = Delim /\ h2a[l - 1] = Delim

WireInv ==
  TypeOK /\ HellosInOrder /\ AnswersKnown /\ AcksOvertaken /\ OldSessionsEnd

(* The inductive strengthening of InSync, in parts.                        *)

(* Nothing of the attempt under way is on its way before its time: no ack  *)
(* and no message of a host still in the handshake, no message of an Ark   *)
(* that waits for the ack.                                                 *)
HostsBelow(stream, key) ==
  \A k \in DOMAIN stream :
    stream[k].packet.type \in {"ack", "message"} => stream[k].packet.host < key

ArksBelow(stream, key) ==
  \A k \in DOMAIN stream :
    stream[k].packet.type = "message" => stream[k].packet.ark < key

NotYetUsed ==
  /\ HostsBelow(h2a, IF hostPc = "idle" THEN hostKey + 1 ELSE hostKey)
  /\ hostPc # "idle" /\ arkSession # NoSession => arkSession.host < hostKey
  /\ ArksBelow(a2h, IF arkPc = "ack" THEN arkKey ELSE arkKey + 1)

(* A host that is ahead in the session the Ark waits to open.              *)
HostAhead ==
  arkPc = "ack" /\ Secure!Matched(hostSession, NewSession(arkHost, arkKey)) =>
    hostSession.got = 0 /\ Exactly(h2a, hostSession, 0, hostSession.sent)

(* What is written next begins a frame of its own, and so did the          *)
(* session's messages.                                                     *)
EndsClean(stream) == stream = <<>> \/ stream[Len(stream)] = Delim

Fenced(stream, s) ==
  /\ EndsClean(stream)
  /\ \A k \in DOMAIN stream :
       IsMessage(stream[k], s) =>
         /\ k = 1 \/ stream[k - 1] = Delim
         /\ k < Len(stream) /\ stream[k + 1] = Delim

SessionsFenced ==
  /\ hostSession # NoSession => "noise" \in Disturbances \/ Fenced(h2a, hostSession)
  /\ arkSession # NoSession => Fenced(a2h, arkSession)
  /\ arkPc = "ack" => EndsClean(a2h)

SyncInv == WireInv /\ NotYetUsed /\ HostAhead /\ SessionsFenced /\ InSync

(* The inductive strengthening of ImplementsSecureLink, in parts: what     *)
(* holds of an end whether or not the other is still in its session.       *)

(* Keys are numbered from one, and no end has sealed for keys that were    *)
(* not answered yet.                                                       *)
KeysKnown ==
  /\ hostSession # NoSession => hostSession.host > 0 /\ hostSession.ark > 0
  /\ arkPc = "ack" \/ arkSession # NoSession => arkHost > 0 /\ arkKey > 0
  /\ \A k \in DOMAIN h2a :
       h2a[k].packet.type = "message" => h2a[k].packet.host > 0 /\ h2a[k].packet.ark <= arkKey
  /\ \A k \in DOMAIN a2h :
       a2h[k].packet.type = "message" =>
         /\ a2h[k].packet.host \in 1 .. arkHost
         /\ hostPc # "idle" => a2h[k].packet.host < hostKey
  /\ \A k \in DOMAIN a2h :
       a2h[k].packet.type = "arkhello" => a2h[k].packet.host > 0 /\ a2h[k].packet.ark > 0

(* The session the Ark is in or waits to open.                             *)
ArkContexts == IF arkPc = "ack" THEN NewSession(arkHost, arkKey) ELSE arkSession

(* An end has on its way to it the messages from the one it expects on, as *)
(* many as the other sealed before it left.                                *)
QueuesInOrder ==
  /\ \E n \in 0 .. MaxMessages : Exactly(h2a, ArkContexts, ArkContexts.got, n)
  /\ \E n \in 0 .. MaxReplies : Exactly(a2h, hostSession, hostSession.got, n)

(* Each in a frame of its own, but for the last when its write was cut.    *)
Apart(stream, s) ==
  \A k \in DOMAIN stream :
    IsMessage(stream[k], s) =>
      /\ k = 1 \/ stream[k - 1] = Delim
      /\ k = Len(stream) \/ stream[k + 1] = Delim

QueuesApart ==
  /\ Apart(a2h, hostSession)
  /\ \/ "noise" \in Disturbances
     \/ Apart(h2a, ArkContexts) /\ (hostPc # "idle" => EndsClean(h2a))

QueueInv == SyncInv /\ KeysKnown /\ QueuesInOrder /\ QueuesApart

(* The inductive strengthening of HelloHeard: right before a hello, or     *)
(* where the host will write one, is the reset of its attempt.  An Ark     *)
(* that has read both its empty frames is waiting for the hello.           *)
AfterReset(k) ==
  /\ k > 2 => h2a[k - 2] = Delim
  /\ k > 1 => h2a[k - 1] = Delim
  /\ k = 1 => arkPc = "hello" \/ lapsed

HellosAfterReset ==
  /\ \A k \in DOMAIN h2a : h2a[k].packet.type = "hello" => AfterReset(k)
  /\ hostPc = "hello" => AfterReset(Len(h2a) + 1)
=============================================================================
