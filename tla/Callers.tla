------------------------------ MODULE Callers -------------------------------
(***************************************************************************)
(* A host thread and an Ark thread that call the two sides, as the unit    *)
(* tests of side_ark.rs do over a socket pair: each follows a script of    *)
(* calls, a write blocks while the socket is full and a read while it is   *)
(* empty, and an unwrap or assert that fails is a panic.  A thread is one  *)
(* caller: blocked in a write it does not read.                            *)
(***************************************************************************)
EXTENDS HostSide, ArkSide

CONSTANTS
  Scripts  (* what the two threads do, as records of calls                 *)

(* The calls of a host thread: a handshake that must succeed, be refused   *)
(* by the verifier or fail for too many stale frames, a message that must  *)
(* be sent, fail to be sent or be refused for want of a session, a message *)
(* that must be read, bytes written past the host side, the host dropped,  *)
(* the Ark's thread joined.                                                *)
HostCalls == {"handshake", "rejected", "overrun", "send", "unsent", "refused", "read",
              "rawreset", "rawhello", "rawjunk", "drop", "join"}

(* The calls of an Ark's: a message that must be read, an answer that must *)
(* be sent, a next_message that must end with the transport.               *)
ArkCalls == {"next", "reply", "down"}

VARIABLES
  test,     (* the script the two threads follow                           *)
  hostAt,   (* the call the host's thread is at                            *)
  arkAt,
  dropped,  (* the host's end of the sockets is closed                     *)
  served,   (* attempt and position of the messages the Ark was given      *)
  panicked

threadVars == <<test, hostAt, arkAt, dropped, served, panicked>>
vars == <<h2a, a2h, hostVars, arkVars, threadVars>>

HostDone == hostAt > Len(test.host)
ArkDone == arkAt > Len(test.ark)
HostAt(calls) == ~panicked /\ ~HostDone /\ test.host[hostAt] \in calls
ArkAt(calls) == ~panicked /\ ~ArkDone /\ test.ark[arkAt] \in calls

Init ==
  /\ h2a = <<>> /\ a2h = <<>>
  /\ HostInit
  /\ ArkInit
  /\ test \in Scripts
  /\ hostAt = 1 /\ arkAt = 1
  /\ dropped = FALSE
  /\ served = <<>>
  /\ panicked = FALSE

(* A call returns, as the thread asserts or not.                           *)
HostReturns(asserted) ==
  /\ hostAt' = hostAt + 1
  /\ panicked' = ~asserted
  /\ UNCHANGED <<test, arkAt, served>>

ArkReturns(asserted) ==
  /\ arkAt' = arkAt + 1
  /\ panicked' = ~asserted
  /\ UNCHANGED <<test, hostAt, dropped>>

-----------------------------------------------------------------------------
(* The host's thread.                                                      *)
HandshakeEnd == [handshake |-> "ok", rejected |-> "rejected", overrun |-> "stale"]

HostHandshakes ==
  /\ HostAt(DOMAIN HandshakeEnd)
  /\ \/ HostReset(TRUE) \/ HostSendHello(TRUE) \/ HostSkipStale
     \/ HostAt({"handshake", "overrun"}) /\ HostSendAck(TRUE)
     \/ HostAt({"rejected"}) /\ HostReject
  /\ IF hostPc' # "idle" THEN UNCHANGED threadVars
     ELSE /\ HostReturns(hostRes' = HandshakeEnd[test.host[hostAt]])
          /\ UNCHANGED dropped
  /\ UNCHANGED arkVars

HostSends ==
  /\ HostAt({"send", "unsent"})
  /\ \/ HostAt({"send"}) /\ HostSendMessage(TRUE)
     \/ HostAt({"unsent"}) /\ HostSendMessage(FALSE) /\ h2a' = h2a
  /\ HostReturns(TRUE)
  /\ UNCHANGED <<dropped, arkVars>>

(* send_message without a session.                                         *)
HostRefused ==
  /\ HostAt({"send", "unsent", "refused"})
  /\ hostSession = NoSession \/ HostAt({"refused"})
  /\ HostReturns(hostSession = NoSession /\ HostAt({"refused"}))
  /\ UNCHANGED <<dropped, h2a, a2h, hostVars, arkVars>>

HostReads ==
  /\ HostAt({"read"})
  /\ HostNextMessage
  /\ HostReturns(hostSession' # NoSession /\ hostSession'.got = hostSession.got + 1)
  /\ UNCHANGED <<dropped, arkVars>>

(* The tests write a reset, the hello of keys that are nobody's and a      *)
(* packet of junk past the host side.                                      *)
HostWritesRaw ==
  /\ \/ HostAt({"rawreset"}) /\ HostWrites({Reset})
     \/ HostAt({"rawhello"}) /\ HostWrites({Frame(HostHello(0))})
     \/ HostAt({"rawjunk"}) /\ HostWrites({Frame(Junk)})
  /\ HostReturns(TRUE)
  /\ UNCHANGED <<dropped, a2h, hostVars, arkVars>>

HostDrops ==
  /\ HostAt({"drop"})
  /\ dropped' = TRUE
  /\ HostReturns(TRUE)
  /\ UNCHANGED <<h2a, a2h, hostVars, arkVars>>

HostJoins ==
  /\ HostAt({"join"}) /\ ArkDone
  /\ HostReturns(TRUE)
  /\ UNCHANGED <<dropped, h2a, a2h, hostVars, arkVars>>

HostThread ==
  \/ HostHandshakes \/ HostSends \/ HostRefused \/ HostReads
  \/ HostWritesRaw \/ HostDrops \/ HostJoins

-----------------------------------------------------------------------------
(* The Ark's thread: next_message loops until a message opens.             *)
ArkReads ==
  /\ ArkAt({"next", "down"})
  /\ \/ ArkReset \/ ArkStartOver \/ ArkSendHello(TRUE) \/ ArkEstablish \/ ArkHandshakeFails
     \/ ArkNextMessage
  /\ IF arkSession' = NoSession \/ arkSession'.got = arkSession.got \/ arkSession = NoSession
       THEN UNCHANGED threadVars
       ELSE /\ served' = Append(served, <<arkSession.host, arkSession.got>>)
            /\ ArkReturns(ArkAt({"next"}))
  /\ UNCHANGED hostVars

(* The stream has ended: next_message returns Terminated.                  *)
ArkTerminated ==
  /\ ArkAt({"next", "down"})
  /\ dropped /\ ~HasFrame(h2a)
  /\ arkPc' = "serve"
  /\ ArkReturns(ArkAt({"down"}))
  /\ UNCHANGED <<served, h2a, a2h, hostVars, arkKey, arkHost, arkSession, lapsed>>

ArkReplies ==
  /\ ArkAt({"reply"})
  /\ IF arkSession # NoSession THEN ArkSendMessage(TRUE)
                               ELSE UNCHANGED <<h2a, a2h, arkVars>>
  /\ ArkReturns(arkSession # NoSession)
  /\ UNCHANGED <<served, hostVars>>

ArkThread == ArkReads \/ ArkTerminated \/ ArkReplies

Next == HostThread \/ ArkThread

(* The operating system schedules both threads.                            *)
Spec == Init /\ [][Next]_vars /\ WF_vars(HostThread) /\ WF_vars(ArkThread)

-----------------------------------------------------------------------------
(* Scripts.  ids are the messages the Ark must have been given at the end, *)
(* ahead the most writes the host's thread makes in a row without reading, *)
(* answers what the Ark's answers to each message.                         *)
Script(host, ark, ids, ahead, answers) ==
  [host |-> host, ark |-> ark, ids |-> ids, ahead |-> ahead, answers |-> answers]

Repeat(n, calls) ==
  [k \in 1 .. n * Len(calls) |-> calls[((k - 1) % Len(calls)) + 1]]

Echo(n) == Repeat(n, <<"next", "reply">>)

(* The unit tests of the two sides.                                        *)
MessageRoundTrip ==
  Script(<<"handshake", "send", "join", "read">>, Echo(1), << <<1, 0>> >>, 2, 1)

ResetMidTransfer ==
  Script(<<"handshake", "send", "read", "rawjunk", "handshake", "send", "read", "join">>,
         Echo(2), << <<1, 0>>, <<2, 0>> >>, 3, 1)

ResetUnreadResponse ==
  Script(<<"handshake", "send", "handshake", "send", "read", "join">>,
         Echo(2), << <<1, 0>>, <<2, 0>> >>, 3, 1)

ResetMidHandshake ==
  Script(<<"rawreset", "rawhello", "handshake", "send", "join", "read">>,
         Echo(1), << <<1, 0>> >>, 4, 1)

ResetMalformedHello ==
  Script(<<"rawreset", "rawjunk", "handshake", "send", "join", "read">>,
         Echo(1), << <<1, 0>> >>, 4, 1)

VerifierRejects == Script(<<"rejected", "drop", "join">>, <<"down">>, <<>>, 2, 1)

(* The accepted handshakes of the roots verifier's test.                   *)
RootsAccept == Script(<<"handshake", "drop", "join">>, <<"down">>, <<>>, 2, 1)

SendFailureDropsSession ==
  Script(<<"handshake", "unsent", "refused", "handshake", "send", "join", "read">>,
         Echo(1), << <<2, 0>> >>, 2, 1)

UnitTests ==
  {MessageRoundTrip, ResetMidTransfer, ResetUnreadResponse, ResetMidHandshake,
   ResetMalformedHello, VerifierRejects, RootsAccept, SendFailureDropsSession}

(* A host that sends n requests before it reads their m answers each, and  *)
(* one that asks for a new session instead of reading them.                *)
Pipelined(n, m) ==
  Script(<<"handshake">> \o Repeat(n, <<"send">>) \o Repeat(n * m, <<"read">>),
         Repeat(n, <<"next">> \o Repeat(m, <<"reply">>)),
         [k \in 1 .. n |-> <<1, k - 1>>], n, m)

Reconnecting(n, m) ==
  Script(<<"handshake">> \o Repeat(n, <<"send">>) \o <<"handshake", "send", "read">>,
         Repeat(n, <<"next">> \o Repeat(m, <<"reply">>)) \o Echo(1),
         [k \in 1 .. n + 1 |-> IF k <= n THEN <<1, k - 1>> ELSE <<2, 0>>], n + 2, m)

(* One that left more answers unread than a handshake skips: k handshakes  *)
(* end for it, each having skipped some, and the next one succeeds.        *)
Overrunning(n, m, k) ==
  Script(<<"handshake">> \o Repeat(n, <<"send">>) \o Repeat(k, <<"overrun">>)
           \o <<"handshake", "send", "read">>,
         Repeat(n, <<"next">> \o Repeat(m, <<"reply">>)) \o Echo(1),
         [i \in 1 .. n + 1 |-> IF i <= n THEN <<1, i - 1>> ELSE <<k + 2, 0>>], n + 2, m)

-----------------------------------------------------------------------------
(* No thread fails an unwrap or an assert, whatever the interleaving, and  *)
(* the Ark was given the messages the script expects, in order: what       *)
(* test_message_round_trip and the tests after it assert of one run each.  *)
AssertsHold ==
  /\ ~panicked
  /\ HostDone /\ ArkDone => served = test.ids

(* Each end waits for the other to read: both are in a write the sockets   *)
(* do not take.  Everything either writes is two tokens.                   *)
HostBlocked ==
  /\ \/ HostAt({"send", "rawreset", "rawhello", "rawjunk"})
     \/ HostAt(DOMAIN HandshakeEnd) /\ hostPc # "ack"
  /\ Len(h2a) + 2 > Capacity

ArkBlocked == ArkAt({"reply"}) /\ Len(a2h) + 2 > Capacity

Wedged == HostBlocked /\ ArkBlocked

(* The ends wedge only when one call of the host's thread after another    *)
(* overruns both sockets: for some number of messages the Ark has taken,   *)
(* the writes still to come are more than the socket to it holds and the   *)
(* answers to those taken more than the other (the write of send_frame).   *)
WedgedOnlyBeyondBuffers ==
  Wedged =>
    \E taken \in 1 .. Len(test.ark) :
      /\ 2 * (test.ahead - taken) > Capacity
      /\ 2 * taken * test.answers > Capacity

(* Every script runs to its end unless the ends wedge: no call waits       *)
(* forever for an answer that does not come (the reads of next_frame).     *)
Completes == <>((HostDone /\ ArkDone) \/ Wedged)
=============================================================================
