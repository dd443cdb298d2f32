----------------------------- MODULE SecureLink -----------------------------
(***************************************************************************)
(* What the wire promises two ends that hold sessions: messages of a       *)
(* session arrive once, in order and none is lost as long as the receiver  *)
(* stays in it, whatever happens to the streams below.  No streams, no     *)
(* frames, no handshake messages here: an end opens and closes sessions,   *)
(* and a queue holds what is on its way to an end for its session.         *)
(***************************************************************************)
EXTENDS Naturals, Sequences

VARIABLES
  host,    (* the host's session: contexts, messages sealed, opened        *)
  ark,     (* the Ark's                                                    *)
  toArk,   (* positions of the messages on their way to the Ark's session  *)
  toHost   (* and to the host's                                            *)

vars == <<host, ark, toArk, toHost>>

Session == [host : Nat, ark : Nat, sent : Nat, got : Nat]
NewSession(h, a) == [host |-> h, ark |-> a, sent |-> 0, got |-> 0]
NoSession == NewSession(0, 0)

IsNew(s) == s.host > 0 /\ s.ark > 0 /\ s = NewSession(s.host, s.ark)

(* Both ends are in the same session.                                      *)
Matched(s, t) == s.host > 0 /\ s.host = t.host /\ s.ark = t.ark

(* The positions from .. to - 1 in order.                                  *)
Positions(from, to) == [k \in 1 .. to - from |-> from + k - 1]

Init ==
  /\ host = NoSession
  /\ ark = NoSession
  /\ toArk = <<>>
  /\ toHost = <<>>

(* The host opens a session the Ark is not in yet.                         *)
HostOpens ==
  /\ host = NoSession
  /\ host' \in Session /\ IsNew(host')
  /\ ~Matched(host', ark)
  /\ toHost' = <<>>
  /\ UNCHANGED <<ark, toArk>>

(* The Ark opens a session.  Messages the host sealed for it already are   *)
(* on their way; if the host is still in it, all of them.                  *)
ArkOpens ==
  /\ ark = NoSession
  /\ ark' \in Session /\ IsNew(ark')
  /\ toArk' \in Seq(Nat) /\ toArk' = Positions(0, Len(toArk'))
  /\ Matched(host, ark') =>
       Len(toArk') = host.sent /\ host.got = 0 /\ toHost = <<>>
  /\ UNCHANGED <<host, toHost>>

(* An end seals a message for the other.                                   *)
HostSends ==
  /\ host # NoSession
  /\ host' = [host EXCEPT !.sent = @ + 1]
  /\ toArk' = IF Matched(host, ark) THEN Append(toArk, host.sent) ELSE toArk
  /\ UNCHANGED <<ark, toHost>>

ArkSends ==
  /\ ark # NoSession
  /\ ark' = [ark EXCEPT !.sent = @ + 1]
  /\ toHost' = IF Matched(host, ark) THEN Append(toHost, ark.sent) ELSE toHost
  /\ UNCHANGED <<host, toArk>>

(* The message an end opens is the one it expects.                         *)
HostReceives ==
  /\ toHost # <<>> /\ Head(toHost) = host.got
  /\ host' = [host EXCEPT !.got = @ + 1]
  /\ toHost' = Tail(toHost)
  /\ UNCHANGED <<ark, toArk>>

ArkReceives ==
  /\ toArk # <<>> /\ Head(toArk) = ark.got
  /\ ark' = [ark EXCEPT !.got = @ + 1]
  /\ toArk' = Tail(toArk)
  /\ UNCHANGED <<host, toHost>>

(* An end closes its session, maybe on failing to send a message that will *)
(* still arrive.                                                           *)
HostCloses ==
  /\ host # NoSession
  /\ host' = NoSession
  /\ toHost' = <<>>
  /\ \/ UNCHANGED toArk
     \/ Matched(host, ark) /\ toArk' = Append(toArk, host.sent)
  /\ UNCHANGED ark

ArkCloses ==
  /\ ark # NoSession
  /\ ark' = NoSession
  /\ toArk' = <<>>
  /\ \/ UNCHANGED toHost
     \/ Matched(host, ark) /\ toHost' = Append(toHost, ark.sent)
  /\ UNCHANGED host

Next ==
  \/ HostOpens \/ HostSends \/ HostReceives \/ HostCloses
  \/ ArkOpens \/ ArkSends \/ ArkReceives \/ ArkCloses

Spec == Init /\ [][Next]_vars

(* While both ends are in one session nothing is lost, repeated or         *)
(* reordered between them: what is on its way is exactly what was sealed   *)
(* and not yet opened.                                                     *)
InSync ==
  Matched(host, ark) =>
    /\ toArk = Positions(ark.got, host.sent)
    /\ toHost = Positions(host.got, ark.sent)
=============================================================================
