-------------------------- MODULE SecureLinkProofs --------------------------
(***************************************************************************)
(* The rules of SecureLink keep two ends of one session in step.           *)
(***************************************************************************)
EXTENDS SecureLink, TLAPS, SequenceTheorems

Types ==
  /\ host \in Session /\ ark \in Session
  /\ toArk \in Seq(Nat) /\ toHost \in Seq(Nat)

(* In a shared session neither end has opened more than the other sealed.  *)
NoneAhead ==
  Matched(host, ark) => ark.got <= host.sent /\ host.got <= ark.sent

SyncInv == Types /\ NoneAhead /\ InSync

(* Sealing and opening move one counter of a session.                      *)
LEMMA SealedOne ==
  ASSUME NEW s \in Session, NEW t, t = [s EXCEPT !.sent = @ + 1]
  PROVE  /\ t \in Session
         /\ t.sent = s.sent + 1 /\ t.got = s.got /\ t.host = s.host /\ t.ark = s.ark
BY DEF Session

LEMMA OpenedOne ==
  ASSUME NEW s \in Session, NEW t, t = [s EXCEPT !.got = @ + 1]
  PROVE  /\ t \in Session
         /\ t.got = s.got + 1 /\ t.sent = s.sent /\ t.host = s.host /\ t.ark = s.ark
BY DEF Session

LEMMA Counters ==
  ASSUME NEW s \in Session
  PROVE  s.sent \in Nat /\ s.got \in Nat
BY DEF Session

LEMMA AppendPosition ==
  ASSUME NEW m \in Nat, NEW n \in Nat, m <= n
  PROVE  Append(Positions(m, n), n) = Positions(m, n + 1)
<1>1. Positions(m, n) \in Seq(Nat) /\ Len(Positions(m, n)) = n - m
  BY DEF Positions
<1>2. Append(Positions(m, n), n) \in Seq(Nat) /\ Positions(m, n + 1) \in Seq(Nat)
  BY <1>1 DEF Positions
<1>3. /\ Len(Append(Positions(m, n), n)) = n - m + 1
      /\ Len(Positions(m, n + 1)) = n - m + 1
  BY <1>1 DEF Positions
<1>4. \A k \in 1 .. n - m + 1 : Append(Positions(m, n), n)[k] = Positions(m, n + 1)[k]
  BY <1>1 DEF Positions
<1>5. QED
  BY <1>2, <1>3, <1>4

LEMMA TailPositions ==
  ASSUME NEW m \in Nat, NEW n \in Nat, Positions(m, n) # <<>>
  PROVE  m < n /\ Tail(Positions(m, n)) = Positions(m + 1, n)
<1>1. m < n
  BY DEF Positions
<1>2. Positions(m, n) \in Seq(Nat) /\ Len(Positions(m, n)) = n - m
  BY <1>1 DEF Positions
<1>3. /\ Tail(Positions(m, n)) \in Seq(Nat) /\ Len(Tail(Positions(m, n))) = n - m - 1
      /\ \A k \in 1 .. n - m - 1 : Tail(Positions(m, n))[k] = Positions(m, n)[k + 1]
  BY <1>1, <1>2
<1>4. /\ Positions(m + 1, n) \in Seq(Nat) /\ Len(Positions(m + 1, n)) = n - m - 1
      /\ \A k \in 1 .. n - m - 1 : Positions(m + 1, n)[k] = Positions(m, n)[k + 1]
  BY <1>1 DEF Positions
<1>5. Tail(Positions(m, n)) = Positions(m + 1, n)
  BY <1>3, <1>4, SeqEqual
<1>6. QED
  BY <1>1, <1>5

LEMMA NoPositions ==
  ASSUME NEW n \in Nat
  PROVE  Positions(n, n) = <<>> /\ Positions(0, n) \in Seq(Nat) /\ Len(Positions(0, n)) = n
BY DEF Positions

(* While both ends are in one session, what is on its way is exactly what  *)
(* was sealed and not yet opened, in order, whatever sessions came before  *)
(* and however far the two have come.                                      *)
THEOREM SessionsInSync == Spec => []InSync
<1>1. Init => SyncInv
  BY DEF Init, SyncInv, Types, NoneAhead, InSync, Matched, Session, NewSession, NoSession
<1>2. SyncInv /\ [Next]_vars => SyncInv'
  <2> SUFFICES ASSUME SyncInv, [Next]_vars
               PROVE  /\ host' \in Session /\ ark' \in Session
                      /\ toArk' \in Seq(Nat) /\ toHost' \in Seq(Nat)
                      /\ Matched(host', ark') =>
                           /\ ark'.got <= host'.sent /\ host'.got <= ark'.sent
                           /\ toArk' = Positions(ark'.got, host'.sent)
                           /\ toHost' = Positions(host'.got, ark'.sent)
    BY DEF SyncInv, Types, NoneAhead, InSync, Matched
  <2>a. /\ host \in Session /\ ark \in Session
        /\ toArk \in Seq(Nat) /\ toHost \in Seq(Nat)
        /\ host.sent \in Nat /\ host.got \in Nat /\ ark.sent \in Nat /\ ark.got \in Nat
    BY Counters DEF SyncInv, Types
  <2>b. Matched(host, ark) =>
          /\ ark.got <= host.sent /\ host.got <= ark.sent
          /\ toArk = Positions(ark.got, host.sent)
          /\ toHost = Positions(host.got, ark.sent)
    BY DEF SyncInv, NoneAhead, InSync
  <2>c. NoSession \in Session /\ NoSession.host = 0
    BY DEF Session, NoSession, NewSession
  <2>1. CASE HostOpens
    <3>1. host' \in Session /\ ~Matched(host', ark) /\ toHost' = <<>> /\ UNCHANGED <<ark, toArk>>
      BY <2>1 DEF HostOpens
    <3>2. QED
      BY <2>a, <3>1
  <2>2. CASE ArkOpens
    <3>1. /\ UNCHANGED <<host, toHost>>
          /\ ark' \in Session /\ ark' = NewSession(ark'.host, ark'.ark)
          /\ toArk' \in Seq(Nat) /\ toArk' = Positions(0, Len(toArk'))
      BY <2>2 DEF ArkOpens, IsNew
    <3>2. ark'.sent = 0 /\ ark'.got = 0
      BY <3>1 DEF NewSession
    <3>3. Matched(host, ark') =>
            Len(toArk') = host.sent /\ host.got = 0 /\ toHost = <<>>
      BY <2>2 DEF ArkOpens
    <3>4. Positions(0, 0) = <<>>
      BY NoPositions
    <3>5. QED
      BY <2>a, <3>1, <3>2, <3>3, <3>4
  <2>3. CASE HostSends
    <3>1. host' = [host EXCEPT !.sent = @ + 1] /\ UNCHANGED <<ark, toHost>>
      BY <2>3 DEF HostSends
    <3>2. /\ host' \in Session
          /\ host'.sent = host.sent + 1 /\ host'.got = host.got
          /\ host'.host = host.host /\ host'.ark = host.ark
      BY <2>a, <3>1, SealedOne
    <3>3. Matched(host', ark') <=> Matched(host, ark)
      BY <3>1, <3>2 DEF Matched
    <3>4. toArk' = IF Matched(host, ark) THEN Append(toArk, host.sent) ELSE toArk
      BY <2>3 DEF HostSends
    <3>5. toArk' \in Seq(Nat)
      BY <2>a, <3>4
    <3>6. Matched(host, ark) => toArk' = Positions(ark'.got, host'.sent)
      BY <2>a, <2>b, <3>1, <3>2, <3>4, AppendPosition
    <3>7. QED
      BY <2>a, <2>b, <3>1, <3>2, <3>3, <3>5, <3>6
  <2>4. CASE ArkSends
    <3>1. ark' = [ark EXCEPT !.sent = @ + 1] /\ UNCHANGED <<host, toArk>>
      BY <2>4 DEF ArkSends
    <3>2. /\ ark' \in Session
          /\ ark'.sent = ark.sent + 1 /\ ark'.got = ark.got
          /\ ark'.host = ark.host /\ ark'.ark = ark.ark
      BY <2>a, <3>1, SealedOne
    <3>3. Matched(host', ark') <=> Matched(host, ark)
      BY <3>1, <3>2 DEF Matched
    <3>4. toHost' = IF Matched(host, ark) THEN Append(toHost, ark.sent) ELSE toHost
      BY <2>4 DEF ArkSends
    <3>5. toHost' \in Seq(Nat)
      BY <2>a, <3>4
    <3>6. Matched(host, ark) => toHost' = Positions(host'.got, ark'.sent)
      BY <2>a, <2>b, <3>1, <3>2, <3>4, AppendPosition
    <3>7. QED
      BY <2>a, <2>b, <3>1, <3>2, <3>3, <3>5, <3>6
  <2>5. CASE HostReceives
    <3>1. /\ host' = [host EXCEPT !.got = @ + 1] /\ UNCHANGED <<ark, toArk>>
          /\ toHost # <<>> /\ toHost' = Tail(toHost)
      BY <2>5 DEF HostReceives
    <3>2. /\ host' \in Session
          /\ host'.got = host.got + 1 /\ host'.sent = host.sent
          /\ host'.host = host.host /\ host'.ark = host.ark
      BY <2>a, <3>1, OpenedOne
    <3>3. Matched(host', ark') <=> Matched(host, ark)
      BY <3>1, <3>2 DEF Matched
    <3>4. toHost' \in Seq(Nat)
      BY <2>a, <3>1
    <3>5. Matched(host, ark) => host.got < ark.sent /\ toHost' = Positions(host'.got, ark'.sent)
      BY <2>a, <2>b, <3>1, <3>2, TailPositions
    <3>6. QED
      BY <2>a, <2>b, <3>1, <3>2, <3>3, <3>4, <3>5
  <2>6. CASE ArkReceives
    <3>1. /\ ark' = [ark EXCEPT !.got = @ + 1] /\ UNCHANGED <<host, toHost>>
          /\ toArk # <<>> /\ toArk' = Tail(toArk)
      BY <2>6 DEF ArkReceives
    <3>2. /\ ark' \in Session
          /\ ark'.got = ark.got + 1 /\ ark'.sent = ark.sent
          /\ ark'.host = ark.host /\ ark'.ark = ark.ark
      BY <2>a, <3>1, OpenedOne
    <3>3. Matched(host', ark') <=> Matched(host, ark)
      BY <3>1, <3>2 DEF Matched
    <3>4. toArk' \in Seq(Nat)
      BY <2>a, <3>1
    <3>5. Matched(host, ark) => ark.got < host.sent /\ toArk' = Positions(ark'.got, host'.sent)
      BY <2>a, <2>b, <3>1, <3>2, TailPositions
    <3>6. QED
      BY <2>a, <2>b, <3>1, <3>2, <3>3, <3>4, <3>5
  <2>7. CASE HostCloses
    <3>1. host' = NoSession /\ toHost' = <<>> /\ UNCHANGED ark
      BY <2>7 DEF HostCloses
    <3>2. toArk' = toArk \/ toArk' = Append(toArk, host.sent)
      BY <2>7 DEF HostCloses
    <3>3. toArk' \in Seq(Nat)
      <4>1. Append(toArk, host.sent) \in Seq(Nat)
        BY <2>a
      <4>2. QED
        BY <2>a, <3>2, <4>1
    <3>4. ~Matched(host', ark')
      BY <2>a, <2>c, <3>1 DEF Matched
    <3>5. QED
      BY <2>a, <2>c, <3>1, <3>3, <3>4
  <2>8. CASE ArkCloses
    <3>1. ark' = NoSession /\ toArk' = <<>> /\ UNCHANGED host
      BY <2>8 DEF ArkCloses
    <3>2. toHost' = toHost \/ toHost' = Append(toHost, ark.sent)
      BY <2>8 DEF ArkCloses
    <3>3. toHost' \in Seq(Nat)
      <4>1. Append(toHost, ark.sent) \in Seq(Nat)
        BY <2>a
      <4>2. QED
        BY <2>a, <3>2, <4>1
    <3>4. ~Matched(host', ark')
      BY <2>a, <2>c, <3>1 DEF Matched
    <3>5. QED
      BY <2>a, <2>c, <3>1, <3>3, <3>4
  <2>9. CASE UNCHANGED vars
    BY <2>9, <2>a, <2>b DEF vars
  <2>10. QED
    BY <2>1, <2>2, <2>3, <2>4, <2>5, <2>6, <2>7, <2>8, <2>9 DEF Next
<1>3. SyncInv => InSync
  BY DEF SyncInv
<1>4. QED
  BY <1>1, <1>2, <1>3, PTL DEF Spec
=============================================================================
